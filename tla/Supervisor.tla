----------------------------- MODULE Supervisor -----------------------------
(***************************************************************************)
(* The service that keeps the inference engine running,                    *)
(* cmd/blueprint-svc: runSupervisor (the worker goroutine) and the platform *)
(* bridge around it, main on Linux and Execute on Windows, which stops it.  *)
(*                                                                         *)
(* The desktop and the HTTP API tell the worker what to run through the     *)
(* config file, and learn what it does from the status file.  Both are      *)
(* written by truncating and then writing, so a reader can find the config  *)
(* torn.  A config is a complete one, known by its version, or None.  A     *)
(* write of the status may fail, before or after the truncation, and the    *)
(* worker ignores that; only readers can see the instant between the two    *)
(* of a write that goes well, so that one is a single step here.            *)
(*                                                                         *)
(* exec.CommandContext runs one more goroutine per child, the watcher: it   *)
(* kills the child once the child's context is done.  Time is abstract: a   *)
(* timer may fire at any moment after it was started.                       *)
(***************************************************************************)
EXTENDS Naturals

CONSTANTS Version,      \* complete configs
          None, Torn,   \* no file; a file that does not parse
          MaxRestarts,  \* the MaxRestarts field of each config; 0 is unbounded
          Backoffs,     \* the backoff's ceiling, in doublings (1 s ... 30 s)
          MaxCount,     \* bound on the restarts counted
          MaxWrites     \* bound on the writes of the config file

ASSUME SupervisorAssumption ==
    /\ None # Torn /\ {None, Torn} \cap Version = {}
    /\ MaxRestarts \in [Version -> Nat]
    /\ Backoffs \in Nat /\ MaxCount \in Nat /\ MaxWrites \in Nat

VARIABLES
    platform,   \* "windows" or "linux"
    conf,       \* the config file
    writing,    \* the config a writer has truncated the file for, or None
    writes,     \* config writes so far
    wk,         \* the worker: where runSupervisor is
    cfg,        \* the worker's cfg
    restarts,   \* restartCount
    backoff,    \* backoff, as the number of doublings
    child,      \* the engine process: "none", "alive" or "dead"
    tracked,    \* childTracker holds the child
    ctxDone,    \* the worker's context is cancelled
    childDone,  \* the child's own cancel function was called
    termed,     \* SIGTERM was sent to the child
    bridge,     \* the platform bridge
    forced,     \* the bridge stopped waiting for the worker
    status,     \* the status file
    lost,       \* history: the last write of the status failed
    fails       \* history: restarts counted since cfg was last changed

confVars == <<platform, conf, writing, writes>>
countVars == <<restarts, fails>>
workerVars == <<wk, cfg, countVars, backoff>>
childVars == <<child, termed>>
statusVars == <<status, lost>>
bridgeVars == <<ctxDone, childDone, bridge, forced>>
vars == <<confVars, workerVars, childVars, tracked, bridgeVars, statusVars>>

Config == Version \cup {None}
Status == [phase : {"none", "idle", "running", "crashed", "stopped"}, cfg : Config]
WorkerState == {"init", "loop", "spawn", "started", "tracking", "waiting", "reaped", "ended",
                "sleepPoll", "sleepStart", "sleepCrash", "returned"}
BridgeState == {"serving", "stopping", "cancelling", "waiting", "writing", "returning", "exited"}

TypeOK ==
    /\ platform \in {"windows", "linux"}
    /\ conf \in Config \cup {Torn} /\ writing \in Config /\ writes \in 0 .. MaxWrites
    /\ wk \in WorkerState /\ cfg \in Config
    /\ restarts \in Nat /\ backoff \in 0 .. Backoffs
    /\ child \in {"none", "alive", "dead"}
    /\ tracked \in BOOLEAN /\ ctxDone \in BOOLEAN /\ childDone \in BOOLEAN
    /\ termed \in BOOLEAN /\ forced \in BOOLEAN
    /\ bridge \in BridgeState
    /\ status \in Status \cup {Torn}
    /\ lost \in BOOLEAN /\ fails \in Nat

Init ==
    /\ platform \in {"windows", "linux"}
    /\ conf \in Config /\ writing = None /\ writes = 0
    /\ wk = "init" /\ cfg = None /\ restarts = 0 /\ backoff = 0
    /\ child = "none" /\ termed = FALSE
    /\ tracked = FALSE
    /\ ctxDone = FALSE /\ childDone = FALSE /\ bridge = "serving" /\ forced = FALSE
    /\ status = [phase |-> "none", cfg |-> None] /\ lost = FALSE /\ fails = 0

Up == bridge # "exited"   \* the service's process and all its goroutines

-----------------------------------------------------------------------------
(* The config file.                                                        *)

\* WriteConfig truncates the file ...
BeginWrite(v) ==
    /\ writing = None /\ writes < MaxWrites
    /\ writing' = v /\ conf' = Torn /\ writes' = writes + 1
    /\ UNCHANGED <<platform, workerVars, childVars, tracked, bridgeVars, statusVars>>

\* ... and writes it.
EndWrite ==
    /\ writing # None
    /\ conf' = writing /\ writing' = None
    /\ UNCHANGED <<platform, writes, workerVars, childVars, tracked, bridgeVars, statusVars>>

\* DeleteConfig
DeleteConfig ==
    /\ writing = None /\ conf # None /\ writes < MaxWrites
    /\ conf' = None /\ writes' = writes + 1
    /\ UNCHANGED <<platform, writing, workerVars, childVars, tracked, bridgeVars, statusVars>>

-----------------------------------------------------------------------------
(* runSupervisor.                                                          *)

\* Best effort: a failed write leaves the file as it was, or truncated, and its
\* error is dropped.
WriteStatus(phase, c) ==
    \/ status' = [phase |-> phase, cfg |-> c] /\ lost' = FALSE
    \/ status' \in {status, Torn} /\ lost' = TRUE

Startup ==
    /\ Up /\ wk = "init"
    /\ WriteStatus("idle", None)
    /\ wk' = "loop"
    /\ UNCHANGED <<confVars, cfg, countVars, backoff, childVars, tracked, bridgeVars>>

\* The top of the loop: the context, then the config.
Poll ==
    /\ Up /\ wk = "loop"
    /\ \/ ctxDone /\ wk' = "returned" /\ UNCHANGED <<cfg, fails, statusVars>>
       \/ /\ ~ctxDone /\ conf \in {None, Torn}
          /\ WriteStatus("idle", None)
          /\ wk' = "sleepPoll" /\ UNCHANGED <<cfg, fails>>
       \/ /\ ~ctxDone /\ conf \in Version
          /\ cfg' = conf /\ fails' = IF conf = cfg THEN fails ELSE 0
          /\ wk' = "spawn" /\ UNCHANGED statusVars
    /\ UNCHANGED <<confVars, restarts, backoff, childVars, tracked, bridgeVars>>

\* The log file cannot be opened, or the engine has no binary.
NoEngine ==
    /\ Up /\ wk = "spawn"
    /\ \E phase \in {"idle", "crashed"} : WriteStatus(phase, None)
    /\ wk' = "sleepPoll"
    /\ UNCHANGED <<confVars, cfg, countVars, backoff, childVars, tracked, bridgeVars>>

\* cmd.Start fails: always when the context is done, else when exec fails.
StartFails ==
    /\ Up /\ wk = "spawn"
    /\ WriteStatus("crashed", None)
    /\ wk' = "sleepStart"
    /\ UNCHANGED <<confVars, cfg, countVars, backoff, childVars, tracked, bridgeVars>>

Start ==
    /\ Up /\ wk = "spawn" /\ ~ctxDone
    /\ child' = "alive" /\ termed' = FALSE /\ childDone' = FALSE
    /\ wk' = "started"
    /\ UNCHANGED <<confVars, cfg, countVars, backoff, tracked, ctxDone, bridge, forced, statusVars>>

\* Mutant: the report is read from the config file instead of cfg.
ReportConfigured ==
    /\ Up /\ wk = "started" /\ conf # Torn
    /\ WriteStatus("running", conf)
    /\ wk' = "tracking"
    /\ UNCHANGED <<confVars, cfg, countVars, backoff, childVars, tracked, bridgeVars>>

ReportRunning ==
    /\ Up /\ wk = "started"
    /\ WriteStatus("running", cfg)
    /\ wk' = "tracking"
    /\ UNCHANGED <<confVars, cfg, countVars, backoff, childVars, tracked, bridgeVars>>

OnChildStart ==
    /\ Up /\ wk = "tracking"
    /\ tracked' = TRUE
    /\ wk' = "waiting"
    /\ UNCHANGED <<confVars, cfg, countVars, backoff, childVars, bridgeVars, statusVars>>

\* Mutant: the worker gives the child up once its context is done.
WaitOrCancelled ==
    /\ Up /\ wk = "waiting" /\ (child = "dead" \/ ctxDone)
    /\ wk' = "reaped"
    /\ UNCHANGED <<confVars, cfg, countVars, backoff, childVars, tracked, bridgeVars,
                   statusVars>>

\* cmd.Wait
Wait ==
    /\ Up /\ wk = "waiting" /\ child = "dead"
    /\ wk' = "reaped"
    /\ UNCHANGED <<confVars, cfg, countVars, backoff, childVars, tracked, bridgeVars,
                   statusVars>>

OnChildEnd ==
    /\ Up /\ wk = "reaped"
    /\ tracked' = FALSE
    /\ wk' = "ended"
    /\ UNCHANGED <<confVars, cfg, countVars, backoff, childVars, bridgeVars, statusVars>>

\* Mutant: the count is compared with > instead of >=.
MayGoOnOneMore(c, n) == MaxRestarts[c] = 0 \/ n <= MaxRestarts[c]

\* The limit is that of the config at hand, the count goes back to earlier ones.
MayGoOn(c, n) == MaxRestarts[c] = 0 \/ n < MaxRestarts[c]

\* Mutant: nextBackoff without its ceiling.
DoubledForEver(b) == b + 1

\* nextBackoff
Doubled(b) == IF b < Backoffs THEN b + 1 ELSE b

\* A run of more than a minute forgives the crashes before it.
Crashed ==
    /\ Up /\ wk = "ended"
    /\ IF ctxDone
       THEN /\ wk' = "returned"
            /\ UNCHANGED <<countVars, backoff, statusVars>>
       ELSE \E long \in BOOLEAN :
            /\ restarts' = IF long THEN 1 ELSE restarts + 1
            /\ fails' = IF long THEN 1 ELSE fails + 1
            /\ restarts' <= MaxCount
            /\ backoff' = IF long THEN 0 ELSE backoff
            /\ WriteStatus("crashed", cfg)
            /\ wk' = IF MayGoOn(cfg, restarts') THEN "sleepCrash" ELSE "returned"
    /\ UNCHANGED <<confVars, cfg, childVars, tracked, bridgeVars>>

\* sleepCtx ends early when the context is done ...
SleepCancelled ==
    /\ Up /\ ctxDone /\ wk \in {"sleepPoll", "sleepStart", "sleepCrash"}
    /\ wk' = "returned"
    /\ UNCHANGED <<confVars, cfg, countVars, backoff, childVars, tracked, bridgeVars,
                   statusVars>>

\* ... and else when its timer fires.  What follows it differs.
\* Mutant: the idle loop retries the config it has, if it has one.
SleepPolledKeepsConfig ==
    /\ Up /\ wk = "sleepPoll"
    /\ wk' = IF cfg = None THEN "loop" ELSE "spawn"
    /\ UNCHANGED <<confVars, cfg, countVars, backoff, childVars, tracked, bridgeVars,
                   statusVars>>

SleepPolled ==
    /\ Up /\ wk = "sleepPoll"
    /\ wk' = "loop"
    /\ UNCHANGED <<confVars, cfg, countVars, backoff, childVars, tracked, bridgeVars,
                   statusVars>>

SleepAfterCrash ==
    /\ Up /\ wk = "sleepCrash"
    /\ wk' = "loop" /\ backoff' = Doubled(backoff)
    /\ UNCHANGED <<confVars, cfg, countVars, childVars, tracked, bridgeVars, statusVars>>

SleepAfterStart ==
    /\ Up /\ wk = "sleepStart" /\ restarts < MaxCount
    /\ backoff' = Doubled(backoff)
    /\ restarts' = restarts + 1 /\ fails' = fails + 1
    /\ IF MayGoOn(cfg, restarts')
       THEN wk' = "loop" /\ UNCHANGED statusVars
       ELSE wk' = "returned" /\ WriteStatus("crashed", None)
    /\ UNCHANGED <<confVars, cfg, childVars, tracked, bridgeVars>>

Worker ==
    \/ Startup \/ Poll \/ NoEngine \/ StartFails \/ Start \/ ReportRunning \/ OnChildStart
    \/ Wait \/ OnChildEnd \/ Crashed \/ SleepCancelled \/ SleepPolled
    \/ SleepAfterCrash \/ SleepAfterStart

-----------------------------------------------------------------------------
(* The engine process.                                                     *)

\* It ends by itself, or on SIGTERM.
ChildExits ==
    /\ child = "alive"
    /\ child' = "dead"
    /\ UNCHANGED <<confVars, workerVars, termed, tracked, bridgeVars, statusVars>>

\* The watcher kills it when its context is done: the child's own, or the
\* worker's, of which it is derived.
WatcherKills ==
    /\ Up /\ child = "alive" /\ (ctxDone \/ childDone)
    /\ child' = "dead"
    /\ UNCHANGED <<confVars, workerVars, termed, tracked, bridgeVars, statusVars>>

-----------------------------------------------------------------------------
(* The platform bridge.                                                    *)

\* Mutant: the signal is noted, the context is not cancelled.
StopNoted ==
    /\ bridge = "serving"
    /\ bridge' = "stopping"
    /\ UNCHANGED <<confVars, workerVars, childVars, tracked, ctxDone, childDone, forced, statusVars>>

\* SIGTERM cancels the context on Linux (signal.NotifyContext); on Windows the
\* service manager's Stop only wakes Execute.
StopRequested ==
    /\ bridge = "serving"
    /\ bridge' = "stopping"
    /\ ctxDone' = (ctxDone \/ platform = "linux")
    /\ UNCHANGED <<confVars, workerVars, childVars, tracked, childDone, forced, statusVars>>

\* What the bridge does to the child its tracker holds, if any: on Linux SIGTERM,
\* a kill in five seconds and cc(); on Windows Kill, which returns when the
\* process is gone, and cc().
StopChild ==
    /\ bridge = "stopping"
    /\ bridge' = IF platform = "linux" THEN "waiting" ELSE "cancelling"
    /\ childDone' = (childDone \/ tracked)
    /\ \/ /\ platform = "linux"
          /\ termed' = (termed \/ (tracked /\ child = "alive"))
          /\ UNCHANGED child
       \/ /\ platform = "windows"
          /\ child' = IF tracked /\ child = "alive" THEN "dead" ELSE child
          /\ UNCHANGED termed
    /\ UNCHANGED <<confVars, workerVars, tracked, ctxDone, forced, statusVars>>

CancelWorker ==
    /\ bridge = "cancelling"
    /\ ctxDone' = TRUE
    /\ bridge' = "waiting"
    /\ UNCHANGED <<confVars, workerVars, childVars, tracked, childDone, forced, statusVars>>

WorkerDone ==
    /\ bridge = "waiting" /\ wk = "returned"
    /\ bridge' = "writing"
    /\ UNCHANGED <<confVars, workerVars, childVars, tracked, ctxDone, childDone, forced, statusVars>>

\* The worker did not exit in ten seconds.
ForceReturn ==
    /\ bridge = "waiting" /\ wk # "returned"
    /\ bridge' = "writing" /\ forced' = TRUE
    /\ UNCHANGED <<confVars, workerVars, childVars, tracked, ctxDone, childDone, statusVars>>

ReportStopped ==
    /\ bridge = "writing"
    /\ WriteStatus("stopped", None)
    /\ bridge' = "returning"
    /\ UNCHANGED <<confVars, workerVars, childVars, tracked, ctxDone, childDone, forced>>

Exit ==
    /\ bridge = "returning"
    /\ bridge' = "exited"
    /\ UNCHANGED <<confVars, workerVars, childVars, tracked, ctxDone, childDone, forced, statusVars>>

Bridge == StopChild \/ CancelWorker \/ WorkerDone \/ ForceReturn \/ ReportStopped \/ Exit

-----------------------------------------------------------------------------
Next ==
    \/ \E v \in Version : BeginWrite(v)
    \/ EndWrite \/ DeleteConfig
    \/ Worker \/ ChildExits \/ WatcherKills
    \/ StopRequested \/ Bridge

Spec == Init /\ [][Next]_vars

\* The goroutines run and timers fire; a writer that truncated the file writes
\* it.  Nobody need ever stop the service, and the engine need not exit.  The
\* bridge's ten seconds are not relied on.
Fairness == /\ WF_vars(EndWrite) /\ WF_vars(WatcherKills) /\ WF_vars(Worker)
            /\ WF_vars(StopChild \/ CancelWorker \/ WorkerDone \/ ReportStopped \/ Exit)

FairSpec == Spec /\ Fairness

-----------------------------------------------------------------------------
(* Properties.                                                             *)

\* An engine process that runs has a worker that waits for it, or is on its way
\* to.  Only a service that gave its worker up may leave one behind, on its exit.
Supervised ==
    child = "alive" =>
        \/ Up /\ wk \in {"started", "tracking", "waiting"}
        \/ ~Up /\ forced

\* The comment in Execute: no engine outlives the service.  Unless the bridge had
\* to give the worker up, the service exits with its child gone, and with
\* "stopped" as the last word in the status file if that word could be written.
CleanStop ==
    bridge = "exited" /\ ~forced =>
        child # "alive" /\ (lost \/ status.phase = "stopped")

\* While a child is waited for the status file says which config it runs, until
\* the bridge writes over it, if the report could be written.
StatusNamesChild ==
    wk \in {"tracking", "waiting"} /\ bridge \notin {"returning", "exited"} =>
        lost \/ (status.phase = "running" /\ status.cfg = cfg)

\* No config has more restarts counted against it than it allows, whatever the
\* count was when it was read; and the worker stops on its own only when the
\* count, which goes back to earlier configs, has used up the last one's allowance.
BudgetKept ==
    /\ cfg # None /\ MaxRestarts[cfg] > 0 => fails <= MaxRestarts[cfg]
    /\ wk = "returned" /\ ~ctxDone =>
           cfg # None /\ MaxRestarts[cfg] > 0 /\ restarts >= MaxRestarts[cfg]

\* What makes these inductive.  Once the bridge has stopped waiting the worker
\* has returned, or was given up; past the read of the config there is one; and
\* a worker that goes on with a config that has failed has allowance left.
WorkerGone ==
    bridge \in {"writing", "returning", "exited"} /\ ~forced => wk = "returned"
LastWord == bridge \in {"returning", "exited"} /\ ~forced => lost \/ status.phase = "stopped"
ConfigRead == wk \notin {"init", "loop", "sleepPoll", "returned"} => cfg # None
BudgetLeft ==
    /\ fails <= restarts
    /\ cfg = None => fails = 0
    /\ wk # "returned" /\ fails > 0 /\ MaxRestarts[cfg] > 0 => restarts < MaxRestarts[cfg]

SupervisorInv == TypeOK /\ Supervised /\ WorkerGone /\ LastWord /\ StatusNamesChild
                   /\ ConfigRead /\ BudgetLeft /\ BudgetKept

\* A config written while the worker is idle is read and tried, unless it is
\* replaced or the service stops.
IdlePicksUp ==
    \A v \in Version :
        (conf = v /\ wk = "sleepPoll") ~> ((wk = "spawn" /\ cfg = v) \/ conf # v \/ bridge # "serving")

\* A stop request ends the service, and its child with it.
StopEnds == (bridge = "stopping") ~> (bridge = "exited")
=============================================================================
