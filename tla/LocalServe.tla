----------------------------- MODULE LocalServe -----------------------------
(***************************************************************************)
(* The desktop's own llama-server: StartServe, StopServe and ServerStatus of *)
(* deploy.go, with DeleteModel and ResetBlueprintData of maintain.go, which  *)
(* take model files from under it.                                           *)
(*                                                                          *)
(* StartServe looks whether a server is tracked, lets the lock go, starts    *)
(* the program and takes the lock again to track it.  From then on a poller  *)
(* (until /health answers) and a reaper (until the program ends) belong to   *)
(* it, and each writes the shared state without looking whose it is.  All    *)
(* servers use one port, so /health answers for whichever holds it.          *)
(***************************************************************************)
EXTENDS Naturals

CONSTANTS Frontend,   \* frontend calls that can be in progress at once
          Model,      \* model files of the catalog
          NoModel,    \* no model
          MaxServers  \* bound on the programs ever started

ASSUME LocalServeAssumption == MaxServers \in Nat /\ NoModel \notin Model

VARIABLES
    serveProc,   \* the tracked server, or 0
    serveState, serveModel,
    call,        \* per caller: how far its StartServe is
    server,      \* per program started: its life, its context, its goroutines
    started,     \* programs started so far
    models,      \* model files on disk
    overlapped,  \* history: two StartServe were under way at once
    left         \* history: the desktop ended while a server lived

status == <<serveProc, serveState, serveModel>>
serveVars == <<status, call, server, started, models, overlapped, left>>

Server == 1 .. MaxServers
Call == [at : {"idle", "checked", "started"}, model : Model \cup {NoModel}, server : 0 .. MaxServers]
Child == [life : {"unborn", "loading", "ready", "ended"}, cancelled : BOOLEAN,
          poller : {"none", "polling", "answered"}, reaper : {"none", "waiting"}]
NoCall == [at |-> "idle", model |-> NoModel, server |-> 0]
Unborn == [life |-> "unborn", cancelled |-> FALSE, poller |-> "none", reaper |-> "none"]

(* Type invariant; a model is shown exactly while a server is tracked. *)
ServeTypeOK ==
    /\ serveProc \in 0 .. MaxServers /\ serveState \in {"stopped", "starting", "running"}
    /\ serveModel \in Model \cup {NoModel} /\ (serveModel = NoModel <=> serveProc = 0)
    /\ call \in [Frontend -> Call] /\ server \in [Server -> Child] /\ started \in 0 .. MaxServers
    /\ models \subseteq Model /\ overlapped \in BOOLEAN /\ left \in BOOLEAN

ServeInit == /\ serveProc = 0 /\ serveState = "stopped" /\ serveModel = NoModel
        /\ call = [c \in Frontend |-> NoCall]
        /\ server = [s \in Server |-> Unborn]
        /\ started = 0 /\ models \in SUBSET Model
        /\ overlapped = FALSE /\ left = FALSE

Alive(s) == server[s].life \in {"loading", "ready"}
-----------------------------------------------------------------------------
(* StartServe. *)

\* Mutant: the check for a tracked server is gone.
CheckNothing(c, m) ==
    /\ call[c] = NoCall /\ m \in models
    /\ call' = [call EXCEPT ![c] = [NoCall EXCEPT !.at = "checked", !.model = m]]
    /\ overlapped' = (overlapped \/ \E d \in Frontend \ {c} : call[d] # NoCall)
    /\ UNCHANGED <<status, server, started, models, left>>

(* The first critical section, and the look for the file. *)
Check(c, m) ==
    /\ call[c] = NoCall /\ serveProc = 0 /\ m \in models
    /\ call' = [call EXCEPT ![c] = [NoCall EXCEPT !.at = "checked", !.model = m]]
    /\ overlapped' = (overlapped \/ \E d \in Frontend \ {c} : call[d] # NoCall)
    /\ UNCHANGED <<status, server, started, models, left>>

(* cmd.Start. *)
StartProgram(c) ==
    /\ call[c].at = "checked" /\ started < MaxServers
    /\ started' = started + 1
    /\ server' = [server EXCEPT ![started + 1] = [Unborn EXCEPT !.life = "loading"]]
    /\ call' = [call EXCEPT ![c] = [@ EXCEPT !.at = "started", !.server = started + 1]]
    /\ UNCHANGED <<status, models, overlapped, left>>

StartFails(c) ==
    /\ call[c].at = "checked"
    /\ call' = [call EXCEPT ![c] = NoCall]
    /\ UNCHANGED <<status, server, started, models, overlapped, left>>

(* The second critical section; then the poller and the reaper are begun. *)
Track(c) ==
    /\ call[c].at = "started"
    /\ serveProc' = call[c].server /\ serveState' = "starting" /\ serveModel' = call[c].model
    /\ server' = [server EXCEPT ![call[c].server] = [@ EXCEPT !.poller = "polling", !.reaper = "waiting"]]
    /\ call' = [call EXCEPT ![c] = NoCall]
    /\ UNCHANGED <<started, models, overlapped, left>>
-----------------------------------------------------------------------------
(* The programs and their goroutines. *)

(* The model is loaded and the port is free: /health answers 200. *)
Loads(s) ==
    /\ server[s].life = "loading" /\ \A t \in Server : server[t].life # "ready"
    /\ server' = [server EXCEPT ![s].life = "ready"]
    /\ UNCHANGED <<status, call, started, models, overlapped, left>>

(* A program ends, by itself, because the port is taken, or killed by its     *)
(* context, which is the first thing StopServe does to it.                   *)
ProgramEnds(s) ==
    /\ Alive(s)
    /\ server' = [server EXCEPT ![s].life = "ended"]
    /\ UNCHANGED <<status, call, started, models, overlapped, left>>

(* waitForReady: a 200 from the port, whoever answers. *)
Answered(s) ==
    /\ server[s].poller = "polling" /\ ~server[s].cancelled
    /\ \E t \in Server : server[t].life = "ready"
    /\ server' = [server EXCEPT ![s].poller = "answered"]
    /\ UNCHANGED <<status, call, started, models, overlapped, left>>

(* Cancelled, or sixty seconds are over. *)
PollEnds(s) ==
    /\ server[s].poller = "polling"
    /\ server' = [server EXCEPT ![s].poller = "none"]
    /\ UNCHANGED <<status, call, started, models, overlapped, left>>

SetRunning(s) ==
    /\ server[s].poller = "answered"
    /\ server' = [server EXCEPT ![s].poller = "none"]
    /\ serveState' = "running"
    /\ UNCHANGED <<serveProc, serveModel, call, started, models, overlapped, left>>

\* Mutant: the reaper reports the end and leaves the ended server tracked.
ReapKeepsProc(s) ==
    /\ server[s].reaper = "waiting" /\ server[s].life = "ended"
    /\ server' = [server EXCEPT ![s].reaper = "none"]
    /\ serveState' = "stopped"
    /\ UNCHANGED <<serveProc, serveModel, call, started, models, overlapped, left>>

\* Mutant: the reaper forgets to clear the model.
ReapKeepsModel(s) ==
    /\ server[s].reaper = "waiting" /\ server[s].life = "ended"
    /\ server' = [server EXCEPT ![s].reaper = "none"]
    /\ serveProc' = 0 /\ serveState' = "stopped"
    /\ UNCHANGED <<serveModel, call, started, models, overlapped, left>>

\* Mutant: the reaper does not wait for the program to end.
ReapEarly(s) ==
    /\ server[s].reaper = "waiting"
    /\ server' = [server EXCEPT ![s].reaper = "none"]
    /\ serveProc' = 0 /\ serveState' = "stopped" /\ serveModel' = NoModel
    /\ UNCHANGED <<call, started, models, overlapped, left>>

Reap(s) ==
    /\ server[s].reaper = "waiting" /\ server[s].life = "ended"
    /\ server' = [server EXCEPT ![s].reaper = "none"]
    /\ serveProc' = 0 /\ serveState' = "stopped" /\ serveModel' = NoModel
    /\ UNCHANGED <<call, started, models, overlapped, left>>
-----------------------------------------------------------------------------
(* StopServe and what takes files from under a server. *)

Cancelled == IF serveProc = 0 THEN server ELSE [server EXCEPT ![serveProc].cancelled = TRUE]

StopServe ==
    /\ serveProc # 0
    /\ server' = Cancelled
    /\ UNCHANGED <<status, call, started, models, overlapped, left>>

(* Nothing asks whether a server has the file open; some systems refuse then. *)
DeleteModel(m) ==
    /\ m \in models
    /\ models' = models \ {m}
    /\ UNCHANGED <<status, call, server, started, overlapped, left>>

PullModel(m) ==
    /\ models' = models \cup {m}
    /\ UNCHANGED <<status, call, server, started, overlapped, left>>

(* StopServe, then everything under the root is removed without waiting. *)
ResetBlueprintData ==
    /\ server' = Cancelled
    /\ models' = {}
    /\ UNCHANGED <<status, call, started, overlapped, left>>

(* The desktop ends, by a reset or otherwise, and starts again: its           *)
(* goroutines are gone, the programs are not.                                *)
Restart ==
    /\ serveProc' = 0 /\ serveState' = "stopped" /\ serveModel' = NoModel
    /\ call' = [c \in Frontend |-> NoCall]
    /\ server' = [s \in Server |-> [server[s] EXCEPT !.poller = "none", !.reaper = "none"]]
    /\ left' = (left \/ \E s \in Server : Alive(s))
    /\ UNCHANGED <<started, models, overlapped>>

ServeNext == \/ \E c \in Frontend : \/ \E m \in Model : Check(c, m)
                             \/ StartProgram(c) \/ StartFails(c) \/ Track(c)
        \/ \E s \in Server : \/ Loads(s) \/ ProgramEnds(s)
                             \/ Answered(s) \/ PollEnds(s) \/ SetRunning(s) \/ Reap(s)
        \/ StopServe \/ \E m \in Model : DeleteModel(m) \/ PullModel(m)
        \/ ResetBlueprintData \/ Restart

ServeSpec == ServeInit /\ [][ServeNext]_serveVars

(* A cancelled program is killed by os/exec, and the reaper gets its turn.   *)
ServeFairSpec == /\ ServeSpec
            /\ \A s \in Server : /\ WF_serveVars(server[s].cancelled /\ ProgramEnds(s))
                                 /\ WF_serveVars(Reap(s))
-----------------------------------------------------------------------------
(* StopServe can reach whatever it must stop: a server that lives is tracked, *)
(* or the call that started it is about to track it, unless two StartServe    *)
(* overlapped or the desktop ended and left it behind.                        *)
LiveIsTracked ==
    ~overlapped /\ ~left =>
        \A s \in Server : Alive(s) =>
            \/ serveProc = s
            \/ \E c \in Frontend : call[c].at = "started" /\ call[c].server = s

(* The parts of the inductive invariant.  A call names the server it started; *)
(* one call at a time gets past the check, and only while nothing is tracked; *)
(* and only the tracked server has a reaper.                                 *)
CallShape ==
    \A c \in Frontend :
        \/ call[c] = NoCall
        \/ call[c].at = "checked" /\ call[c].server = 0 /\ call[c].model # NoModel
        \/ call[c].at = "started" /\ call[c].server \in 1 .. started /\ call[c].model # NoModel

OneCall ==
    ~overlapped =>
        \A c \in Frontend : call[c] # NoCall =>
            serveProc = 0 /\ \A d \in Frontend \ {c} : call[d] = NoCall

ReaperIsTracked ==
    ~overlapped => \A s \in Server : server[s].reaper = "waiting" => serveProc = s

LocalServeInv == ServeTypeOK /\ CallShape /\ OneCall /\ ReaperIsTracked /\ LiveIsTracked

(* A tracked server is given up when it ends or the desktop does, never for    *)
(* another, unless two StartServe overlapped.                                *)
NeverReplaced ==
    [][serveProc # 0 /\ serveProc' # 0 /\ ~overlapped => serveProc' = serveProc]_serveVars

(* A server that was stopped ends and is no longer tracked. *)
StopEnds ==
    \A s \in Server : server[s].cancelled ~> left \/ (~Alive(s) /\ serveProc # s)
=============================================================================
