-------------------------- MODULE SupervisorProofs --------------------------
(***************************************************************************)
(* Proofs about Supervisor for any set of configs, any limits on their      *)
(* restarts and either platform.                                           *)
(***************************************************************************)
EXTENDS Supervisor, TLAPS

USE SupervisorAssumption

\* The invariant holds initially.
LEMMA SupervisorInit == Init => SupervisorInv
<1> SUFFICES ASSUME Init PROVE SupervisorInv
  OBVIOUS
<1> USE DEF Init
<1>1. TypeOK
  <2>1. status \in Status
    BY DEF Status, Config
  <2>2. 0 \in 0 .. MaxWrites /\ 0 \in 0 .. Backoffs
    OBVIOUS
  <2>3. QED
    BY <2>1, <2>2 DEF TypeOK, Config, WorkerState, BridgeState
<1>2. Supervised /\ WorkerGone /\ LastWord /\ StatusNamesChild /\ ConfigRead
  BY DEF Supervised, WorkerGone, LastWord, StatusNamesChild, ConfigRead
<1>3. BudgetLeft /\ BudgetKept
  BY DEF BudgetLeft, BudgetKept
<1>4. QED
  BY <1>1, <1>2, <1>3 DEF SupervisorInv

\* Whatever becomes of a write of the status, its variables keep their types.
LEMMA StatusTypes ==
  ASSUME TypeOK, NEW phase \in {"idle", "running", "crashed", "stopped"}, NEW c \in Config,
         WriteStatus(phase, c)
  PROVE  status' \in Status \cup {Torn} /\ lost' \in BOOLEAN
<1>1. CASE status' = [phase |-> phase, cfg |-> c] /\ lost' = FALSE
  <2>1. [phase |-> phase, cfg |-> c] \in Status
    BY DEF Status
  <2>2. lost' \in BOOLEAN
    BY <1>1, Zenon
  <2>3. QED
    BY <1>1, <2>1, <2>2, Zenon
<1>2. CASE status' \in {status, Torn} /\ lost' = TRUE
  <2>1. status \in Status \cup {Torn}
    BY Zenon DEF TypeOK
  <2>2. lost' \in BOOLEAN
    BY <1>2, Zenon
  <2>3. QED
    BY <1>2, <2>1, <2>2, Zenon
<1>3. QED
  BY <1>1, <1>2, Zenon DEF WriteStatus

\* Every step of the worker preserves the types.
LEMMA WorkerTypes == TypeOK /\ Worker => TypeOK'
<1> SUFFICES ASSUME TypeOK, Worker PROVE TypeOK'
  OBVIOUS
<1>0. ASSUME NEW phase \in {"idle", "running", "crashed"}, NEW c \in Config, WriteStatus(phase, c)
      PROVE  status' \in Status \cup {Torn} /\ lost' \in BOOLEAN
  BY <1>0, StatusTypes
<1>a. None \in Config
  BY DEF Config
<1> USE DEF TypeOK, WorkerState, confVars, childVars, bridgeVars, countVars, statusVars
<1>1. CASE Startup
  BY <1>0, <1>1, <1>a DEF Startup
<1>2. CASE Poll
  BY <1>0, <1>2, <1>a DEF Poll, Config
<1>3. CASE NoEngine
  BY <1>0, <1>3, <1>a DEF NoEngine
<1>4. CASE StartFails
  BY <1>0, <1>4, <1>a DEF StartFails
<1>5. CASE Start
  <2>1. /\ child' = "alive" /\ termed' = FALSE /\ childDone' = FALSE /\ wk' = "started"
        /\ UNCHANGED <<platform, conf, writing, writes, cfg, restarts, backoff, tracked, ctxDone,
                       bridge, forced, status, lost, fails>>
    BY <1>5 DEF Start
  <2>2. QED
    BY <2>1
<1>6. CASE ReportRunning
  BY <1>0, <1>6 DEF ReportRunning
<1>7. CASE OnChildStart
  BY <1>7 DEF OnChildStart
<1>8. CASE Wait
  BY <1>8 DEF Wait
<1>9. CASE OnChildEnd
  BY <1>9 DEF OnChildEnd
<1>10. CASE Crashed
  BY <1>0, <1>10 DEF Crashed
<1>11. CASE SleepCancelled \/ SleepPolled
  BY <1>11 DEF SleepCancelled, SleepPolled
<1>12. CASE SleepAfterCrash
  BY <1>12 DEF SleepAfterCrash, Doubled
<1>13. CASE SleepAfterStart
  BY <1>0, <1>13, <1>a DEF SleepAfterStart, Doubled
<1>14. QED
  BY <1>1, <1>2, <1>3, <1>4, <1>5, <1>6, <1>7, <1>8, <1>9, <1>10, <1>11, <1>12, <1>13 DEF Worker

\* So does every other step.
LEMMA SupervisorTypes == TypeOK /\ [Next]_vars => TypeOK'
<1> SUFFICES ASSUME TypeOK, [Next]_vars PROVE TypeOK'
  OBVIOUS
<1> USE DEF TypeOK, Config, Status, WorkerState, BridgeState, confVars, childVars, bridgeVars,
            workerVars, countVars, statusVars
<1>1. CASE Worker
  BY <1>1, WorkerTypes
<1>2. CASE \E v \in Version : BeginWrite(v)
  BY <1>2 DEF BeginWrite
<1>3. CASE EndWrite \/ DeleteConfig
  BY <1>3 DEF EndWrite, DeleteConfig
<1>4. CASE ChildExits \/ WatcherKills
  BY <1>4 DEF ChildExits, WatcherKills
<1>5. CASE StopRequested
  <2>1. ctxDone' \in BOOLEAN
    BY <1>5 DEF StopRequested
  <2>2. bridge' = "stopping" /\ UNCHANGED <<platform, conf, writing, writes, wk, cfg, restarts, backoff,
           child, termed, tracked, childDone, forced, status, lost, fails>>
    BY <1>5 DEF StopRequested
  <2>3. QED
    BY <2>1, <2>2
<1>6. CASE StopChild
  <2>1. childDone' \in BOOLEAN /\ termed' \in BOOLEAN
    BY <1>6 DEF StopChild
  <2>2. child' \in {"none", "alive", "dead"} /\ bridge' \in {"waiting", "cancelling"}
    BY <1>6 DEF StopChild
  <2>3. UNCHANGED <<platform, conf, writing, writes, wk, cfg, restarts, backoff, tracked, ctxDone,
                    forced, status, lost, fails>>
    BY <1>6 DEF StopChild
  <2>4. QED
    BY <2>1, <2>2, <2>3
<1>7. CASE CancelWorker \/ WorkerDone \/ Exit
  <2>1. ctxDone' \in BOOLEAN /\ bridge' \in {"waiting", "writing", "exited"}
    BY <1>7 DEF CancelWorker, WorkerDone, Exit
  <2>2. UNCHANGED <<platform, conf, writing, writes, wk, cfg, restarts, backoff, child, termed,
                    tracked, childDone, forced, status, lost, fails>>
    BY <1>7 DEF CancelWorker, WorkerDone, Exit
  <2>3. QED
    BY <2>1, <2>2
<1>8. CASE ForceReturn
  BY <1>8 DEF ForceReturn
<1>9. CASE ReportStopped
  <2>1. status' \in Status \cup {Torn} /\ lost' \in BOOLEAN
    <3>1. WriteStatus("stopped", None) /\ None \in Config
      BY <1>9 DEF ReportStopped
    <3>2. QED
      BY <3>1, StatusTypes
  <2>2. bridge' = "returning" /\ UNCHANGED <<platform, conf, writing, writes, wk, cfg, restarts, backoff,
           child, termed, tracked, ctxDone, childDone, forced, fails>>
    BY <1>9 DEF ReportStopped
  <2>3. QED
    BY <2>1, <2>2
<1>10. CASE UNCHANGED vars
  BY <1>10 DEF vars
<1>11. QED
  BY <1>1, <1>2, <1>3, <1>4, <1>5, <1>6, <1>7, <1>8, <1>9, <1>10 DEF Next, Bridge

\* The worker never leaves a live child, and never writes or moves once it has
\* returned.
LEMMA WorkerStep ==
  ASSUME SupervisorInv, Worker
  PROVE  Supervised' /\ WorkerGone' /\ LastWord' /\ StatusNamesChild' /\ ConfigRead'
<1> USE DEF SupervisorInv, Supervised, WorkerGone, LastWord, StatusNamesChild, ConfigRead, Up,
            confVars, childVars, bridgeVars, statusVars, WriteStatus
<1>0. wk # "returned"
  BY DEF Worker, Startup, Poll, NoEngine, StartFails, Start, ReportRunning, OnChildStart, Wait,
         OnChildEnd, Crashed, SleepCancelled, SleepPolled, SleepAfterCrash, SleepAfterStart
<1>1. CASE Startup \/ NoEngine \/ StartFails
  BY <1>0, <1>1 DEF Startup, NoEngine, StartFails
<1>2. CASE Poll
  BY <1>0, <1>2 DEF Poll
<1>3. CASE Start \/ ReportRunning
  BY <1>0, <1>3 DEF Start, ReportRunning
<1>4. CASE OnChildStart \/ Wait \/ OnChildEnd
  BY <1>0, <1>4 DEF OnChildStart, Wait, OnChildEnd
<1>5. CASE Crashed
  BY <1>0, <1>5 DEF Crashed
<1>6. CASE SleepCancelled \/ SleepPolled \/ SleepAfterCrash
  BY <1>0, <1>6 DEF SleepCancelled, SleepPolled, SleepAfterCrash
<1>7. CASE SleepAfterStart
  BY <1>0, <1>7 DEF SleepAfterStart
<1>8. QED
  BY <1>1, <1>2, <1>3, <1>4, <1>5, <1>6, <1>7 DEF Worker

\* It counts what it restarts, afresh for a new config, and goes on below the
\* limit only.
LEMMA WorkerCounts ==
  ASSUME SupervisorInv, Worker
  PROVE  BudgetLeft' /\ BudgetKept'
<1> USE DEF BudgetLeft, BudgetKept, countVars
<1>0. /\ wk # "returned"
      /\ BudgetLeft /\ ConfigRead
      /\ cfg \in Config /\ restarts \in Nat /\ fails \in Nat
  BY DEF SupervisorInv, TypeOK, Worker, Startup, Poll, NoEngine, StartFails, Start, ReportRunning,
         OnChildStart, Wait, OnChildEnd, Crashed, SleepCancelled, SleepPolled, SleepAfterCrash,
         SleepAfterStart
<1>a. BudgetKept
  BY DEF SupervisorInv
<1>b. \A c \in Config \ {None} : MaxRestarts[c] \in Nat
  BY DEF Config
<1>1. CASE /\ UNCHANGED <<cfg, countVars>>
           /\ wk' # "returned" \/ ctxDone'
  BY <1>0, <1>a, <1>1
<1>2. CASE Poll
  <2>1. CASE UNCHANGED cfg
    BY <1>0, <1>1, <2>1, <1>2 DEF Poll, bridgeVars
  <2>2. CASE cfg' # cfg
    <3>1. fails' = 0 /\ restarts' = restarts /\ wk' = "spawn" /\ cfg' \in Version
      BY <1>2, <2>2 DEF Poll
    <3>2. QED
      BY <1>0, <1>b, <3>1 DEF Config
  <2>3. QED
    BY <2>1, <2>2
<1>3. CASE Crashed \/ SleepAfterStart
  <2>1. cfg # None /\ cfg' = cfg
    BY <1>0, <1>3 DEF ConfigRead, Crashed, SleepAfterStart
  <2>2. CASE Crashed /\ ctxDone
    BY <1>1, <2>1, <2>2 DEF Crashed, bridgeVars
  <2>3. CASE ~(Crashed /\ ctxDone)
    <3>1. /\ \/ restarts' = 1 /\ fails' = 1
             \/ restarts' = restarts + 1 /\ fails' = fails + 1
          /\ IF MayGoOn(cfg, restarts') THEN wk' # "returned" ELSE wk' = "returned"
      BY <1>3, <2>3 DEF Crashed, SleepAfterStart
    <3>2. MaxRestarts[cfg] \in Nat
      BY <1>0, <1>b, <2>1
    <3>3. MaxRestarts[cfg] > 0 => fails < MaxRestarts[cfg]
      BY <1>0, <2>1, <3>2
    <3>4. QED
      BY <1>0, <2>1, <3>1, <3>2, <3>3 DEF MayGoOn
  <2>4. QED
    BY <2>2, <2>3
<1>4. CASE Startup \/ NoEngine \/ StartFails \/ Start \/ ReportRunning
  BY <1>1, <1>4 DEF Startup, NoEngine, StartFails, Start, ReportRunning
<1>5. CASE OnChildStart \/ Wait \/ OnChildEnd
  BY <1>1, <1>5 DEF OnChildStart, Wait, OnChildEnd
<1>6. CASE SleepCancelled \/ SleepPolled \/ SleepAfterCrash
  BY <1>1, <1>6 DEF SleepCancelled, SleepPolled, SleepAfterCrash, bridgeVars
<1>7. QED
  BY <1>2, <1>3, <1>4, <1>5, <1>6 DEF Worker

\* Nothing but the worker moves the counts, and a cancelled context stays so.
LEMMA OthersKeepCounts ==
  ASSUME SupervisorInv, Next, ~Worker
  PROVE  UNCHANGED <<wk, cfg, restarts, fails>> /\ (ctxDone => ctxDone')
<1> USE DEF workerVars, countVars, bridgeVars
<1>1. CASE \E v \in Version : BeginWrite(v)
  BY <1>1 DEF BeginWrite
<1>2. CASE EndWrite \/ DeleteConfig
  BY <1>2 DEF EndWrite, DeleteConfig
<1>3. CASE ChildExits \/ WatcherKills
  BY <1>3 DEF ChildExits, WatcherKills
<1>4. CASE StopRequested \/ Bridge
  <2>1. UNCHANGED <<wk, cfg, restarts, fails>>
    BY <1>4 DEF StopRequested, Bridge, StopChild, CancelWorker, WorkerDone, ForceReturn,
                ReportStopped, Exit
  <2>2. ctxDone => ctxDone'
    <3>1. CASE StopRequested
      BY <3>1, Zenon DEF StopRequested
    <3>2. CASE CancelWorker
      BY <3>2, Zenon DEF CancelWorker
    <3>3. CASE StopChild \/ WorkerDone \/ ForceReturn \/ ReportStopped \/ Exit
      BY <3>3, Zenon DEF StopChild, WorkerDone, ForceReturn, ReportStopped, Exit
    <3>4. QED
      BY <1>4, <3>1, <3>2, <3>3 DEF Bridge
  <2>3. QED
    BY <2>1, <2>2
<1>5. QED
  BY <1>1, <1>2, <1>3, <1>4 DEF Next

\* Every step preserves the invariant.
LEMMA SupervisorStep == SupervisorInv /\ [Next]_vars => SupervisorInv'
<1> SUFFICES ASSUME SupervisorInv, [Next]_vars PROVE SupervisorInv'
  OBVIOUS
<1>0. TypeOK'
  BY SupervisorTypes DEF SupervisorInv
<1>a. BudgetLeft' /\ BudgetKept'
  <2>1. CASE Worker
    BY <2>1, WorkerCounts
  <2>2. CASE Next /\ ~Worker
    BY <2>2, OthersKeepCounts DEF SupervisorInv, BudgetLeft, BudgetKept
  <2>3. CASE UNCHANGED vars
    BY <2>3 DEF SupervisorInv, BudgetLeft, BudgetKept, vars, workerVars, countVars, bridgeVars
  <2>4. QED
    BY <2>1, <2>2, <2>3
<1>b. Supervised' /\ WorkerGone' /\ LastWord' /\ StatusNamesChild' /\ ConfigRead'
  <2> USE DEF SupervisorInv, Supervised, WorkerGone, LastWord, StatusNamesChild, ConfigRead, Up,
              confVars, childVars, bridgeVars, workerVars, statusVars, WriteStatus
  <2>1. CASE Worker
    BY <2>1, WorkerStep
  <2>2. CASE \E v \in Version : BeginWrite(v)
    BY <2>2 DEF BeginWrite
  <2>3. CASE EndWrite \/ DeleteConfig
    BY <2>3 DEF EndWrite, DeleteConfig
  <2>4. CASE ChildExits \/ WatcherKills
    BY <2>4 DEF ChildExits, WatcherKills
  <2>5. CASE StopRequested
    BY <2>5 DEF StopRequested
  <2>6. CASE StopChild
    BY <2>6 DEF StopChild
  <2>7. CASE CancelWorker \/ WorkerDone
    BY <2>7 DEF CancelWorker, WorkerDone
  <2>8. CASE ForceReturn
    BY <2>8 DEF ForceReturn
  <2>9. CASE ReportStopped \/ Exit
    BY <2>9 DEF ReportStopped, Exit
  <2>10. CASE UNCHANGED vars
    BY <2>10 DEF vars
  <2>11. QED
    BY <2>1, <2>2, <2>3, <2>4, <2>5, <2>6, <2>7, <2>8, <2>9, <2>10 DEF Next, Bridge
<1>c. QED
  BY <1>0, <1>a, <1>b DEF SupervisorInv

\* The inductive invariant holds throughout.
THEOREM SupervisorInvariant == Spec => []SupervisorInv
<1>1. Init => SupervisorInv
  BY SupervisorInit
<1>2. SupervisorInv /\ [Next]_vars => SupervisorInv'
  BY SupervisorStep
<1>3. QED
  BY <1>1, <1>2, PTL DEF Spec

\* The supervisor's variables keep their types: the backoff never exceeds its
\* ceiling.
THEOREM SupervisorTypeCorrect == Spec => []TypeOK
<1>1. SupervisorInv => TypeOK
  BY DEF SupervisorInv
<1>2. QED
  BY <1>1, SupervisorInvariant, PTL

\* While the service is up no engine process runs that the worker does not wait
\* for (cmd.Wait); after its exit one runs only if the bridge gave the worker up.
THEOREM EngineIsSupervised == Spec => []Supervised
<1>1. SupervisorInv => Supervised
  BY DEF SupervisorInv
<1>2. QED
  BY <1>1, SupervisorInvariant, PTL

\* A service that exits without giving its worker up leaves no engine behind, and
\* "stopped" in the status file unless that write failed.
THEOREM ServiceStopsCleanly == Spec => []CleanStop
<1>1. SupervisorInv => CleanStop
  BY DEF SupervisorInv, Supervised, WorkerGone, LastWord, CleanStop
<1>2. QED
  BY <1>1, SupervisorInvariant, PTL

\* The status file names the config of the child that is waited for, unless the
\* write of its report failed.
THEOREM StatusIsFaithful == Spec => []StatusNamesChild
<1>1. SupervisorInv => StatusNamesChild
  BY DEF SupervisorInv
<1>2. QED
  BY <1>1, SupervisorInvariant, PTL

\* A config gets no more restarts than it allows, whatever was counted before it,
\* and the worker gives up only when the count has reached the config's limit.
THEOREM RestartsWithinBudget == Spec => []BudgetKept
<1>1. SupervisorInv => BudgetKept
  BY DEF SupervisorInv
<1>2. QED
  BY <1>1, SupervisorInvariant, PTL
=============================================================================
