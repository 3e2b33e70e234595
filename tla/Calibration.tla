---------------------------- MODULE Calibration ----------------------------
(***************************************************************************)
(* One calibration run of the desktop: its meta.json, its artifacts on     *)
(* disk, and the goroutines that work on it.  The frontend's calls save     *)
(* prompts and the eval set, start the three steps (imatrix, quantize,       *)
(* eval), delete the run; each step goes on in a worker, and llama-imatrix's *)
(* output is followed by a scanner that nobody waits for.                   *)
(*                                                                          *)
(* Every one of them changes meta.json by reading it, changing its copy and  *)
(* writing the whole of it back, and no lock covers the three.  The file is   *)
(* truncated before it is written.  An open file cannot be deleted: the       *)
(* tools the pipeline runs are Windows programs.                             *)
(***************************************************************************)
EXTENDS Naturals, FiniteSets, TLC

CONSTANTS Caller,      \* frontend calls, and the workers they leave behind
          Scanner,     \* goroutines that follow the output of llama-imatrix
          None,        \* nothing: no copy read yet, or a run never created
          Missing, Empty, Torn,   \* meta.json: deleted, truncated, overlapping writes
          MaxCalls,    \* bound on the calls of the frontend in progress at once
          MaxItems,    \* bound on quantize targets, eval candidates, progress lines
          Faults       \* whether writes may fail and the program may end

ASSUME CalibrationAssumption ==
    /\ Caller \cap Scanner = {}
    /\ MaxCalls \in Nat /\ MaxItems \in Nat \ {0} /\ Faults \in BOOLEAN
    /\ Cardinality({None, Missing, Empty, Torn}) = 4

VARIABLES
    meta,     \* meta.json
    files,    \* the run's other files that are there
    job,      \* per goroutine: what it does, and its copy of meta.json
    missed,   \* history: an update of meta.json was lost, torn, or never made
    gutted    \* history: the run was deleted under a goroutine at work

vars == <<meta, files, job, missed, gutted>>
Goroutine == Caller \cup Scanner
CallerSymmetry == Permutations(Caller)

StepName == {"imatrix", "quantize", "eval"}
Finished == [imatrix |-> "imatrix-ok", quantize |-> "quantize-ok", eval |-> "eval-ok"]
Outcome == {"imatrix-ok", "quantize-ok", "eval-ok", "error"}
Phase == {"draft", "prompts"} \cup StepName \cup Outcome

(* EvalSetCount is left out: an eval call may always be refused for want of it. *)
Run == [phase : Phase, prompts : BOOLEAN]
(* The file without a run in it. *)
ASSUME NotARun == Run \cap {None, Missing, Empty, Torn} = {}
File == {"prompts", "evalset", "imatrix", "quants", "results"}

(* What a goroutine can be writing to meta.json: a phase, or another change. *)
Change == {"none", "create", "saveprompts", "saveevals", "stamp", "lines"} \cup StepName \cup Outcome
Job == [at : {"idle", "read", "file", "open", "write", "wait", "work", "delete"},
        op : {"none", "call", "seed", "scan"} \cup StepName,
        set : Change, run : Run \cup {None}, left : 0 .. MaxItems]
Idle == [at |-> "idle", op |-> "none", set |-> "none", run |-> None, left |-> 0]

(* Type invariant: a goroutine holds a copy of a run exactly when it is about *)
(* to write one it read.                                                     *)
TypeOK ==
    /\ meta \in Run \cup {None, Missing, Empty, Torn}
    /\ files \subseteq File /\ job \in [Goroutine -> Job]
    /\ missed \in BOOLEAN /\ gutted \in BOOLEAN
    /\ \A g \in Goroutine :
          job[g].run # None <=> job[g].at \in {"file", "open", "write"} /\ job[g].set # "create"

Init == /\ meta = None /\ files = {}
        /\ job = [g \in Goroutine |-> Idle]
        /\ missed = FALSE /\ gutted = FALSE

DirExists == meta \notin {None, Missing} \/ files # {}
Busy == {g \in Goroutine : job[g].at # "idle"}
Becomes(g, j) == job' = [job EXCEPT ![g] = j]
-----------------------------------------------------------------------------
(* The calls. *)

(* CreateRun and SeedSampleRun: the run's id is new. *)
Create(g) ==
    /\ meta = None /\ Busy = {}
    /\ \E op \in {"call", "seed"} : Becomes(g, [Idle EXCEPT !.at = "open", !.op = op, !.set = "create"])
    /\ UNCHANGED <<meta, files, missed, gutted>>

\* Mutant: quantization does not ask for a finished calibration.
GrantedAnyPhase(set, run) ==
    /\ set = "imatrix" => run.prompts
    /\ set = "eval" => run.phase \in {"quantize-ok", "eval-ok"} /\ "evalset" \in files

(* What a call asks of the run it read. *)
Granted(set, run) ==
    /\ set = "imatrix" => run.prompts
    /\ set = "quantize" => run.phase \in {"imatrix-ok", "quantize-ok"}
    /\ set = "eval" => /\ run.phase \in {"quantize-ok", "eval-ok"}
                       /\ "evalset" \in files

(* A goroutine whose call has not returned. *)
Calling(g) == job[g].at \notin {"idle", "wait", "work"} /\ job[g].set \notin Outcome

(* A call on a run the frontend lists; the first thing it does is ReadRun.  *)
(* Calls on a run deleted under a goroutine are not followed (a bound).      *)
Known == meta # None /\ \A h \in Goroutine : job[h].set # "create" /\ job[h].op # "seed"

Ask(g) ==
    /\ Known /\ ~gutted /\ job[g] = Idle /\ meta \in Run
    /\ Cardinality({h \in Caller : Calling(h)}) < MaxCalls
    /\ \/ \E set \in {"saveprompts", "saveevals"} :
             Becomes(g, [Idle EXCEPT !.at = "file", !.op = "call", !.set = set, !.run = meta])
       \/ \E s \in StepName, n \in 1 .. MaxItems :
             /\ Granted(s, meta)
             /\ Becomes(g, [Idle EXCEPT !.at = "open", !.op = s, !.set = s, !.run = meta, !.left = n])
    /\ UNCHANGED <<meta, files, missed, gutted>>

(* The run as the copy of it is changed before it is written back. *)
Changed(set, run) ==
    CASE set = "create" -> [phase |-> "draft", prompts |-> FALSE]
      [] set = "saveprompts" ->
            [run EXCEPT !.prompts = TRUE, !.phase = IF @ = "draft" THEN "prompts" ELSE @]
      [] set \in Phase -> [run EXCEPT !.phase = set]
      [] OTHER -> run

\* Mutant: the scanner keeps the copy it wrote.
ScannedKeepsCopy(j) == IF j.left > 0 THEN [j EXCEPT !.at = "work", !.left = @ - 1] ELSE Idle

(* The scanner goes on to the next line. *)
Scanned(j) == IF j.left > 0 THEN [j EXCEPT !.at = "work", !.run = None, !.left = @ - 1] ELSE Idle
SeedNext == [create |-> "saveprompts", saveprompts |-> "saveevals", saveevals |-> "stamp"]

(* What a goroutine does once its change is written. *)
Continued(j) ==
    CASE j.op = "seed" /\ j.set # "stamp" ->
            [j EXCEPT !.at = "read", !.set = SeedNext[j.set], !.run = None]
      [] j.set \in StepName -> [j EXCEPT !.at = "wait", !.run = None]
      [] j.op = "scan" -> Scanned(j)
      [] OTHER -> Idle

(* What it does when it could not be: a call returns the error, and a worker  *)
(* or a scanner says nothing.                                                *)
Abandoned(j) ==
    CASE j.op = "seed" /\ j.set \in {"saveprompts", "saveevals"} -> [j EXCEPT !.at = "delete", !.run = None]
      [] j.op = "scan" -> Scanned(j)
      [] OTHER -> Idle
-----------------------------------------------------------------------------
(* Read, change, write. *)

Read(g) ==
    /\ job[g].at = "read"
    /\ meta \in Run
    /\ Becomes(g, [job[g] EXCEPT !.run = meta,
                      !.at = IF job[g].set \in {"saveprompts", "saveevals"} THEN "file" ELSE "open"])
    /\ UNCHANGED <<meta, files, missed, gutted>>

(* The run is not there, or its file does not parse. *)
ReadFails(g) ==
    /\ job[g].at = "read" /\ meta \notin Run
    /\ Becomes(g, Abandoned(job[g]))
    /\ missed' = (missed \/ (job[g].set \in Outcome /\ meta \in {Empty, Torn}))
    /\ UNCHANGED <<meta, files, gutted>>

(* SavePrompts and SaveEvalSet write their own file first. *)
SaveFile(g) ==
    /\ job[g].at = "file"
    /\ \/ /\ DirExists
          /\ files' = files \cup {IF job[g].set = "saveprompts" THEN "prompts" ELSE "evalset"}
          /\ Becomes(g, [job[g] EXCEPT !.at = "open"])
       \/ /\ ~DirExists \/ Faults
          /\ Becomes(g, Abandoned(job[g])) /\ UNCHANGED files
    /\ UNCHANGED <<meta, missed, gutted>>

(* WriteRun creates the directory again if it is gone, and truncates the file. *)
Truncate(g) ==
    /\ job[g].at = "open"
    /\ Becomes(g, [job[g] EXCEPT !.at = "write"])
    /\ missed' = (missed \/ meta # job[g].run)
    /\ meta' = Empty
    /\ UNCHANGED <<files, gutted>>

(* A write over what another wrote meanwhile leaves the tail of the longer.  *)
Write(g) ==
    /\ job[g].at = "write"
    /\ Becomes(g, Continued(job[g]))
    /\ \/ meta' = Changed(job[g].set, job[g].run)
       \/ meta # Empty /\ meta' = Torn
    /\ UNCHANGED <<files, missed, gutted>>

WriteFails(g) ==
    /\ Faults /\ job[g].at \in {"open", "write"}
    /\ Becomes(g, Abandoned(job[g]))
    /\ missed' = TRUE
    /\ UNCHANGED <<meta, files, gutted>>
-----------------------------------------------------------------------------
(* The workers. *)

Working(g) == job[g].op \in StepName /\ (job[g].at = "work" \/ job[g].set \in Outcome)

\* Mutant: a worker does not take its lock.
LockIgnored(g) == job[g].at = "wait"

(* imatrixMu and evalMu; nothing serialises the quantize workers. *)
LockFree(g) == job[g].op # "quantize" =>
                   \A h \in Caller \ {g} : ~(Working(h) /\ job[h].op = job[g].op)

Ends(g, outcome) == [job[g] EXCEPT !.at = "read", !.set = outcome]

(* The first program starts; llama-imatrix with a scanner on its output. *)
Start(g) ==
    /\ job[g].at = "wait" /\ LockFree(g)
    /\ IF job[g].op = "imatrix"
       THEN \E s \in Scanner, n \in 0 .. MaxItems :
               /\ job[s] = Idle
               /\ job' = [job EXCEPT ![g].at = "work",
                             ![s] = [Idle EXCEPT !.at = "work", !.op = "scan", !.set = "lines", !.left = n]]
       ELSE Becomes(g, [job[g] EXCEPT !.at = "work"])
    /\ UNCHANGED <<meta, files, missed, gutted>>

\* Mutant: a worker whose program fails returns and records nothing.
ProgramFailsSilently(g) ==
    /\ job[g].op \in StepName /\ job[g].at = "work"
    /\ Becomes(g, Idle)
    /\ UNCHANGED <<meta, files, missed, gutted>>

(* A program cannot be started, or ends with an error: failRun. *)
ProgramFails(g) ==
    /\ \/ job[g].op \in StepName /\ job[g].at = "work"
       \/ job[g].at = "wait" /\ LockFree(g)
    /\ Becomes(g, Ends(g, "error"))
    /\ UNCHANGED <<meta, files, missed, gutted>>

ImatrixEnds(g) ==
    /\ job[g].op = "imatrix" /\ job[g].at = "work"
    /\ "prompts" \in files
    /\ files' = files \cup {"imatrix"}
    /\ Becomes(g, Ends(g, "imatrix-ok"))
    /\ UNCHANGED <<meta, missed, gutted>>

(* One target after the other. *)
QuantizeEnds(g) ==
    /\ job[g].op = "quantize" /\ job[g].at = "work"
    /\ "imatrix" \in files
    /\ IF job[g].left > 1
       THEN Becomes(g, [job[g] EXCEPT !.left = @ - 1]) /\ UNCHANGED files
       ELSE Becomes(g, Ends(g, "quantize-ok")) /\ files' = files \cup {"quants"}
    /\ UNCHANGED <<meta, missed, gutted>>

(* One candidate after the other; the results so far are written after each, *)
(* and the next is begun whether they could be written or not.               *)
CandidateEnds(g) ==
    /\ job[g].op = "eval" /\ job[g].at = "work"
    /\ Becomes(g, IF job[g].left > 1 THEN [job[g] EXCEPT !.left = @ - 1] ELSE Ends(g, "eval-ok"))
    /\ \/ files' = files \cup {"results"} /\ UNCHANGED missed
       \/ Faults /\ missed' = TRUE /\ UNCHANGED files
    /\ UNCHANGED <<meta, gutted>>

ScanLine(g) ==
    /\ job[g].op = "scan" /\ job[g].at = "work"
    /\ Becomes(g, IF job[g].left > 0 THEN [job[g] EXCEPT !.at = "read"] ELSE Idle)
    /\ UNCHANGED <<meta, files, missed, gutted>>

(* RemoveAll takes what is not open. *)
RemoveAll == /\ files' = {}
             /\ meta' = IF \E g \in Goroutine : job[g].at = "write" THEN meta ELSE Missing

Delete ==
    /\ Known /\ RemoveAll
    /\ gutted' = (gutted \/ Busy # {})
    /\ UNCHANGED <<job, missed>>

SeedDeletes(g) ==
    /\ job[g].at = "delete"
    /\ RemoveAll
    /\ gutted' = (gutted \/ Busy # {g})
    /\ Becomes(g, Idle)
    /\ UNCHANGED missed

(* The program ends, at any moment, and is started again. *)
Quit == /\ Faults /\ Busy # {}
        /\ job' = [g \in Goroutine |-> Idle]
        /\ missed' = TRUE
        /\ UNCHANGED <<meta, files, gutted>>

Proceed(g) ==
    \/ Read(g) \/ ReadFails(g) \/ SaveFile(g) \/ Truncate(g) \/ Write(g)
    \/ Start(g) \/ ProgramFails(g) \/ ImatrixEnds(g) \/ QuantizeEnds(g) \/ CandidateEnds(g)
    \/ ScanLine(g) \/ SeedDeletes(g)

Next == \/ \E g \in Caller : Create(g) \/ Ask(g)
        \/ \E g \in Goroutine : Proceed(g) \/ WriteFails(g)
        \/ Delete \/ Quit

Spec == Init /\ [][Next]_vars

(* A goroutine that can go on does; the programs end; and Go's mutex lets no  *)
(* waiter starve.                                                            *)
FairSpec == Spec /\ \A g \in Goroutine : WF_vars(Proceed(g)) /\ SF_vars(Proceed(g) /\ job[g].at = "wait")
-----------------------------------------------------------------------------
(* What meta.json says is on disk: "imatrix produced", "GGUFs produced",      *)
(* "results.json ready", and the prompts it counts.                          *)
Claimed(run) ==
    (IF run.prompts THEN {"prompts"} ELSE {}) \cup
    (CASE run.phase \in {"imatrix-ok", "quantize"} -> {"prompts", "imatrix"}
       [] run.phase \in {"quantize-ok", "eval"} -> {"prompts", "imatrix", "quants"}
       [] run.phase = "eval-ok" -> {"prompts", "imatrix", "quants", "results"}
       [] OTHER -> {})

(* Whatever read-modify-writes overlap, meta.json never claims a file that is *)
(* not there, unless the run was deleted under a goroutine at work, or the    *)
(* results could not be written.                                            *)
ClaimsAreBacked == meta \in Run /\ ~gutted /\ (missed => meta.phase # "eval-ok") => Claimed(meta) \subseteq files

(* A phase that says a step is running is the phase of a worker that has yet  *)
(* to report, as long as no update of meta.json was lost.                    *)
RunningMeansRunning ==
    meta \in Run /\ meta.phase \in StepName /\ ~missed =>
        \E g \in Caller : job[g].op = meta.phase /\ (job[g].at = "wait" \/ Working(g))

(* One llama-imatrix and one evaluation at a time. *)
StepsSerialised ==
    \A g, h \in Caller : g # h /\ Working(g) /\ Working(h) /\ job[g].op = job[h].op => job[g].op = "quantize"
=============================================================================
