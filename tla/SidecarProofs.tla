---------------------------- MODULE SidecarProofs ----------------------------
(***************************************************************************)
(* Proofs about what the desktop runs on its own machine: the calibration    *)
(* pipeline (Calibration) and its llama-server (LocalServe), for any number  *)
(* of callers, scanners, models, programs and steps.                         *)
(*                                                                         *)
(* Calibration.  CalibrationInv is inductive.  It says what each goroutine   *)
(* can be doing (Jobs); that every copy of the run in some goroutine's hands, *)
(* and every phase about to be written, rests on files that are there        *)
(* (Claims), since any of the copies may be the next meta.json; and that     *)
(* until an update is lost, one goroutine writes at a time and writes back   *)
(* the file it truncated (Reports), so that a running phase keeps its worker. *)
(*                                                                         *)
(* LocalServe.  Its module states the inductive invariant, LocalServeInv.     *)
(***************************************************************************)
EXTENDS Calibration, LocalServe, FiniteSetTheorems, TLAPS

-----------------------------------------------------------------------------
(* Calibration. *)

\* What a goroutine can be doing: the change it makes is one of its kind, and
\* it holds a copy of a run from the read to the write.
Holds(j) == j.at \in {"file", "open", "write"} /\ j.set # "create"
JobOK(j) ==
    /\ j \in Job
    /\ j.op = "none" => j = Idle
    /\ j.op # "none" => j.at # "idle"
    /\ j.op = "call" => j.set \in {"create", "saveprompts", "saveevals"}
       /\ j.at \in {"file", "open", "write"}
    /\ j.op = "seed" => /\ j.set \in {"create", "saveprompts", "saveevals", "stamp"}
                        /\ j.at \in {"read", "file", "open", "write", "delete"}
    /\ j.op = "scan" => j.set = "lines" /\ j.at \in {"work", "read", "open", "write"}
    /\ j.op \in StepName => /\ j.set \in {j.op, Finished[j.op], "error"}
                            /\ j.set = j.op => j.at \in {"open", "write", "wait", "work"}
                            /\ j.set # j.op => j.at \in {"read", "open", "write"}
    /\ j.at = "file" => j.set \in {"saveprompts", "saveevals"}
    /\ j.set = "create" => j.at \in {"open", "write"}
    /\ Holds(j) => j.run \in Run
    /\ ~Holds(j) => j.run = None

\* Only calls leave workers behind.
Jobs == /\ job = [g \in Goroutine |-> job[g]]
        /\ \A g \in Goroutine : JobOK(job[g]) /\ (job[g].op \in StepName => g \in Caller)

State == /\ meta \in Run \cup {None, Missing, Empty, Torn} /\ files \subseteq File
         /\ missed \in BOOLEAN /\ gutted \in BOOLEAN

\* The files f a phase rests on; the results may be missing when a write was.
Rests(phase, f, m) ==
    /\ phase \in {"imatrix-ok", "quantize", "quantize-ok", "eval", "eval-ok"} =>
       {"prompts", "imatrix"} \subseteq f
    /\ phase \in {"quantize-ok", "eval", "eval-ok"} => "quants" \in f
    /\ phase = "eval-ok" /\ ~m => "results" \in f
Backed(run, f, m) == (run.prompts => "prompts" \in f) /\ Rests(run.phase, f, m)

\* Every copy of the run is backed, and what is about to be written of it.
JobBacked(j, f, m) ==
    /\ Holds(j) => Backed(j.run, f, m)
    /\ j.set \in Phase => Rests(j.set, f, m)
    /\ j.set = "saveprompts" /\ j.at \in {"open", "write"} => "prompts" \in f
Claims == ~gutted => /\ meta \in Run => Backed(meta, files, missed)
                     /\ \A g \in Goroutine : JobBacked(job[g], files, missed)

\* While no update was lost one goroutine writes at a time, and the copy it
\* writes is the file as it was.
Doing(j, phase) == j.op = phase /\ (j.at \in {"wait", "work"} \/ j.set \in Outcome)
Runs(phase) == \E g \in Caller : Doing(job[g], phase)
Reports == ~missed =>
    /\ \A g, h \in Goroutine : job[g].at = "write" /\ job[h].at = "write" => g = h
    /\ \A g \in Goroutine : job[g].at = "write" =>
          /\ meta = Empty
          /\ \A p \in StepName : Holds(job[g]) /\ job[g].run.phase = p => Runs(p)
    /\ \A p \in StepName : meta \in Run /\ meta.phase = p => Runs(p)

CalibrationInv == State /\ Jobs /\ Claims /\ Reports /\ StepsSerialised

-----------------------------------------------------------------------------
\* A goroutine with nothing to do holds no copy.
LEMMA IdleOK == JobOK(Idle) /\ Idle \in Job /\ ~Holds(Idle)
<1>1. 0 \in 0 .. MaxItems
      BY CalibrationAssumption
<1>2. Idle \in Job
      BY <1>1 DEF Idle, Job, Change
<1> QED BY <1>2 DEF JobOK, Idle, Holds, StepName

\* Where a job of each kind is and what it changes.
LEMMA ScannedOK ==
    ASSUME NEW j, JobOK(j), j.op = "scan"
    PROVE  JobOK(Scanned(j)) /\ Scanned(j).op \in {"scan", "none"} /\ ~Holds(Scanned(j))
           /\ Scanned(j).set \in {"lines", "none"}
<1>0. j \in Job /\ j.set = "lines"
      BY DEF JobOK
<1>1. CASE j.left > 0
      <2> DEFINE k == [at |-> "work", op |-> "scan", set |-> "lines", run |-> None,
                       left |-> j.left - 1]
      <2>1. Scanned(j) = k
            BY <1>0, <1>1 DEF Scanned, Job
      <2>2. j.left - 1 \in 0 .. MaxItems
            BY <1>0, <1>1, CalibrationAssumption DEF Job
      <2>3. k \in Job
            BY <2>2 DEF Job, Change
      <2> QED BY <2>1, <2>3 DEF JobOK, Holds, StepName
<1>2. CASE ~(j.left > 0)
      BY <1>2, IdleOK DEF Scanned, Idle
<1> QED BY <1>1, <1>2

\* What a goroutine goes on with, by its kind.
LEMMA ContinuedIs ==
    ASSUME NEW j, JobOK(j), j.op # "none"
    PROVE  /\ j.op = "seed" /\ j.set # "stamp" =>
                 Continued(j) = [j EXCEPT !.at = "read", !.set = SeedNext[j.set], !.run = None]
           /\ j.set \in StepName => Continued(j) = [j EXCEPT !.at = "wait", !.run = None]
           /\ j.op = "scan" => Continued(j) = Scanned(j)
           /\ j.op = "call" \/ j.set = "stamp" \/ j.set \in Outcome => Continued(j) = Idle
<1>1. /\ j.op = "call" => j.set \in {"create", "saveprompts", "saveevals"}
      /\ j.op = "seed" => j.set \in {"create", "saveprompts", "saveevals", "stamp"}
      /\ j.op = "scan" => j.set = "lines"
      /\ j.op \in StepName => j.set \in {j.op, Finished[j.op], "error"}
      /\ j.op \in {"none", "call", "seed", "scan"} \cup StepName
      BY DEF JobOK, Job
<1>2. /\ \A s \in StepName : Finished[s] \in {"imatrix-ok", "quantize-ok", "eval-ok"}
      /\ StepName \cap {"create", "saveprompts", "saveevals", "stamp", "lines"} = {}
      /\ StepName \cap Outcome = {}
      /\ StepName \cap {"call", "seed", "scan"} = {}
      /\ Outcome \cap {"create", "saveprompts", "saveevals", "stamp", "lines"} = {}
      BY DEF StepName, Outcome, Finished
<1>3. j.set \in StepName => j.op \in StepName
      BY <1>1, <1>2
<1>4. j.set \in Outcome => j.op \in StepName /\ j.set \notin StepName
      BY <1>1, <1>2
<1>5. j.op = "seed" /\ j.set # "stamp" =>
         Continued(j) = [j EXCEPT !.at = "read", !.set = SeedNext[j.set], !.run = None]
      BY <1>1, <1>2, <1>3, Zenon DEF Continued
<1>6. ~(j.op = "seed" /\ j.set # "stamp") /\ j.set \in StepName =>
         Continued(j) = [j EXCEPT !.at = "wait", !.run = None]
      BY <1>1, <1>2, <1>3, Zenon DEF Continued
<1>7. j.op # "seed" /\ j.set \notin StepName /\ j.op = "scan" => Continued(j) = Scanned(j)
      BY Zenon DEF Continued
<1>8. ~(j.op = "seed" /\ j.set # "stamp") /\ j.set \notin StepName /\ j.op # "scan" =>
         Continued(j) = Idle
      BY Zenon DEF Continued
<1>9. j.op = "scan" => j.op # "seed" /\ j.set \notin StepName
      BY <1>1, <1>2
<1>10. j.op = "call" \/ j.set = "stamp" \/ j.set \in Outcome =>
          ~(j.op = "seed" /\ j.set # "stamp") /\ j.set \notin StepName /\ j.op # "scan"
      BY <1>1, <1>2, <1>4
<1>11. j.set \in StepName => ~(j.op = "seed" /\ j.set # "stamp")
      BY <1>1, <1>2
<1> QED BY <1>5, <1>6, <1>7, <1>8, <1>9, <1>10, <1>11

\* What a job that could not make its change goes on with.
LEMMA AbandonedIs ==
    ASSUME NEW j, JobOK(j), j.op # "none"
    PROVE  \/ /\ j.op = "seed" /\ j.set \in {"saveprompts", "saveevals"}
              /\ Abandoned(j) = [j EXCEPT !.at = "delete", !.run = None]
           \/ j.op = "scan" /\ Abandoned(j) = Scanned(j)
           \/ Abandoned(j) = Idle
<1>1. j.op = "seed" /\ j.set \in {"saveprompts", "saveevals"} =>
         Abandoned(j) = [j EXCEPT !.at = "delete", !.run = None]
      BY Zenon DEF Abandoned
<1>2. ~(j.op = "seed" /\ j.set \in {"saveprompts", "saveevals"}) /\ j.op = "scan" =>
         Abandoned(j) = Scanned(j)
      BY Zenon DEF Abandoned
<1>3. ~(j.op = "seed" /\ j.set \in {"saveprompts", "saveevals"}) /\ j.op # "scan" =>
         Abandoned(j) = Idle
      BY Zenon DEF Abandoned
<1> QED BY <1>1, <1>2, <1>3

\* The run that a write leaves.
LEMMA ChangedIs ==
    ASSUME NEW j, JobOK(j), j.at \in {"open", "write"}
    PROVE  /\ Changed(j.set, j.run) \in Run
           /\ j.set = "create" => Changed(j.set, j.run) = [phase |-> "draft", prompts |-> FALSE]
           /\ j.set \in Phase =>
                 Changed(j.set, j.run) = [phase |-> j.set, prompts |-> j.run.prompts]
           /\ j.set = "saveprompts" =>
                 Changed(j.set, j.run) =
                    [phase |-> IF j.run.phase = "draft" THEN "prompts" ELSE j.run.phase,
                     prompts |-> TRUE]
           /\ j.set \notin {"create", "saveprompts"} \cup Phase => Changed(j.set, j.run) = j.run
           /\ j.set # "create" => j.run \in Run
<1>0. \A r \in Run : /\ r.phase \in Phase /\ r.prompts \in BOOLEAN
                     /\ r = [phase |-> r.phase, prompts |-> r.prompts]
      BY DEF Run
<1>1. j.set # "create" => j.run \in Run
      BY DEF JobOK, Holds
<1>2. {"create", "saveprompts"} \cap Phase = {} /\ "prompts" \in Phase /\ "draft" \in Phase
      BY DEF Phase, StepName, Outcome
<1>3. j.set = "create" => Changed(j.set, j.run) = [phase |-> "draft", prompts |-> FALSE]
      <2> SUFFICES ASSUME j.set = "create"
                   PROVE  Changed(j.set, j.run) = [phase |-> "draft", prompts |-> FALSE]
          OBVIOUS
      <2>1. "create" # "saveprompts" /\ "create" \notin Phase
            BY <1>2
      <2> QED BY <2>1, Zenon DEF Changed
<1>4. j.set = "saveprompts" =>
         Changed(j.set, j.run)
         = [j.run EXCEPT !.prompts = TRUE, !.phase = IF @ = "draft" THEN "prompts" ELSE @]
      <2> SUFFICES ASSUME j.set = "saveprompts"
                   PROVE  Changed(j.set, j.run)
                          = [j.run EXCEPT !.prompts = TRUE,
                                          !.phase = IF @ = "draft" THEN "prompts" ELSE @]
          OBVIOUS
      <2>1. "saveprompts" # "create" /\ "saveprompts" \notin Phase
            BY <1>2
      <2> QED BY <2>1, Zenon DEF Changed
<1>5. j.set \in Phase => Changed(j.set, j.run) = [j.run EXCEPT !.phase = j.set]
      <2>1. j.set \in Phase => j.set # "create" /\ j.set # "saveprompts"
            BY <1>2
      <2> QED BY <2>1, Zenon DEF Changed
<1>6. j.set # "create" /\ j.set # "saveprompts" /\ j.set \notin Phase =>
      Changed(j.set, j.run) = j.run
      BY Zenon DEF Changed
<1>7. j.set \in Phase => Changed(j.set, j.run) = [phase |-> j.set, prompts |-> j.run.prompts]
      BY <1>0, <1>1, <1>2, <1>5
<1>8. j.set = "saveprompts" =>
         Changed(j.set, j.run) =
            [phase |-> IF j.run.phase = "draft" THEN "prompts" ELSE j.run.phase,
             prompts |-> TRUE]
      <2> SUFFICES ASSUME j.set = "saveprompts"
                   PROVE  Changed(j.set, j.run) =
                      [phase |-> IF j.run.phase = "draft" THEN "prompts" ELSE j.run.phase,
                       prompts |-> TRUE]
          OBVIOUS
      <2>1. j.run \in Run
            BY <1>1, <1>2
      <2>2. ASSUME NEW a \in Run
            PROVE  [a EXCEPT !.prompts = TRUE, !.phase = IF @ = "draft" THEN "prompts" ELSE @]
                   = [phase |-> IF a.phase = "draft" THEN "prompts" ELSE a.phase, prompts |-> TRUE]
            <3> DEFINE p == IF a.phase = "draft" THEN "prompts" ELSE a.phase
            <3> HIDE DEF p
            <3>1. \A b : [a EXCEPT !.prompts = b] = [phase |-> a.phase, prompts |-> b]
                  BY DEF Run
            <3>2. \A q, b :
                     [[phase |-> q, prompts |-> b] EXCEPT !.phase = p]
                     = [phase |-> p, prompts |-> b]
                  OBVIOUS
            <3>3. [a EXCEPT !.prompts = TRUE, !.phase = p] = [phase |-> p, prompts |-> TRUE]
                  BY <3>1, <3>2, Zenon
            <3>4. [a EXCEPT !.prompts = TRUE, !.phase = IF @ = "draft" THEN "prompts" ELSE @]
                  = [a EXCEPT !.prompts = TRUE,
                              !.phase = IF a.phase = "draft" THEN "prompts" ELSE a.phase]
                  OBVIOUS
            <3> QED BY <3>3, <3>4 DEF p
      <2>3. [j.run EXCEPT !.prompts = TRUE, !.phase = IF @ = "draft" THEN "prompts" ELSE @]
            = [phase |-> IF j.run.phase = "draft" THEN "prompts" ELSE j.run.phase, prompts |-> TRUE]
            BY <2>1, <2>2, Zenon
      <2> QED BY <1>4, <2>3
<1>9. Changed(j.set, j.run) \in Run
      <2>1. \A p \in Phase, b \in BOOLEAN : [phase |-> p, prompts |-> b] \in Run
            BY DEF Run
      <2>2. CASE j.set = "create"
            BY <1>2, <1>3, <2>1, <2>2
      <2>3. CASE j.set = "saveprompts"
            <3>1. j.run \in Run /\ j.run.phase \in Phase
                  BY <1>0, <1>1, <1>2, <2>3
            <3>2. (IF j.run.phase = "draft" THEN "prompts" ELSE j.run.phase) \in Phase
                  BY <1>2, <3>1
            <3> QED BY <1>8, <2>1, <2>3, <3>2
      <2>4. CASE j.set \in Phase
            BY <1>0, <1>1, <1>2, <1>7, <2>1, <2>4
      <2>5. CASE j.set # "create" /\ j.set # "saveprompts" /\ j.set \notin Phase
            BY <1>1, <1>6, <2>5
      <2> QED BY <2>2, <2>3, <2>4, <2>5
<1> QED BY <1>1, <1>3, <1>6, <1>7, <1>8, <1>9

\* A goroutine's job becomes another of its kind.
LEMMA BecomesJobs ==
    ASSUME Jobs, NEW g \in Goroutine, NEW j, Becomes(g, j), JobOK(j),
           j.op \in StepName => g \in Caller
    PROVE  Jobs' /\ job'[g] = j /\ \A h \in Goroutine \ {g} : job'[h] = job[h]
BY DEF Jobs, Becomes

\* Files only come, and of what is written nothing is claimed that is not there.
LEMMA RestsKept ==
    ASSUME NEW f, NEW e, f \subseteq e, NEW m \in BOOLEAN, NEW k \in BOOLEAN, m => k
    PROVE  /\ \A p : Rests(p, f, m) => Rests(p, e, k)
           /\ \A r : Backed(r, f, m) => Backed(r, e, k)
           /\ \A j : JobBacked(j, f, m) => JobBacked(j, e, k)
<1>1. \A p : Rests(p, f, m) => Rests(p, e, k)
      BY DEF Rests
<1>2. \A r : Backed(r, f, m) => Backed(r, e, k)
      BY <1>1 DEF Backed
<1>3. \A j : JobBacked(j, f, m) => JobBacked(j, e, k)
      BY <1>1, <1>2 DEF JobBacked
<1> QED BY <1>1, <1>2, <1>3

\* A step that only brings files, and writes a backed run or none, keeps the claims.
LEMMA ClaimsKept ==
    ASSUME State, Claims, NEW g \in Goroutine, NEW j,
           job'[g] = j, \A h \in Goroutine \ {g} : job'[h] = job[h],
           files \subseteq files', gutted' = gutted, missed' \in BOOLEAN, missed => missed',
           ~gutted => JobBacked(j, files', missed'),
           meta' = meta \/ meta' \notin Run \/ (~gutted => Backed(meta', files', missed'))
    PROVE  Claims'
<1>1. \A r : Backed(r, files, missed) => Backed(r, files', missed')
      BY RestsKept DEF State
<1>2. \A k : JobBacked(k, files, missed) => JobBacked(k, files', missed')
      BY RestsKept DEF State
<1> QED BY <1>1, <1>2 DEF Claims

\* What is reported: a worker stays one until its report is written.
LEMMA ReportsKept ==
    ASSUME Reports, missed => missed',
           \/ meta' = meta
           \/ meta' \notin Run /\ \A g \in Goroutine : job[g].at # "write",
           \A h \in Goroutine : job'[h].at = "write" => job'[h] = job[h],
           \A h \in Caller, p \in StepName : Doing(job[h], p) => Doing(job'[h], p)
    PROVE  Reports'
<1> SUFFICES ASSUME ~missed'
             PROVE  Reports'
    BY DEF Reports
<1>1. ~missed
      OBVIOUS
<1>2. \A p \in StepName : Runs(p) => Runs(p)'
      BY DEF Runs
<1>3. \A g, h \in Goroutine : job'[g].at = "write" /\ job'[h].at = "write" => g = h
      BY <1>1 DEF Reports
<1>4. \A g \in Goroutine : job'[g].at = "write" =>
         /\ meta' = Empty
         /\ \A p \in StepName : Holds(job'[g]) /\ job'[g].run.phase = p => Runs(p)'
      BY <1>1, <1>2 DEF Reports
<1>5. \A p \in StepName : meta' \in Run /\ meta'.phase = p => Runs(p)'
      BY <1>1, <1>2 DEF Reports
<1> QED BY <1>3, <1>4, <1>5 DEF Reports

\* Who works is alone with its program, if nobody begins to.
Busily(j) == j.op \in StepName /\ (j.at = "work" \/ j.set \in Outcome)
\* A step that lets no worker begin keeps the serialised ones apart.
LEMMA SerialKept ==
    ASSUME StepsSerialised,
           \A h \in Caller : Busily(job'[h]) => Busily(job[h]) /\ job'[h].op = job[h].op
    PROVE  StepsSerialised'
BY DEF StepsSerialised, Working, Busily

\* A worker that begins has taken its lock.
LEMMA SerialBegins ==
    ASSUME StepsSerialised, NEW g \in Caller, LockFree(g), job'[g].op = job[g].op,
           \A h \in Caller \ {g} : Busily(job'[h]) => Busily(job[h]) /\ job'[h].op = job[h].op
    PROVE  StepsSerialised'
BY DEF StepsSerialised, Working, Busily, LockFree

-----------------------------------------------------------------------------
\* The jobs that the actions make of a job.
IsJob(k, a, o, s, r, n) == k \in Job /\ k.at = a /\ k.op = o /\ k.set = s /\ k.run = r /\ k.left = n

\* What a record is when some of its fields are replaced.
LEMMA WithAt ==
    ASSUME NEW j \in Job, NEW k,
           NEW a \in {"idle", "read", "file", "open", "write", "wait", "work", "delete"},
           k = [j EXCEPT !.at = a]
    PROVE  IsJob(k, a, j.op, j.set, j.run, j.left)
BY DEF Job, IsJob

\* Another number of lines, targets or candidates to go.
LEMMA WithLeft ==
    ASSUME NEW j \in Job, NEW k, NEW n \in 0 .. MaxItems,
           k = [j EXCEPT !.left = n]
    PROVE  IsJob(k, j.at, j.op, j.set, j.run, n)
BY DEF Job, IsJob

\* Another place and another copy of the run.
LEMMA WithAtRun ==
    ASSUME NEW j \in Job, NEW k,
           NEW a \in {"idle", "read", "file", "open", "write", "wait", "work", "delete"},
           NEW r \in Run \cup {None},
           k = [j EXCEPT !.at = a, !.run = r] \/ k = [j EXCEPT !.run = r, !.at = a]
    PROVE  IsJob(k, a, j.op, j.set, r, j.left)
BY DEF Job, IsJob

\* Another place and another change to make.
LEMMA WithAtSet ==
    ASSUME NEW j \in Job, NEW k,
           NEW a \in {"idle", "read", "file", "open", "write", "wait", "work", "delete"},
           NEW s \in Change,
           k = [j EXCEPT !.at = a, !.set = s]
    PROVE  IsJob(k, a, j.op, s, j.run, j.left)
BY DEF Job, IsJob

\* Another place, change and copy.
LEMMA WithAtSetRun ==
    ASSUME NEW j \in Job, NEW k,
           NEW a \in {"idle", "read", "file", "open", "write", "wait", "work", "delete"},
           NEW s \in Change,
           NEW r \in Run \cup {None},
           k = [j EXCEPT !.at = a, !.set = s, !.run = r]
    PROVE  IsJob(k, a, j.op, s, r, j.left)
BY DEF Job, IsJob

\* Another place, kind and change.
LEMMA WithAtOpSet ==
    ASSUME NEW j \in Job, NEW k,
           NEW a \in {"idle", "read", "file", "open", "write", "wait", "work", "delete"},
           NEW o \in {"none", "call", "seed", "scan"} \cup StepName,
           NEW s \in Change,
           k = [j EXCEPT !.at = a, !.op = o, !.set = s]
    PROVE  IsJob(k, a, o, s, j.run, j.left)
BY DEF Job, IsJob

\* Another place, kind, change and copy.
LEMMA WithAtOpSetRun ==
    ASSUME NEW j \in Job, NEW k,
           NEW a \in {"idle", "read", "file", "open", "write", "wait", "work", "delete"},
           NEW o \in {"none", "call", "seed", "scan"} \cup StepName,
           NEW s \in Change,
           NEW r \in Run \cup {None},
           k = [j EXCEPT !.at = a, !.op = o, !.set = s, !.run = r]
    PROVE  IsJob(k, a, o, s, r, j.left)
BY DEF Job, IsJob

\* Another place, kind, change and number to go.
LEMMA WithAtOpSetLeft ==
    ASSUME NEW j \in Job, NEW k,
           NEW a \in {"idle", "read", "file", "open", "write", "wait", "work", "delete"},
           NEW o \in {"none", "call", "seed", "scan"} \cup StepName,
           NEW s \in Change,
           NEW n \in 0 .. MaxItems,
           k = [j EXCEPT !.at = a, !.op = o, !.set = s, !.left = n]
    PROVE  IsJob(k, a, o, s, j.run, n)
BY DEF Job, IsJob

\* All five of them.
LEMMA WithAll ==
    ASSUME NEW j \in Job, NEW k,
           NEW a \in {"idle", "read", "file", "open", "write", "wait", "work", "delete"},
           NEW o \in {"none", "call", "seed", "scan"} \cup StepName,
           NEW s \in Change,
           NEW r \in Run \cup {None},
           NEW n \in 0 .. MaxItems,
           k = [j EXCEPT !.at = a, !.op = o, !.set = s, !.run = r, !.left = n]
    PROVE  IsJob(k, a, o, s, r, n)
BY DEF Job, IsJob

\* The names of steps, phases, changes and file states that differ.
LEMMA Distinct ==
    /\ StepName \cap Outcome = {} /\ StepName \subseteq Phase /\ Outcome \subseteq Phase
    /\ Phase \cap {"none", "create", "saveprompts", "saveevals", "stamp", "lines"} = {}
    /\ StepName \cap {"none", "call", "seed", "scan"} = {}
    /\ \A s \in StepName : Finished[s] \in Outcome \ {"error"}
    /\ None # Empty /\ Missing # Empty /\ None \notin Run /\ Empty \notin Run /\ Missing \notin Run
       /\ Torn \notin Run
<1>1. None # Empty /\ Missing # Empty
      <2> SUFFICES ASSUME None = Empty \/ Missing = Empty
                   PROVE  FALSE
          OBVIOUS
      <2>1. {None, Missing, Empty, Torn} = ({None} \cup {Missing}) \cup {Torn}
            OBVIOUS
      <2>2. IsFiniteSet({None}) /\ Cardinality({None}) = 1
            BY FS_Singleton
      <2>3. IsFiniteSet({None} \cup {Missing}) /\ Cardinality({None} \cup {Missing}) \in {1, 2}
            BY <2>2, FS_AddElement
      <2>4. Cardinality(({None} \cup {Missing}) \cup {Torn}) \in {1, 2, 3}
            BY <2>3, FS_AddElement
      <2> QED BY <2>1, <2>4, CalibrationAssumption
<1>2. /\ StepName \cap Outcome = {} /\ StepName \subseteq Phase /\ Outcome \subseteq Phase
      /\ Phase \cap {"none", "create", "saveprompts", "saveevals", "stamp", "lines"} = {}
      /\ StepName \cap {"none", "call", "seed", "scan"} = {}
      BY DEF StepName, Outcome, Phase
<1>3. \A s \in StepName : Finished[s] \in Outcome \ {"error"}
      BY DEF StepName, Outcome, Finished
<1> QED BY <1>1, <1>2, <1>3, NotARun

\* An idle goroutine claims nothing and runs nothing.
LEMMA IdleKeeps ==
    /\ JobOK(Idle) /\ Idle.at = "idle" /\ Idle.op = "none" /\ Idle.set = "none"
    /\ \A f, m : JobBacked(Idle, f, m)
    /\ \A p \in StepName : ~Doing(Idle, p)
    /\ ~Busily(Idle)
<1>1. JobOK(Idle) /\ ~Holds(Idle)
      BY IdleOK
<1>2. Idle.at = "idle" /\ Idle.op = "none" /\ Idle.set = "none"
      BY DEF Idle
<1> QED BY <1>1, <1>2, Distinct DEF JobBacked, Doing, Busily

\* The one change of a goroutine: nearly every step.
LEMMA StepKept ==
    ASSUME CalibrationInv, NEW g \in Goroutine, NEW j, Becomes(g, j),
           JobOK(j), j.op \in StepName => g \in Caller, j.at # "write",
           files \subseteq files', files' \subseteq File,
           gutted' = gutted, meta' = meta, missed' \in BOOLEAN, missed => missed',
           ~gutted => JobBacked(j, files', missed'),
           \/ missed'
           \/ \A p \in StepName : Doing(job[g], p) => Doing(j, p)
           \/ meta \notin Run /\ \A h \in Goroutine : job[h].at # "write",
           Busily(j) => /\ j.op = job[g].op
                        /\ Busily(job[g]) \/ (g \in Caller /\ LockFree(g))
    PROVE  CalibrationInv'
<1> USE DEF CalibrationInv
<1>1. Jobs' /\ job'[g] = j /\ \A h \in Goroutine \ {g} : job'[h] = job[h]
      BY BecomesJobs
<1>2. State'
      BY DEF State
<1>3. Claims'
      BY <1>1, ClaimsKept
<1>4. Reports'
      <2>0. \A h \in Goroutine : job'[h].at = "write" => job'[h] = job[h]
            BY <1>1
      <2>1. CASE missed'
            BY <2>1 DEF Reports
      <2>2. CASE \A p \in StepName : Doing(job[g], p) => Doing(j, p)
            <3>1. \A h \in Caller, p \in StepName : Doing(job[h], p) => Doing(job'[h], p)
                  BY <1>1, <2>2 DEF Goroutine
            <3> QED BY <2>0, <3>1, ReportsKept
      <2>3. CASE meta \notin Run /\ \A h \in Goroutine : job[h].at # "write"
            <3>1. \A h \in Goroutine : job'[h].at # "write"
                  BY <1>1, <2>3
            <3> QED BY <2>3, <3>1 DEF Reports
      <2> QED BY <2>1, <2>2, <2>3
<1>5. StepsSerialised'
      <2>0. \A h \in Caller \ {g} : job'[h] = job[h]
            BY <1>1 DEF Goroutine
      <2>1. CASE Busily(j) => Busily(job[g]) /\ j.op = job[g].op
            BY <1>1, <2>0, <2>1, SerialKept
      <2>2. CASE g \in Caller /\ LockFree(g) /\ j.op = job[g].op
            BY <1>1, <2>0, <2>2, SerialBegins
      <2> QED BY <2>1, <2>2
<1> QED BY <1>1, <1>2, <1>3, <1>4, <1>5

-----------------------------------------------------------------------------
\* The steps, one by one.
LEMMA JobFacts ==
    ASSUME Jobs, NEW g \in Goroutine
    PROVE  /\ JobOK(job[g]) /\ job[g] \in Job
              /\ job[g].at \in {"idle", "read", "file", "open", "write", "wait", "work", "delete"}
           /\ job[g].op \in {"none", "call", "seed", "scan"} \cup StepName /\ job[g].set \in Change
           /\ job[g].run \in Run \cup {None} /\ job[g].left \in 0 .. MaxItems
           /\ job[g].at = "idle" => job[g] = Idle
           /\ job[g].op \in StepName => g \in Caller
<1>1. JobOK(job[g]) /\ job[g] \in Job /\ (job[g].op \in StepName => g \in Caller)
      BY DEF Jobs, JobOK
<1>2. job[g].at = "idle" => job[g] = Idle
      BY <1>1 DEF JobOK
<1> QED BY <1>1, <1>2 DEF Job

\* What Idle holds.
LEMMA Zero == 0 \in 0 .. MaxItems /\ Idle.left = 0 /\ Idle.run = None
BY CalibrationAssumption DEF Idle

\* A run is created by a goroutine that holds no copy.
LEMMA CreateKeeps ==
    ASSUME CalibrationInv, NEW g \in Caller, Create(g)
    PROVE  CalibrationInv'
<1>0. g \in Goroutine /\ State /\ Jobs
      BY DEF Goroutine, CalibrationInv
<1>1. PICK op \in {"call", "seed"} :
                Becomes(g, [Idle EXCEPT !.at = "open", !.op = op, !.set = "create"])
      BY DEF Create
<1> DEFINE j == [Idle EXCEPT !.at = "open", !.op = op, !.set = "create"]
<1>2. Becomes(g, j)
      BY <1>1
<1>3. IsJob(j, "open", op, "create", None, 0)
      <2>1. "create" \in Change
            BY DEF Change
      <2> QED BY <2>1, IdleOK, Zero, WithAtOpSet
<1> HIDE DEF j
<1>4. JobOK(j) /\ ~Holds(j)
      BY <1>3 DEF JobOK, Holds, IsJob, StepName
<1>5. \A f, m : JobBacked(j, f, m)
      BY <1>3, <1>4, Distinct DEF JobBacked, IsJob
<1>6. job[g] = Idle
      BY <1>0, JobFacts DEF Create, Busy
<1>7. op \notin StepName
      BY DEF StepName
<1> QED BY <1>0, <1>2, <1>3, <1>4, <1>5, <1>6, <1>7, IdleKeeps, StepKept
           DEF Create, IsJob, Busily, State

\* A call copies the run as it is; Granted backs the step it asks for.
LEMMA AskKeeps ==
    ASSUME CalibrationInv, NEW g \in Caller, Ask(g)
    PROVE  CalibrationInv'
<1>0. g \in Goroutine /\ State /\ Jobs /\ meta \in Run /\ job[g] = Idle
      /\ UNCHANGED <<meta, files, missed, gutted>>
      BY DEF Goroutine, CalibrationInv, Ask
<1>1. ~gutted => Backed(meta, files, missed)
      BY <1>0 DEF CalibrationInv, Claims
<1>2. ASSUME NEW set \in {"saveprompts", "saveevals"},
             Becomes(g, [Idle EXCEPT !.at = "file", !.op = "call", !.set = set, !.run = meta])
      PROVE  CalibrationInv'
      <2> DEFINE j == [Idle EXCEPT !.at = "file", !.op = "call", !.set = set, !.run = meta]
      <2>1. IsJob(j, "file", "call", set, meta, 0)
            <3>1. set \in Change
                  BY DEF Change
            <3> QED BY <1>0, <3>1, IdleOK, Zero, WithAtOpSetRun
      <2>2. Becomes(g, j)
            BY <1>2
      <2> HIDE DEF j
      <2>3. JobOK(j)
            BY <1>0, <2>1 DEF JobOK, Holds, IsJob, StepName
      <2>4. ~gutted => JobBacked(j, files, missed)
            BY <1>1, <2>1, Distinct DEF JobBacked, Holds, IsJob
      <2>5. ~Busily(j) /\ j.at # "write" /\ j.op \notin StepName
            BY <2>1, Distinct DEF IsJob, Busily
      <2> QED BY <1>0, <2>2, <2>3, <2>4, <2>5, IdleKeeps, StepKept DEF State
<1>3. ASSUME NEW s \in StepName, NEW n \in 1 .. MaxItems, Granted(s, meta),
             Becomes(g, [Idle EXCEPT !.at = "open", !.op = s, !.set = s, !.run = meta, !.left = n])
      PROVE  CalibrationInv'
      <2> DEFINE j == [Idle EXCEPT !.at = "open", !.op = s, !.set = s, !.run = meta, !.left = n]
      <2>1. IsJob(j, "open", s, s, meta, n)
            <3>1. s \in Change /\ n \in 0 .. MaxItems
                  BY CalibrationAssumption DEF Change
            <3> QED BY <1>0, <3>1, IdleOK, WithAll
      <2>2. Becomes(g, j)
            BY <1>3
      <2> HIDE DEF j
      <2>3. JobOK(j)
            <3>1. s # "create" /\ s \notin {"none", "call", "seed", "scan"}
                  BY Distinct
            <3> QED BY <1>0, <2>1, <3>1 DEF JobOK, Holds, IsJob
      <2>4. ~gutted => JobBacked(j, files, missed)
            <3>1. ~gutted => Rests(s, files, missed)
                  <4>1. s \in {"imatrix", "quantize", "eval"}
                        BY DEF StepName
                  <4> QED BY <1>1, <1>3, <4>1 DEF Granted, Backed, Rests
            <3> QED BY <1>1, <2>1, <3>1, Distinct DEF JobBacked, Holds, IsJob
      <2>5. ~Busily(j) /\ j.at # "write"
            BY <2>1, Distinct DEF IsJob, Busily
      <2> QED BY <1>0, <2>2, <2>3, <2>4, <2>5, IdleKeeps, StepKept DEF State
<1> QED BY <1>2, <1>3 DEF Ask

\* A copy is read: it is backed as meta.json is.
LEMMA ReadKeeps ==
    ASSUME CalibrationInv, NEW g \in Goroutine, Read(g)
    PROVE  CalibrationInv'
<1> DEFINE a == IF job[g].set \in {"saveprompts", "saveevals"} THEN "file" ELSE "open"
<1> DEFINE j == [job[g] EXCEPT !.run = meta, !.at = a]
<1>0. State /\ Jobs /\ meta \in Run /\ job[g].at = "read" /\ Becomes(g, j)
      /\ UNCHANGED <<meta, files, missed, gutted>>
      BY DEF CalibrationInv, Read
<1>1. ~gutted => Backed(meta, files, missed) /\ JobBacked(job[g], files, missed)
      BY <1>0 DEF CalibrationInv, Claims
<1>a. /\ a \in {"file", "open"}
      /\ a = "file" <=> job[g].set \in {"saveprompts", "saveevals"}
      OBVIOUS
<1> HIDE DEF a
<1>b. job[g] \in Job
      BY <1>0, JobFacts
<1>2. IsJob(j, a, job[g].op, job[g].set, meta, job[g].left)
      BY <1>0, <1>a, <1>b, WithAtRun
<1> HIDE DEF j
<1>3. JobOK(job[g]) /\ (job[g].op \in StepName => g \in Caller)
      BY <1>0, JobFacts
<1>4. JobOK(j)
      <2>1. job[g].op \in {"seed", "scan"} \cup StepName
            BY <1>0, <1>3, JobFacts DEF JobOK, Idle
      <2>2. job[g].op \in StepName => job[g].set \notin {"saveprompts", "saveevals"}
            BY <1>3, Distinct DEF JobOK
      <2>3. job[g].op = "scan" => a = "open"
            BY <1>a, <1>3 DEF JobOK
      <2>4. j \in Job /\ j.at = a /\ j.op = job[g].op /\ j.set = job[g].set /\ j.run = meta
            BY <1>2 DEF IsJob
      <2>5. j.set # "create"
            BY <1>0, <1>3, <2>1, <2>4, Distinct DEF JobOK
      <2>6. Holds(j) /\ j.run \in Run
            BY <1>0, <1>a, <2>4, <2>5 DEF Holds
      <2>7. CASE job[g].op = "seed"
            BY <1>a, <1>3, <2>4, <2>6, <2>7, Distinct DEF JobOK
      <2>8. CASE job[g].op = "scan"
            BY <1>a, <1>3, <2>3, <2>4, <2>6, <2>8, Distinct DEF JobOK
      <2>9. CASE job[g].op \in StepName
            <3>1. a = "open"
                  BY <1>a, <2>2, <2>9
            <3> QED BY <1>0, <1>3, <2>4, <2>6, <2>9, <3>1, Distinct DEF JobOK
      <2> QED BY <2>1, <2>7, <2>8, <2>9
<1>5. ~gutted => JobBacked(j, files, missed)
      BY <1>a, <1>1, <1>2 DEF JobBacked, IsJob
<1>6. \A p \in StepName : Doing(job[g], p) => Doing(j, p)
      BY <1>0, <1>2 DEF Doing, IsJob
<1>7. Busily(j) => j.op = job[g].op /\ Busily(job[g])
      BY <1>a, <1>2 DEF Busily, IsJob
<1> QED BY <1>0, <1>a, <1>2, <1>3, <1>4, <1>5, <1>6, <1>7, StepKept DEF State, IsJob

\* A change that could not be made.
LEMMA AbandonedOK ==
    ASSUME Jobs, NEW g \in Goroutine, job[g].op # "none"
    PROVE  LET j == Abandoned(job[g])
           IN  /\ JobOK(j) /\ j.op \notin StepName /\ j.at # "write" /\ ~Busily(j)
               /\ \A f, m : JobBacked(j, f, m)
<1> DEFINE j == Abandoned(job[g])
<1>1. CASE j = Idle
      BY <1>1, IdleKeeps, Distinct
<1>2. CASE job[g].op = "scan" /\ j = Scanned(job[g])
      <2>1. JobOK(j) /\ j.op \in {"scan", "none"} /\ ~Holds(j) /\ j.set \in {"lines", "none"}
            BY <1>2, JobFacts, ScannedOK
      <2> HIDE DEF j
      <2>2. j.at # "write"
            BY <2>1 DEF Holds
      <2> QED BY <2>1, <2>2, Distinct DEF JobBacked, Busily, j
<1>3. CASE /\ job[g].op = "seed" /\ job[g].set \in {"saveprompts", "saveevals"}
           /\ j = [job[g] EXCEPT !.at = "delete", !.run = None]
      <2>0. job[g] \in Job
            BY JobFacts
      <2>1. IsJob(j, "delete", "seed", job[g].set, None, job[g].left)
            BY <1>3, <2>0, WithAtRun
      <2> HIDE DEF j
      <2>2. JobOK(j) /\ ~Holds(j)
            BY <1>3, <2>1, Distinct DEF JobOK, Holds, IsJob
      <2> QED BY <1>3, <2>1, <2>2, Distinct DEF JobBacked, Busily, IsJob, j
<1> QED BY <1>1, <1>2, <1>3, JobFacts, AbandonedIs

\* The run cannot be read; a report is lost only with the file.
LEMMA ReadFailsKeeps ==
    ASSUME CalibrationInv, NEW g \in Goroutine, ReadFails(g)
    PROVE  CalibrationInv'
<1> DEFINE j == Abandoned(job[g])
<1>0. State /\ Jobs /\ meta \notin Run /\ job[g].at = "read" /\ Becomes(g, j)
      /\ UNCHANGED <<meta, files, gutted>>
      /\ missed' = (missed \/ (job[g].set \in Outcome /\ meta \in {Empty, Torn}))
      BY DEF CalibrationInv, ReadFails
<1>1. job[g].op # "none" /\ JobOK(job[g])
      BY <1>0, JobFacts DEF JobOK, Idle
<1>2. /\ JobOK(j) /\ j.op \notin StepName /\ j.at # "write" /\ ~Busily(j)
      /\ \A f, m : JobBacked(j, f, m)
      BY <1>0, <1>1, AbandonedOK
<1> HIDE DEF j
<1>3. \/ missed'
      \/ \A p \in StepName : Doing(job[g], p) => Doing(j, p)
      \/ meta \notin Run /\ \A h \in Goroutine : job[h].at # "write"
      <2>1. CASE missed \/ (job[g].set \in Outcome /\ meta \in {Empty, Torn})
            BY <1>0, <2>1
      <2>2. CASE job[g].set \notin Outcome
            BY <1>0, <2>2 DEF Doing
      <2>3. CASE ~missed /\ meta # Empty
            BY <1>0, <2>3 DEF CalibrationInv, Reports
      <2> QED BY <2>1, <2>2, <2>3
<1>4. missed' \in BOOLEAN /\ (missed => missed')
      BY <1>0 DEF State
<1> QED BY <1>0, <1>2, <1>3, <1>4, StepKept DEF State

\* A goroutine gives up its change: a worker's report counts as missed.
LEMMA AbandonKeeps ==
    ASSUME CalibrationInv, NEW g \in Goroutine, job[g].op # "none", Becomes(g, Abandoned(job[g])),
           missed' \/ (job[g].set \notin Outcome /\ job[g].at \notin {"wait", "work"}),
           missed' \in BOOLEAN, missed => missed', UNCHANGED <<meta, files, gutted>>
    PROVE  CalibrationInv'
<1> DEFINE j == Abandoned(job[g])
<1>1. State /\ Jobs
      BY DEF CalibrationInv
<1>2. /\ JobOK(j) /\ j.op \notin StepName /\ j.at # "write" /\ ~Busily(j)
      /\ \A f, m : JobBacked(j, f, m)
      BY <1>1, AbandonedOK
<1>3. Becomes(g, j)
      OBVIOUS
<1> HIDE DEF j
<1>4. missed' \/ \A p \in StepName : Doing(job[g], p) => Doing(j, p)
      BY DEF Doing
<1> QED BY <1>1, <1>2, <1>3, <1>4, StepKept DEF State

\* The prompts are on disk before the run that counts them is written.
LEMMA SaveFileKeeps ==
    ASSUME CalibrationInv, NEW g \in Goroutine, SaveFile(g)
    PROVE  CalibrationInv'
<1>0. State /\ Jobs /\ job[g].at = "file" /\ UNCHANGED <<meta, missed, gutted>>
      BY DEF CalibrationInv, SaveFile
<1>1. JobOK(job[g]) /\ job[g] \in Job
      BY <1>0, JobFacts
<1>2. job[g].op # "none" /\ job[g].set \in {"saveprompts", "saveevals"}
      BY <1>0, <1>1 DEF JobOK, Idle
<1>3. job[g].op \notin StepName /\ job[g].set \notin Outcome
      <2>1. job[g].set \notin Phase
            BY <1>2, Distinct
      <2>2. "error" \in Phase
            BY DEF Phase, Outcome
      <2>3. job[g].op \in StepName => job[g].set \in {job[g].op, Finished[job[g].op], "error"}
            BY <1>1 DEF JobOK
      <2>4. job[g].op \in StepName => job[g].set \in Phase
            BY <2>2, <2>3, Distinct
      <2> QED BY <2>1, <2>4, Distinct
<1>4. ASSUME files' = files \cup {IF job[g].set = "saveprompts" THEN "prompts" ELSE "evalset"},
             Becomes(g, [job[g] EXCEPT !.at = "open"])
      PROVE  CalibrationInv'
      <2> DEFINE j == [job[g] EXCEPT !.at = "open"]
      <2>1. IsJob(j, "open", job[g].op, job[g].set, job[g].run, job[g].left)
            BY <1>1, WithAt
      <2>2. Becomes(g, j)
            BY <1>4
      <2> HIDE DEF j
      <2>3. j \in Job /\ j.at = "open" /\ j.op = job[g].op /\ j.set = job[g].set
            /\ j.run = job[g].run
            BY <2>1 DEF IsJob
      <2>4. Holds(j) /\ Holds(job[g])
            BY <1>0, <1>2, <2>3 DEF Holds
      <2>5. j.op \in {"call", "seed"}
            /\ (j.op = "call" => j.set \in {"create", "saveprompts", "saveevals"})
            BY <1>0, <1>1, <1>2, <1>3, <2>3, JobFacts DEF JobOK
      <2>6. JobOK(j)
            BY <1>0, <1>1, <1>2, <1>3, <2>3, <2>4, <2>5 DEF JobOK
      <2>7. files \subseteq files' /\ files' \subseteq File
            /\ (j.set = "saveprompts" => "prompts" \in files')
            BY <1>0, <1>4, <2>3 DEF State, File
      <2>8. ~gutted => JobBacked(j, files', missed)
            <3>1. ~gutted => JobBacked(job[g], files, missed)
                  BY DEF CalibrationInv, Claims
            <3>2. ~gutted => JobBacked(job[g], files', missed)
                  BY <1>0, <2>7, <3>1, RestsKept DEF State
            <3> QED BY <2>3, <2>4, <2>7, <3>2 DEF JobBacked
      <2>9. \A p \in StepName : Doing(job[g], p) => Doing(j, p)
            BY <1>3 DEF Doing
      <2>10. ~Busily(j)
            BY <1>3, <2>3 DEF Busily
      <2> QED BY <1>0, <1>3, <2>2, <2>3, <2>6, <2>7, <2>8, <2>9, <2>10, StepKept DEF State
<1>5. ASSUME Becomes(g, Abandoned(job[g])), UNCHANGED files
      PROVE  CalibrationInv'
      BY <1>0, <1>2, <1>3, <1>5, AbandonKeeps DEF State
<1> QED BY <1>4, <1>5 DEF SaveFile

\* A failed write is an update missed.
LEMMA WriteFailsKeeps ==
    ASSUME CalibrationInv, NEW g \in Goroutine, WriteFails(g)
    PROVE  CalibrationInv'
<1>1. State /\ Jobs /\ job[g].at \in {"open", "write"}
      BY DEF CalibrationInv, WriteFails
<1>2. job[g].op # "none"
      BY <1>1, JobFacts DEF JobOK, Idle
<1> QED BY <1>2, AbandonKeeps DEF WriteFails

\* The file is truncated: nobody else writes it, or an update is missed.
LEMMA TruncateKeeps ==
    ASSUME CalibrationInv, NEW g \in Goroutine, Truncate(g)
    PROVE  CalibrationInv'
<1> DEFINE j == [job[g] EXCEPT !.at = "write"]
<1>0. State /\ Jobs /\ Claims /\ Reports /\ StepsSerialised /\ job[g].at = "open" /\ Becomes(g, j)
      /\ UNCHANGED <<files, gutted>> /\ meta' = Empty /\ missed' = (missed \/ meta # job[g].run)
      BY DEF CalibrationInv, Truncate
<1>1. JobOK(job[g]) /\ job[g] \in Job /\ job[g].run \in Run \cup {None}
      /\ (job[g].op \in StepName => g \in Caller)
      BY <1>0, JobFacts
<1>2. IsJob(j, "write", job[g].op, job[g].set, job[g].run, job[g].left)
      BY <1>1, WithAt
<1> HIDE DEF j
<1>3. j \in Job /\ j.at = "write" /\ j.op = job[g].op /\ j.set = job[g].set /\ j.run = job[g].run
      BY <1>2 DEF IsJob
<1>4. Holds(j) <=> Holds(job[g])
      BY <1>0, <1>3 DEF Holds
<1>5. job[g].op # "none"
      BY <1>0, <1>1 DEF JobOK, Idle
<1>6. JobOK(j)
      <2>1. j.op = "call" => j.set \in {"create", "saveprompts", "saveevals"}
            BY <1>1, <1>3 DEF JobOK
      <2>2. j.op = "seed" => j.set \in {"create", "saveprompts", "saveevals", "stamp"}
            BY <1>1, <1>3 DEF JobOK
      <2>3. j.op = "scan" => j.set = "lines"
            BY <1>1, <1>3 DEF JobOK
      <2>4. j.op \in StepName => j.set \in {j.op, Finished[j.op], "error"}
            BY <1>1, <1>3 DEF JobOK
      <2>5. (Holds(j) => j.run \in Run) /\ (~Holds(j) => j.run = None)
            BY <1>1, <1>3, <1>4 DEF JobOK
      <2> QED BY <1>3, <1>5, <2>1, <2>2, <2>3, <2>4, <2>5 DEF JobOK
<1>7. Jobs' /\ job'[g] = j /\ \A h \in Goroutine \ {g} : job'[h] = job[h]
      BY <1>0, <1>1, <1>3, <1>6, BecomesJobs
<1>8. State'
      BY <1>0 DEF State
<1>9. Claims'
      <2>1. ~gutted => JobBacked(job[g], files, missed)
            BY <1>0 DEF Claims
      <2>2. ~gutted => JobBacked(job[g], files', missed')
            <3>1. missed \in BOOLEAN /\ missed' \in BOOLEAN /\ (missed => missed')
                  /\ files \subseteq files'
                  BY <1>0 DEF State
            <3>2. JobBacked(job[g], files, missed) => JobBacked(job[g], files', missed')
                  BY <3>1, RestsKept
            <3> QED BY <2>1, <3>2
      <2>3. ~gutted => JobBacked(j, files', missed')
            BY <1>0, <1>3, <1>4, <2>2 DEF JobBacked
      <2> QED BY <1>0, <1>7, <1>8, <2>3, Distinct, ClaimsKept DEF State
<1>10. Reports'
      <2> SUFFICES ASSUME ~missed'
                   PROVE  Reports'
          BY DEF Reports
      <2>1. ~missed /\ meta = job[g].run /\ meta # Empty
            BY <1>0, <1>1, Distinct
      <2>2. \A h \in Goroutine : job[h].at # "write"
            BY <1>0, <2>1 DEF Reports
      <2>3. \A h \in Goroutine : job'[h].at = "write" => h = g
            BY <1>7, <2>2
      <2>4. \A p \in StepName : Runs(p) => Runs(p)'
            <3>1. \A p \in StepName : Doing(job[g], p) => Doing(j, p)
                  BY <1>0, <1>3 DEF Doing
            <3> QED BY <1>7, <3>1 DEF Runs, Goroutine
      <2>5. \A p \in StepName : Holds(j) /\ j.run.phase = p => Runs(p)
            BY <1>0, <1>1, <1>3, <1>6, <2>1 DEF Reports, JobOK
      <2> QED BY <1>0, <1>7, <2>3, <2>4, <2>5, Distinct DEF Reports
<1>11. StepsSerialised'
      <2>1. Busily(j) => Busily(job[g]) /\ j.op = job[g].op
            BY <1>0, <1>3 DEF Busily
      <2> QED BY <1>0, <1>7, <2>1, SerialKept DEF Goroutine
<1> QED BY <1>7, <1>8, <1>9, <1>10, <1>11 DEF CalibrationInv

\* What a job that wrote its change goes on with.
LEMMA ContinuedOK ==
    ASSUME Jobs, NEW g \in Goroutine, job[g].at = "write"
    PROVE  LET j == Continued(job[g])
           IN  /\ JobOK(j) /\ j.at # "write" /\ ~Busily(j)
               /\ j.op \in StepName => g \in Caller
               /\ \A f, m : JobBacked(job[g], f, m) => JobBacked(j, f, m)
               /\ job[g].set \in StepName => g \in Caller /\ j.op = job[g].set /\ j.at = "wait"
<1> DEFINE j == Continued(job[g])
<1>0. JobOK(job[g]) /\ job[g] \in Job
      /\ job[g].op \in {"none", "call", "seed", "scan"} \cup StepName
      /\ (job[g].op \in StepName => g \in Caller) /\ job[g].left \in 0 .. MaxItems
         /\ job[g].set \in Change
      BY JobFacts
<1>1. job[g].op # "none"
      BY <1>0 DEF JobOK, Idle
<1>2. /\ job[g].op = "call" => job[g].set \in {"create", "saveprompts", "saveevals"}
      /\ job[g].op = "seed" => job[g].set \in {"create", "saveprompts", "saveevals", "stamp"}
      /\ job[g].op = "scan" => job[g].set = "lines"
      /\ job[g].op \in StepName => job[g].set \in {job[g].op, Finished[job[g].op], "error"}
      BY <1>0 DEF JobOK
<1>3. "error" \in Outcome
      BY DEF Outcome
<1>4. job[g].set \in StepName => job[g].op = job[g].set
      BY <1>0, <1>1, <1>2, <1>3, Distinct
<1>5. CASE j = Idle /\ job[g].set \notin StepName
      BY <1>5, IdleKeeps, Distinct
<1>6. CASE job[g].op = "scan" /\ j = Scanned(job[g])
      <2>1. JobOK(j) /\ j.op \in {"scan", "none"} /\ ~Holds(j) /\ j.set \in {"lines", "none"}
            BY <1>0, <1>6, ScannedOK
      <2> HIDE DEF j
      <2>2. j.at # "write"
            BY <2>1 DEF Holds
      <2>3. job[g].set \notin StepName
            BY <1>2, <1>6, Distinct
      <2> QED BY <2>1, <2>2, <2>3, Distinct DEF JobBacked, Busily, j
<1>7. CASE /\ job[g].op = "seed" /\ job[g].set # "stamp"
           /\ j = [job[g] EXCEPT !.at = "read", !.set = SeedNext[job[g].set], !.run = None]
      <2> DEFINE s == SeedNext[job[g].set]
      <2>1. s \in {"saveprompts", "saveevals", "stamp"}
            BY <1>2, <1>7 DEF SeedNext
      <2>2. s \in Change
            BY <2>1 DEF Change
      <2>0. j = [job[g] EXCEPT !.at = "read", !.set = s, !.run = None] /\ job[g].op = "seed"
            BY <1>7
      <2> HIDE DEF s, j
      <2>3. IsJob(j, "read", "seed", s, None, job[g].left)
            BY <1>0, <2>0, <2>2, WithAtSetRun
      <2>4. j \in Job /\ j.at = "read" /\ j.op = "seed" /\ j.set = s /\ j.run = None
            BY <2>3 DEF IsJob
      <2>5. ~Holds(j)
            BY <2>4 DEF Holds
      <2>6. JobOK(j)
            BY <2>1, <2>4, <2>5, Distinct DEF JobOK
      <2>7. s \notin Phase
            BY <2>1, Distinct
      <2>8. \A f, m : JobBacked(j, f, m)
            BY <2>4, <2>5, <2>7 DEF JobBacked
      <2>9. j.op \notin StepName /\ job[g].set \notin StepName
            BY <1>2, <1>7, <2>4, Distinct
      <2> QED BY <2>4, <2>6, <2>8, <2>9 DEF Busily, j
<1>8. CASE job[g].set \in StepName /\ j = [job[g] EXCEPT !.at = "wait", !.run = None]
      <2>1. IsJob(j, "wait", job[g].op, job[g].set, None, job[g].left)
            BY <1>0, <1>8, WithAtRun
      <2> HIDE DEF j
      <2>2. j \in Job /\ j.at = "wait" /\ j.op = job[g].op /\ j.set = job[g].op /\ j.run = None
            /\ j.op \in StepName
            BY <1>4, <1>8, <2>1 DEF IsJob
      <2>3. ~Holds(j)
            BY <2>2 DEF Holds
      <2>4. JobOK(j)
            BY <2>2, <2>3, Distinct DEF JobOK
      <2>5. \A f, m : JobBacked(job[g], f, m) => JobBacked(j, f, m)
            BY <1>4, <1>8, <2>2, <2>3 DEF JobBacked
      <2>6. ~Busily(j)
            BY <2>2, Distinct DEF Busily
      <2> QED BY <1>0, <1>4, <1>8, <2>2, <2>4, <2>5, <2>6 DEF j
<1>9. \/ j = Idle /\ job[g].set \notin StepName
      \/ job[g].op = "scan" /\ j = Scanned(job[g])
      \/ /\ job[g].op = "seed" /\ job[g].set # "stamp"
         /\ j = [job[g] EXCEPT !.at = "read", !.set = SeedNext[job[g].set], !.run = None]
      \/ job[g].set \in StepName /\ j = [job[g] EXCEPT !.at = "wait", !.run = None]
      <2>1. \/ job[g].op = "seed" /\ job[g].set # "stamp"
            \/ job[g].set \in StepName
            \/ job[g].op = "scan"
            \/ (job[g].op = "call" \/ job[g].set = "stamp" \/ job[g].set \in Outcome)
               /\ job[g].set \notin StepName
            BY <1>0, <1>1, <1>2, <1>3, Distinct
      <2> QED BY <1>0, <1>1, <2>1, ContinuedIs
<1> QED BY <1>5, <1>6, <1>7, <1>8, <1>9

\* The run that a write leaves is backed if the copy was.
LEMMA ChangedBacked ==
    ASSUME NEW j, JobOK(j), j.at = "write", NEW f, NEW m, JobBacked(j, f, m)
    PROVE  Backed(Changed(j.set, j.run), f, m)
<1>1. j.set # "create" => Holds(j) /\ Backed(j.run, f, m)
      BY DEF JobBacked, Holds
<1>2. /\ j.set = "create" => Changed(j.set, j.run) = [phase |-> "draft", prompts |-> FALSE]
      /\ j.set \in Phase => Changed(j.set, j.run) = [phase |-> j.set, prompts |-> j.run.prompts]
      /\ j.set = "saveprompts" =>
            Changed(j.set, j.run) =
               [phase |-> IF j.run.phase = "draft" THEN "prompts" ELSE j.run.phase,
                prompts |-> TRUE]
      /\ j.set \notin {"create", "saveprompts"} \cup Phase => Changed(j.set, j.run) = j.run
      BY ChangedIs
<1>3. Rests("draft", f, m) /\ Rests("prompts", f, m)
      BY DEF Rests
<1>4. CASE j.set = "create"
      <2>1. Backed([phase |-> "draft", prompts |-> FALSE], f, m)
            BY <1>3 DEF Backed
      <2> QED BY <1>2, <1>4, <2>1
<1>5. CASE j.set \in Phase
      <2>1. Rests(j.set, f, m) /\ (j.run.prompts => "prompts" \in f)
            BY <1>1, <1>5, Distinct DEF JobBacked, Backed
      <2>2. \A b : (b => "prompts" \in f) => Backed([phase |-> j.set, prompts |-> b], f, m)
            BY <2>1 DEF Backed
      <2>3. Backed([phase |-> j.set, prompts |-> j.run.prompts], f, m)
            BY <2>1, <2>2
      <2> QED BY <1>2, <1>5, <2>3
<1>6. CASE j.set = "saveprompts"
      <2> DEFINE p == IF j.run.phase = "draft" THEN "prompts" ELSE j.run.phase
      <2>1. Rests(p, f, m)
            BY <1>1, <1>3, <1>6 DEF Backed
      <2>2. "prompts" \in f
            BY <1>6 DEF JobBacked
      <2> HIDE DEF p
      <2>3. Backed([phase |-> p, prompts |-> TRUE], f, m)
            BY <2>1, <2>2 DEF Backed
      <2> QED BY <1>2, <1>6, <2>3 DEF p
<1>7. CASE j.set \notin {"create", "saveprompts"} \cup Phase
      BY <1>1, <1>2, <1>7
<1> QED BY <1>4, <1>5, <1>6, <1>7

\* The writer finishes: its report is in meta.json, and its worker is gone.
LEMMA WriteKeeps ==
    ASSUME CalibrationInv, NEW g \in Goroutine, Write(g)
    PROVE  CalibrationInv'
<1> DEFINE j == Continued(job[g])
           r == Changed(job[g].set, job[g].run)
<1>0. State /\ Jobs /\ Claims /\ Reports /\ StepsSerialised /\ job[g].at = "write" /\ Becomes(g, j)
      /\ UNCHANGED <<files, missed, gutted>> /\ (meta' = r \/ (meta # Empty /\ meta' = Torn))
      <2>1. State /\ Jobs /\ Claims /\ Reports /\ StepsSerialised
            BY DEF CalibrationInv
      <2> QED BY <2>1, Zenon DEF Write
<1>1. /\ JobOK(j) /\ j.at # "write" /\ ~Busily(j)
      /\ j.op \in StepName => g \in Caller
      /\ \A f, m : JobBacked(job[g], f, m) => JobBacked(j, f, m)
      /\ job[g].set \in StepName => g \in Caller /\ j.op = job[g].set /\ j.at = "wait"
      BY <1>0, ContinuedOK
<1>2. JobOK(job[g]) /\ job[g].op \in {"none", "call", "seed", "scan"} \cup StepName
      /\ job[g].set \in Change
      BY <1>0, JobFacts
<1>3. r \in Run
      BY <1>0, <1>2, ChangedIs
<1> HIDE DEF j
<1>4. Jobs' /\ job'[g] = j /\ \A h \in Goroutine \ {g} : job'[h] = job[h]
      BY <1>0, <1>1, BecomesJobs
<1>5. State'
      BY <1>0, <1>3 DEF State
<1>6. Claims'
      <2>1. ~gutted => JobBacked(job[g], files, missed)
            BY <1>0 DEF Claims
      <2>2. ~gutted => Backed(r, files, missed)
            BY <1>0, <1>2, <2>1, ChangedBacked
      <2>3. ~gutted => JobBacked(j, files, missed)
            BY <1>1, <2>1
      <2>4. missed \in BOOLEAN
            BY <1>0 DEF State
      <2> HIDE DEF r
      <2> QED BY <1>0, <1>4, <2>2, <2>3, <2>4, Distinct, ClaimsKept
<1>7. Reports'
      <2> SUFFICES ASSUME ~missed'
                   PROVE  Reports'
          BY DEF Reports
      <2>1. ~missed /\ meta = Empty /\ meta' = r
            BY <1>0 DEF Reports
      <2>2. \A h \in Goroutine : job'[h].at # "write"
            BY <1>0, <1>1, <1>4, <2>1 DEF Reports
      <2>3. \A p \in StepName : Holds(job[g]) /\ job[g].run.phase = p => Runs(p)
            BY <1>0, <2>1 DEF Reports
      <2>4. ASSUME NEW p \in StepName, r.phase = p
            PROVE  Runs(p)'
            <3>1. CASE job[g].set \in StepName
                  <4>1. r = [phase |-> job[g].set, prompts |-> job[g].run.prompts]
                        BY <1>0, <1>2, <3>1, Distinct, ChangedIs
                  <4>2. p = job[g].set
                        BY <2>4, <4>1
                  <4> QED BY <1>1, <1>4, <3>1, <4>2 DEF Runs, Doing
            <3>2. CASE job[g].set \in Outcome
                  <4>1. r = [phase |-> job[g].set, prompts |-> job[g].run.prompts]
                        BY <1>0, <1>2, <3>2, Distinct, ChangedIs
                  <4>2. p = job[g].set
                        BY <2>4, <4>1
                  <4> QED BY <3>2, <4>2, Distinct
            <3>3. CASE job[g].set = "create"
                  <4>1. r = [phase |-> "draft", prompts |-> FALSE]
                        BY <1>0, <1>2, <3>3, ChangedIs
                  <4>2. p = "draft"
                        BY <2>4, <4>1
                  <4> QED BY <4>2 DEF StepName
            <3>4. CASE job[g].set \notin StepName \cup Outcome \cup {"create"}
                  <4>1. job[g].set \notin Phase
                        BY <1>2, <3>4 DEF Change, Phase, StepName, Outcome
                  <4>2. job[g].run.phase = p
                        <5>1. CASE job[g].set = "saveprompts"
                              <6>1. r = [phase |-> IF job[g].run.phase = "draft" THEN "prompts"
                                                    ELSE job[g].run.phase, prompts |-> TRUE]
                                    BY <1>0, <1>2, <5>1, ChangedIs
                              <6>2. r.phase = IF job[g].run.phase = "draft" THEN "prompts"
                                    ELSE job[g].run.phase
                                    BY <6>1
                              <6>3. p # "prompts"
                                    BY DEF StepName
                              <6> QED BY <2>4, <6>2, <6>3
                        <5>2. CASE job[g].set # "saveprompts"
                              <6>1. r = job[g].run
                                    BY <1>0, <1>2, <3>4, <4>1, <5>2, ChangedIs
                              <6> QED BY <2>4, <6>1
                        <5> QED BY <5>1, <5>2
                  <4>3. Runs(p)
                        BY <1>0, <2>3, <3>4, <4>2 DEF Holds
                  <4>4. job[g].op \notin StepName
                        <5>1. job[g].op \in StepName =>
                              job[g].set \in {job[g].op, Finished[job[g].op], "error"}
                              BY <1>2 DEF JobOK
                        <5>2. "error" \in Outcome
                              BY DEF Outcome
                        <5> QED BY <3>4, <5>1, <5>2, Distinct
                  <4>5. \A h \in Caller : Doing(job[h], p) => h # g
                        BY <4>4 DEF Doing
                  <4> QED BY <1>4, <4>3, <4>5 DEF Runs, Goroutine
            <3> QED BY <3>1, <3>2, <3>3, <3>4
      <2> HIDE DEF r
      <2> QED BY <2>1, <2>2, <2>4 DEF Reports
<1>8. StepsSerialised'
      BY <1>0, <1>1, <1>4, SerialKept DEF Goroutine
<1> QED BY <1>4, <1>5, <1>6, <1>7, <1>8 DEF CalibrationInv

-----------------------------------------------------------------------------
\* The workers.
LEMMA WorkerFacts ==
    ASSUME Jobs, NEW g \in Goroutine,
           job[g].at = "wait" \/ (job[g].op \in StepName /\ job[g].at = "work")
    PROVE  /\ job[g].op \in StepName /\ job[g].set = job[g].op /\ g \in Caller /\ job[g].run = None
           /\ job[g].left \in 0 .. MaxItems /\ job[g] \in Job
<1>1. JobOK(job[g]) /\ job[g].op \in {"none", "call", "seed", "scan"} \cup StepName
      /\ (job[g].op \in StepName => g \in Caller) /\ job[g].left \in 0 .. MaxItems /\ job[g] \in Job
      BY JobFacts
<1>2. job[g].op # "none"
      BY <1>1 DEF JobOK, Idle
<1>3. job[g].op \in StepName
      BY <1>1, <1>2 DEF JobOK
<1>4. job[g].set = job[g].op /\ job[g].run = None
      BY <1>1, <1>3 DEF JobOK, Holds
<1> QED BY <1>1, <1>3, <1>4

\* A worker starts its program, goes on with it, or is about to report.
LEMMA WorkerKeeps ==
    ASSUME CalibrationInv, NEW g \in Goroutine, job[g].op \in StepName,
           job[g].at = "work" \/ (job[g].at = "wait" /\ LockFree(g)),
           NEW j, NEW a, NEW s, NEW n, IsJob(j, a, job[g].op, s, None, n),
           (a = "work" /\ s = job[g].op) \/ (a = "read" /\ s \in {Finished[job[g].op], "error"}),
           Becomes(g, j), files \subseteq files', files' \subseteq File, UNCHANGED <<meta, gutted>>,
           missed' \in BOOLEAN, missed => missed', ~gutted => Rests(s, files', missed')
    PROVE  CalibrationInv'
<1>1. Jobs
      BY DEF CalibrationInv
<1>2. job[g].set = job[g].op /\ g \in Caller
      BY <1>1, WorkerFacts
<1>3. j \in Job /\ j.at = a /\ j.op = job[g].op /\ j.set = s /\ j.run = None
      BY DEF IsJob
<1>4. ~Holds(j)
      BY <1>3 DEF Holds
<1>5. s # job[g].op => a = "read"
      OBVIOUS
<1>6. "error" \in Outcome /\ Finished[job[g].op] \in Outcome
      BY Distinct DEF Outcome
<1>7. s \in {job[g].op, Finished[job[g].op], "error"} /\ s \notin {"create", "saveprompts"}
      BY <1>6, Distinct
<1>8. a = "read" => s # job[g].op /\ s \in Outcome
      BY <1>6, Distinct
<1>9. JobOK(j)
      BY <1>3, <1>4, <1>5, <1>7, <1>8, Distinct DEF JobOK
<1>10. ~gutted => JobBacked(j, files', missed')
      BY <1>3, <1>4, <1>7 DEF JobBacked
<1>11. \A p \in StepName : Doing(job[g], p) => Doing(j, p)
      BY <1>3, <1>8 DEF Doing
<1>12. Busily(j) => /\ j.op = job[g].op
                    /\ Busily(job[g]) \/ (g \in Caller /\ LockFree(g))
      BY <1>2, <1>3 DEF Busily
<1>13. j.at # "write"
      BY <1>3
<1> QED BY <1>2, <1>3, <1>9, <1>10, <1>11, <1>12, <1>13, StepKept

\* The scanner of llama-imatrix's output starts with it.
LEMMA StartKeeps ==
    ASSUME CalibrationInv, NEW g \in Goroutine, Start(g)
    PROVE  CalibrationInv'
<1>0. State /\ Jobs /\ Claims /\ Reports /\ StepsSerialised /\ job[g].at = "wait" /\ LockFree(g)
      /\ UNCHANGED <<meta, files, missed, gutted>>
      BY DEF CalibrationInv, Start
<1>1. job[g].op \in StepName /\ job[g].set = job[g].op /\ g \in Caller /\ job[g].run = None
      /\ job[g].left \in 0 .. MaxItems /\ job[g] \in Job
      BY <1>0, WorkerFacts
<1> DEFINE j == [job[g] EXCEPT !.at = "work"]
<1>2. IsJob(j, "work", job[g].op, job[g].op, None, job[g].left)
      BY <1>1, WithAt
<1>3. ~gutted => JobBacked(job[g], files, missed)
      BY <1>0 DEF Claims
<1>4. ~gutted => Rests(job[g].op, files, missed)
      BY <1>1, <1>3, Distinct DEF JobBacked
<1>5. CASE job[g].op # "imatrix"
      <2>1. Becomes(g, j)
            BY <1>5 DEF Start
      <2> HIDE DEF j
      <2> QED BY <1>0, <1>1, <1>2, <1>4, <2>1, WorkerKeeps DEF State
<1>6. CASE job[g].op = "imatrix"
      <2>1. PICK s \in Scanner, n \in 0 .. MaxItems :
                   job' = [job EXCEPT ![g].at = "work",
                              ![s] = [Idle EXCEPT !.at = "work", !.op = "scan",
                                                  !.set = "lines", !.left = n]]
            BY <1>6 DEF Start
      <2> DEFINE k == [Idle EXCEPT !.at = "work", !.op = "scan", !.set = "lines", !.left = n]
      <2>2. IsJob(k, "work", "scan", "lines", None, n)
            <3>1. "lines" \in Change /\ Idle \in Job /\ Idle.run = None
                  BY IdleOK, Zero DEF Change
            <3> QED BY <3>1, WithAtOpSetLeft
      <2>3. s \in Goroutine /\ s \notin Caller /\ s # g
            BY <1>1, CalibrationAssumption DEF Goroutine
      <2>4. job' = [job EXCEPT ![g] = j, ![s] = k]
            BY <2>1
      <2> HIDE DEF j, k
      <2>5. /\ job' = [h \in Goroutine |-> job'[h]] /\ job'[g] = j /\ job'[s] = k
            /\ \A h \in Goroutine \ {g, s} : job'[h] = job[h]
            BY <1>0, <2>3, <2>4 DEF Jobs
      <2>6. JobOK(j) /\ ~Holds(j)
            <3>1. j \in Job /\ j.at = "work" /\ j.op = job[g].op /\ j.set = job[g].op
                  /\ j.run = None
                  BY <1>2 DEF IsJob
            <3> QED BY <1>1, <3>1, Distinct DEF JobOK, Holds
      <2>7. JobOK(k) /\ ~Holds(k)
            <3>1. k \in Job /\ k.at = "work" /\ k.op = "scan" /\ k.set = "lines" /\ k.run = None
                  BY <2>2 DEF IsJob
            <3> QED BY <3>1, Distinct DEF JobOK, Holds
      <2>8. k.op \notin StepName /\ k.set \notin Phase /\ k.at # "write" /\ k.set # "saveprompts"
            BY <2>2, Distinct DEF IsJob
      <2>9. j.op = job[g].op /\ j.set = job[g].set /\ j.at = "work"
            BY <1>1, <1>2 DEF IsJob
      <2>10. Jobs'
            BY <1>0, <1>1, <2>3, <2>5, <2>6, <2>7, <2>8 DEF Jobs
      <2>11. State'
            BY <1>0 DEF State
      <2>12. Claims'
            <3>1. ~gutted => JobBacked(j, files, missed)
                  BY <1>3, <2>6, <2>9 DEF JobBacked
            <3>2. JobBacked(k, files, missed)
                  BY <2>7, <2>8 DEF JobBacked
            <3> QED BY <1>0, <2>5, <3>1, <3>2 DEF Claims
      <2>13. Reports'
            <3>1. \A h \in Goroutine : job'[h].at = "write" => job'[h] = job[h]
                  BY <2>5, <2>8, <2>9
            <3>2. \A p \in StepName : Doing(job[g], p) => Doing(j, p)
                  BY <2>9 DEF Doing
            <3>3. \A h \in Caller, p \in StepName : Doing(job[h], p) => Doing(job'[h], p)
                  BY <2>3, <2>5, <3>2 DEF Goroutine
            <3> QED BY <1>0, <3>1, <3>3, ReportsKept
      <2>14. StepsSerialised'
            <3>1. \A h \in Caller \ {g} : job'[h] = job[h]
                  BY <2>3, <2>5 DEF Goroutine
            <3> QED BY <1>0, <1>1, <2>5, <2>9, <3>1, SerialBegins
      <2> QED BY <2>10, <2>11, <2>12, <2>13, <2>14 DEF CalibrationInv
<1> QED BY <1>5, <1>6

\* A worker that is about to report.
LEMMA EndsIs ==
    ASSUME Jobs, NEW g \in Goroutine,
           job[g].at = "wait" \/ (job[g].op \in StepName /\ job[g].at = "work"),
           NEW o \in Outcome
    PROVE  IsJob(Ends(g, o), "read", job[g].op, o, None, job[g].left)
<1>1. job[g] \in Job /\ job[g].run = None /\ o \in Change
      BY WorkerFacts DEF Change
<1> DEFINE j == Ends(g, o)
<1>2. j = [job[g] EXCEPT !.at = "read", !.set = o]
      BY DEF Ends
<1> HIDE DEF j
<1>3. IsJob(j, "read", job[g].op, o, None, job[g].left)
      BY <1>1, <1>2, WithAtSet
<1> QED BY <1>3 DEF j

\* A worker about to report an error has nothing to show for it.
LEMMA ProgramFailsKeeps ==
    ASSUME CalibrationInv, NEW g \in Goroutine, ProgramFails(g)
    PROVE  CalibrationInv'
<1>0. State /\ Jobs /\ UNCHANGED <<meta, files, missed, gutted>> /\ Becomes(g, Ends(g, "error"))
      /\ ((job[g].op \in StepName /\ job[g].at = "work") \/ (job[g].at = "wait" /\ LockFree(g)))
      <2>1. State /\ Jobs
            BY DEF CalibrationInv
      <2> QED BY <2>1, Zenon DEF ProgramFails
<1>1. job[g].op \in StepName
      BY <1>0, WorkerFacts
<1>2. IsJob(Ends(g, "error"), "read", job[g].op, "error", None, job[g].left)
      <2>1. "error" \in Outcome
            BY DEF Outcome
      <2> QED BY <1>0, <2>1, EndsIs
<1>3. Rests("error", files', missed')
      BY DEF Rests
<1> QED BY <1>0, <1>1, <1>2, <1>3, WorkerKeeps DEF State

\* The imatrix is there before its phase is written.
LEMMA ImatrixEndsKeeps ==
    ASSUME CalibrationInv, NEW g \in Goroutine, ImatrixEnds(g)
    PROVE  CalibrationInv'
<1>0. State /\ Jobs /\ UNCHANGED <<meta, missed, gutted>> /\ Becomes(g, Ends(g, "imatrix-ok"))
      /\ job[g].op = "imatrix" /\ job[g].at = "work" /\ "prompts" \in files
         /\ files' = files \cup {"imatrix"}
      BY DEF CalibrationInv, ImatrixEnds
<1>1. job[g].op \in StepName /\ "imatrix-ok" \in Outcome /\ Finished[job[g].op] = "imatrix-ok"
      BY <1>0 DEF StepName, Outcome, Finished
<1>2. IsJob(Ends(g, "imatrix-ok"), "read", job[g].op, "imatrix-ok", None, job[g].left)
      BY <1>0, <1>1, EndsIs
<1>3. Rests("imatrix-ok", files', missed')
      BY <1>0 DEF Rests
<1>4. files \subseteq files' /\ files' \subseteq File /\ missed' \in BOOLEAN
      BY <1>0 DEF State, File
<1> QED BY <1>0, <1>1, <1>2, <1>3, <1>4, WorkerKeeps

\* So are the quants, of the imatrix that the worker found.
LEMMA QuantizeEndsKeeps ==
    ASSUME CalibrationInv, NEW g \in Goroutine, QuantizeEnds(g)
    PROVE  CalibrationInv'
<1>0. State /\ Jobs /\ UNCHANGED <<meta, missed, gutted>>
      /\ job[g].op = "quantize" /\ job[g].at = "work" /\ "imatrix" \in files
      BY DEF CalibrationInv, QuantizeEnds
<1>1. job[g].op \in StepName /\ "quantize-ok" \in Outcome /\ Finished[job[g].op] = "quantize-ok"
      BY <1>0 DEF StepName, Outcome, Finished
<1>2. job[g].set = "quantize" /\ job[g] \in Job /\ job[g].left \in 0 .. MaxItems
      /\ job[g].run = None
      BY <1>0, <1>1, WorkerFacts
<1>3. ~gutted => Rests("quantize", files, missed)
      BY <1>0, <1>1, <1>2, Distinct DEF JobBacked, CalibrationInv, Claims
<1>4. ASSUME job[g].left > 1, Becomes(g, [job[g] EXCEPT !.left = @ - 1]), UNCHANGED files
      PROVE  CalibrationInv'
      <2> DEFINE n == job[g].left - 1
                 j == [job[g] EXCEPT !.left = n]
      <2>1. n \in 0 .. MaxItems
            BY <1>2, <1>4, CalibrationAssumption
      <2>2. Becomes(g, j)
            BY <1>4
      <2> HIDE DEF n
      <2>3. IsJob(j, "work", job[g].op, "quantize", None, n)
            BY <1>0, <1>2, <2>1, WithLeft
      <2> HIDE DEF j
      <2> QED BY <1>0, <1>1, <1>3, <1>4, <2>2, <2>3, WorkerKeeps DEF State
<1>5. ASSUME Becomes(g, Ends(g, "quantize-ok")), files' = files \cup {"quants"}
      PROVE  CalibrationInv'
      <2>1. IsJob(Ends(g, "quantize-ok"), "read", job[g].op, "quantize-ok", None, job[g].left)
            BY <1>0, <1>1, EndsIs
      <2>2. ~gutted => Rests("quantize-ok", files', missed')
            BY <1>0, <1>3, <1>5 DEF Rests
      <2>3. files \subseteq files' /\ files' \subseteq File /\ missed' \in BOOLEAN
            BY <1>0, <1>5 DEF State, File
      <2> QED BY <1>0, <1>1, <1>5, <2>1, <2>2, <2>3, WorkerKeeps
<1> QED BY <1>4, <1>5 DEF QuantizeEnds

\* So are the results, unless they could not be written.
LEMMA CandidateEndsKeeps ==
    ASSUME CalibrationInv, NEW g \in Goroutine, CandidateEnds(g)
    PROVE  CalibrationInv'
<1> DEFINE n == job[g].left - 1
           k == [job[g] EXCEPT !.left = n]
           j == IF job[g].left > 1 THEN k ELSE Ends(g, "eval-ok")
<1>0. State /\ Jobs /\ UNCHANGED <<meta, gutted>> /\ job[g].op = "eval" /\ job[g].at = "work"
      /\ Becomes(g, j)
      /\ ((files' = files \cup {"results"} /\ UNCHANGED missed)
         \/ (missed' = TRUE /\ UNCHANGED files))
      <2>1. State /\ Jobs
            BY DEF CalibrationInv
      <2>2. Becomes(g, IF job[g].left > 1 THEN [job[g] EXCEPT !.left = @ - 1]
            ELSE Ends(g, "eval-ok"))
            BY DEF CandidateEnds
      <2>3. (IF job[g].left > 1 THEN [job[g] EXCEPT !.left = @ - 1] ELSE Ends(g, "eval-ok")) = j
            OBVIOUS
      <2>4. Becomes(g, j)
            BY <2>2, <2>3, Zenon
      <2> HIDE DEF j
      <2>5. UNCHANGED <<meta, gutted>> /\ job[g].op = "eval" /\ job[g].at = "work"
            BY DEF CandidateEnds
      <2>6. ((files' = files \cup {"results"} /\ UNCHANGED missed)
            \/ (missed' = TRUE /\ UNCHANGED files))
            BY Zenon DEF CandidateEnds
      <2> QED BY <2>1, <2>4, <2>5, <2>6
<1>1. job[g].op \in StepName /\ "eval-ok" \in Outcome /\ Finished[job[g].op] = "eval-ok"
      BY <1>0 DEF StepName, Outcome, Finished
<1>2. job[g].set = "eval" /\ job[g] \in Job /\ job[g].left \in 0 .. MaxItems /\ job[g].run = None
      BY <1>0, <1>1, WorkerFacts
<1>3. ~gutted => Rests("eval", files, missed)
      BY <1>0, <1>1, <1>2, Distinct DEF JobBacked, CalibrationInv, Claims
<1>4. /\ files \subseteq files' /\ files' \subseteq File /\ missed' \in BOOLEAN
         /\ (missed => missed')
      /\ "results" \in files' \/ missed'
      BY <1>0 DEF State, File
<1>5. ~gutted => Rests("eval", files', missed') /\ Rests("eval-ok", files', missed')
      BY <1>3, <1>4 DEF Rests
<1>6. CASE job[g].left > 1
      <2>1. n \in 0 .. MaxItems
            BY <1>2, <1>6, CalibrationAssumption
      <2>2. Becomes(g, k)
            BY <1>0, <1>6
      <2> HIDE DEF n
      <2>3. IsJob(k, "work", job[g].op, "eval", None, n)
            BY <1>0, <1>2, <2>1, WithLeft
      <2> HIDE DEF k, j
      <2> QED BY <1>0, <1>1, <1>4, <1>5, <2>2, <2>3, WorkerKeeps
<1>7. CASE ~(job[g].left > 1)
      <2>1. IsJob(Ends(g, "eval-ok"), "read", job[g].op, "eval-ok", None, job[g].left)
            BY <1>0, <1>1, EndsIs
      <2>2. Becomes(g, Ends(g, "eval-ok"))
            BY <1>0, <1>7
      <2> HIDE DEF j
      <2> QED BY <1>0, <1>1, <1>4, <1>5, <2>1, <2>2, WorkerKeeps
<1> QED BY <1>6, <1>7

\* The scanner takes the next line, or returns.
LEMMA ScanLineKeeps ==
    ASSUME CalibrationInv, NEW g \in Goroutine, ScanLine(g)
    PROVE  CalibrationInv'
<1>0. State /\ Jobs /\ job[g].op = "scan" /\ UNCHANGED <<meta, files, missed, gutted>>
      /\ Becomes(g, IF job[g].left > 0 THEN [job[g] EXCEPT !.at = "read"] ELSE Idle)
      BY DEF CalibrationInv, ScanLine
<1>1. JobOK(job[g]) /\ job[g] \in Job /\ job[g].set = "lines" /\ job[g].run \in Run \cup {None}
      /\ job[g].at = "work"
      BY <1>0, JobFacts DEF JobOK, ScanLine
<1>2. job[g].op \notin StepName /\ job[g].set \notin Phase
      BY <1>0, <1>1, Distinct
<1>3. job[g].run = None
      BY <1>1 DEF JobOK, Holds
<1>4. \A p \in StepName : ~Doing(job[g], p)
      BY <1>2 DEF Doing
<1>5. ASSUME Becomes(g, [job[g] EXCEPT !.at = "read"])
      PROVE  CalibrationInv'
      <2> DEFINE j == [job[g] EXCEPT !.at = "read"]
      <2>1. Becomes(g, j)
            BY <1>5
      <2>2. IsJob(j, "read", "scan", "lines", None, job[g].left)
            BY <1>0, <1>1, <1>3, WithAt
      <2> HIDE DEF j
      <2>3. j \in Job /\ j.at = "read" /\ j.op = "scan" /\ j.set = "lines" /\ j.run = None
            BY <2>2 DEF IsJob
      <2>4. ~Holds(j)
            BY <2>3 DEF Holds
      <2>5. JobOK(j)
            BY <2>3, <2>4, Distinct DEF JobOK
      <2>6. \A f, m : JobBacked(j, f, m)
            BY <1>1, <1>2, <2>3, <2>4 DEF JobBacked
      <2>7. j.op \notin StepName /\ ~Busily(j)
            BY <1>0, <1>2, <2>3 DEF Busily
      <2> QED BY <1>0, <1>4, <2>1, <2>3, <2>5, <2>6, <2>7, StepKept DEF State
<1>6. ASSUME Becomes(g, Idle)
      PROVE  CalibrationInv'
      <2>1. Idle.op \notin StepName /\ Idle.at # "write"
            BY IdleKeeps, Distinct
      <2> QED BY <1>0, <1>4, <1>6, <2>1, IdleKeeps, StepKept DEF State
<1> QED BY <1>0, <1>5, <1>6

-----------------------------------------------------------------------------
\* Deletion and the end of the program.
LEMMA IdleWhenNotBusy ==
    ASSUME Jobs, NEW g \in Goroutine, g \notin Busy
    PROVE  job[g] = Idle
BY JobFacts DEF Busy

\* A deletion with nobody at work leaves nobody with a copy.
LEMMA DeleteKeeps ==
    ASSUME CalibrationInv, Delete
    PROVE  CalibrationInv'
<1>0. State /\ Jobs /\ Claims /\ Reports /\ StepsSerialised /\ UNCHANGED <<job, missed>>
      /\ files' = {} /\ gutted' = (gutted \/ Busy # {})
      /\ meta' = (IF \E g \in Goroutine : job[g].at = "write" THEN meta ELSE Missing)
      BY DEF CalibrationInv, Delete, RemoveAll
<1>1. meta' = meta \/ (meta' = Missing /\ \A g \in Goroutine : job[g].at # "write")
      BY <1>0
<1>2. Jobs' /\ StepsSerialised'
      BY <1>0 DEF Jobs, StepsSerialised, Working
<1>3. State'
      BY <1>0, <1>1 DEF State
<1>4. Claims'
      <2> SUFFICES ASSUME ~gutted'
                   PROVE  Claims'
          BY DEF Claims
      <2>1. Busy = {}
            BY <1>0
      <2>2. \A g \in Goroutine : job[g] = Idle
            BY <1>0, <2>1, IdleWhenNotBusy
      <2>3. meta' \notin Run
            BY <1>0, <2>2, IdleKeeps, Distinct
      <2> QED BY <1>0, <2>2, <2>3, IdleKeeps DEF Claims
<1>5. Reports'
      BY <1>0, <1>1, Distinct, ReportsKept
<1> QED BY <1>2, <1>3, <1>4, <1>5 DEF CalibrationInv

\* So does the clean-up of a seed that failed.
LEMMA SeedDeletesKeeps ==
    ASSUME CalibrationInv, NEW g \in Goroutine, SeedDeletes(g)
    PROVE  CalibrationInv'
<1>0. State /\ Jobs /\ Claims /\ Reports /\ StepsSerialised /\ UNCHANGED missed
      /\ job[g].at = "delete" /\ Becomes(g, Idle)
      /\ files' = {} /\ gutted' = (gutted \/ Busy # {g})
      /\ meta' = (IF \E h \in Goroutine : job[h].at = "write" THEN meta ELSE Missing)
      BY DEF CalibrationInv, SeedDeletes, RemoveAll
<1>1. meta' = meta \/ (meta' = Missing /\ \A h \in Goroutine : job[h].at # "write")
      BY <1>0
<1>2. Idle.op \notin StepName /\ Idle.at # "write"
      BY IdleKeeps, Distinct
<1>3. Jobs' /\ job'[g] = Idle /\ \A h \in Goroutine \ {g} : job'[h] = job[h]
      BY <1>0, <1>2, IdleKeeps, BecomesJobs
<1>4. State'
      BY <1>0, <1>1 DEF State
<1>5. Claims'
      <2> SUFFICES ASSUME ~gutted'
                   PROVE  Claims'
          BY DEF Claims
      <2>1. Busy = {g}
            BY <1>0
      <2>2. \A h \in Goroutine \ {g} : job[h] = Idle
            BY <1>0, <2>1, IdleWhenNotBusy
      <2>3. \A h \in Goroutine : job'[h] = Idle /\ job[h].at # "write"
            BY <1>0, <1>2, <1>3, <2>2
      <2>4. meta' \notin Run
            BY <1>0, <2>3, Distinct
      <2> QED BY <2>3, <2>4, IdleKeeps DEF Claims
<1>6. Reports'
      <2>1. job[g].op \notin StepName
            BY <1>0, JobFacts DEF JobOK
      <2>2. \A h \in Goroutine : job'[h].at = "write" => job'[h] = job[h]
            BY <1>2, <1>3
      <2>3. \A h \in Caller, p \in StepName : Doing(job[h], p) => Doing(job'[h], p)
            BY <1>3, <2>1 DEF Doing, Goroutine
      <2> QED BY <1>0, <1>1, <2>2, <2>3, Distinct, ReportsKept
<1>7. StepsSerialised'
      BY <1>0, <1>3, IdleKeeps, SerialKept DEF Goroutine
<1> QED BY <1>3, <1>4, <1>5, <1>6, <1>7 DEF CalibrationInv

\* After a restart nobody holds a copy; what was running is missed.
LEMMA QuitKeeps ==
    ASSUME CalibrationInv, Quit
    PROVE  CalibrationInv'
<1>0. State /\ Jobs /\ Claims /\ Reports /\ StepsSerialised
      /\ job' = [g \in Goroutine |-> Idle] /\ missed' = TRUE /\ UNCHANGED <<meta, files, gutted>>
      BY DEF CalibrationInv, Quit
<1>1. \A g \in Goroutine : job'[g] = Idle
      BY <1>0
<1>2. Idle.op \notin StepName
      BY IdleKeeps, Distinct
<1>3. Jobs'
      BY <1>0, <1>1, <1>2, IdleKeeps DEF Jobs
<1>4. State'
      BY <1>0 DEF State
<1>5. Claims'
      <2>1. missed \in BOOLEAN /\ missed' \in BOOLEAN /\ (missed => missed')
            BY <1>0 DEF State
      <2>2. files \subseteq files'
            BY <1>0
      <2>3. \A r : Backed(r, files, missed) => Backed(r, files', missed')
            BY <2>1, <2>2, RestsKept
      <2> QED BY <1>0, <1>1, <2>3, IdleKeeps DEF Claims
<1>6. Reports'
      BY <1>0 DEF Reports
<1>7. StepsSerialised'
      BY <1>0, <1>1, IdleKeeps, SerialKept DEF Goroutine
<1> QED BY <1>3, <1>4, <1>5, <1>6, <1>7 DEF CalibrationInv

\* The invariant holds initially.
LEMMA CalibrationStarts == Init => CalibrationInv
<1> SUFFICES ASSUME Init
             PROVE  CalibrationInv
    OBVIOUS
<1>0. meta = None /\ files = {} /\ job = [g \in Goroutine |-> Idle] /\ missed = FALSE
      /\ gutted = FALSE
      BY DEF Init
<1>1. \A g \in Goroutine : job[g] = Idle
      BY <1>0
<1>2. Idle.op \notin StepName /\ Idle.at # "write"
      BY IdleKeeps, Distinct
<1>3. State
      BY <1>0 DEF State
<1>4. Jobs
      BY <1>0, <1>1, <1>2, IdleKeeps DEF Jobs
<1>5. Claims
      BY <1>0, <1>1, Distinct, IdleKeeps DEF Claims
<1>6. Reports
      BY <1>0, <1>1, <1>2, Distinct DEF Reports
<1>7. StepsSerialised
      BY <1>1, <1>2 DEF StepsSerialised, Working, Goroutine
<1> QED BY <1>3, <1>4, <1>5, <1>6, <1>7 DEF CalibrationInv

\* Every step keeps the invariant.
LEMMA CalibrationSteps == CalibrationInv /\ [Next]_vars => CalibrationInv'
<1> SUFFICES ASSUME CalibrationInv, [Next]_vars
             PROVE  CalibrationInv'
    OBVIOUS
<1>1. CASE UNCHANGED vars
      BY <1>1 DEF vars, CalibrationInv, State, Jobs, Claims, Reports, Runs, StepsSerialised, Working
<1>2. ASSUME NEW g \in Caller, Create(g) \/ Ask(g)
      PROVE  CalibrationInv'
      BY <1>2, CreateKeeps, AskKeeps
<1>3. ASSUME NEW g \in Goroutine, Proceed(g)
      PROVE  CalibrationInv'
      BY <1>3, ReadKeeps, ReadFailsKeeps, SaveFileKeeps, TruncateKeeps, WriteKeeps, StartKeeps,
         ProgramFailsKeeps, ImatrixEndsKeeps, QuantizeEndsKeeps, CandidateEndsKeeps, ScanLineKeeps,
         SeedDeletesKeeps DEF Proceed
<1>4. ASSUME NEW g \in Goroutine, WriteFails(g)
      PROVE  CalibrationInv'
      BY <1>4, WriteFailsKeeps
<1>5. CASE Delete
      BY <1>5, DeleteKeeps
<1>6. CASE Quit
      BY <1>6, QuitKeeps
<1> QED BY <1>1, <1>2, <1>3, <1>4, <1>5, <1>6 DEF Next

-----------------------------------------------------------------------------
\* Each goroutine is one of its kind, every copy of the run is backed by the
\* files, and a step that is reported to run has a worker that will report.
THEOREM CalibrationInvariant == Spec => []CalibrationInv
<1> QED BY CalibrationStarts, CalibrationSteps, PTL DEF Spec

\* The type invariant: a goroutine holds a copy of a run exactly when it is
\* about to write one it read.
THEOREM CalibrationTypeCorrect == Spec => []TypeOK
<1>1. CalibrationInv => TypeOK
      <2> SUFFICES ASSUME CalibrationInv
                   PROVE  TypeOK
          OBVIOUS
      <2>1. State /\ Jobs
            BY DEF CalibrationInv
      <2>2. \A g \in Goroutine : job[g] \in Job
            BY <2>1, JobFacts
      <2>3. job \in [Goroutine -> Job]
            BY <2>1, <2>2 DEF Jobs
      <2>4. \A g \in Goroutine : job[g].run # None <=> Holds(job[g])
            BY <2>1, Distinct DEF Jobs, JobOK
      <2> QED BY <2>1, <2>3, <2>4 DEF TypeOK, State, Holds
<1> QED BY <1>1, CalibrationInvariant, PTL

\* Whatever read-modify-writes of meta.json overlap, it never claims a file
\* that is not there.
THEOREM CalibrationClaimsAreBacked == Spec => []ClaimsAreBacked
<1>1. CalibrationInv => ClaimsAreBacked
      <2> SUFFICES ASSUME CalibrationInv, meta \in Run, ~gutted, missed => meta.phase # "eval-ok"
                   PROVE  Claimed(meta) \subseteq files
          BY DEF ClaimsAreBacked
      <2>1. meta.prompts => "prompts" \in files
            BY DEF CalibrationInv, Claims, Backed
      <2>2. Rests(meta.phase, files, missed)
            BY DEF CalibrationInv, Claims, Backed
      <2> DEFINE p == meta.phase
                 rest == CASE p \in {"imatrix-ok", "quantize"} -> {"prompts", "imatrix"}
                           [] p \in {"quantize-ok", "eval"} -> {"prompts", "imatrix", "quants"}
                           [] p = "eval-ok" -> {"prompts", "imatrix", "quants", "results"}
                           [] OTHER -> {}
      <2>3. Claimed(meta) = (IF meta.prompts THEN {"prompts"} ELSE {}) \cup rest
            BY Zenon DEF Claimed
      <2>4. (IF meta.prompts THEN {"prompts"} ELSE {}) \subseteq files
            BY <2>1
      <2>5. rest \subseteq files
            <3> HIDE DEF p
            <3>1. p \in {"imatrix-ok", "quantize"} =>
                  p \notin {"quantize-ok", "eval"} /\ p # "eval-ok"
                  OBVIOUS
            <3>2. p \in {"quantize-ok", "eval"} =>
                  p \notin {"imatrix-ok", "quantize"} /\ p # "eval-ok"
                  OBVIOUS
            <3>3. p \in {"imatrix-ok", "quantize"} => rest = {"prompts", "imatrix"}
                  BY <3>1, Zenon
            <3>4. p \in {"quantize-ok", "eval"} => rest = {"prompts", "imatrix", "quants"}
                  BY <3>2, Zenon
            <3>5. p = "eval-ok" => rest = {"prompts", "imatrix", "quants", "results"}
                  <4>1. p = "eval-ok" => p \notin {"imatrix-ok", "quantize"}
                        /\ p \notin {"quantize-ok", "eval"}
                        OBVIOUS
                  <4> QED BY <4>1, Zenon
            <3>6. p \notin {"imatrix-ok", "quantize"} /\ p \notin {"quantize-ok", "eval"}
                  /\ p # "eval-ok" =>
                     rest = {}
                  BY Zenon
            <3>7. Rests(p, files, missed) /\ (missed => p # "eval-ok")
                  BY <2>2 DEF p
            <3> HIDE DEF rest
            <3> QED BY <3>3, <3>4, <3>5, <3>6, <3>7 DEF Rests
      <2> HIDE DEF rest
      <2> QED BY <2>3, <2>4, <2>5
<1> QED BY <1>1, CalibrationInvariant, PTL

\* A phase that says a step is running is the phase of a worker that has yet
\* to report, as long as no update of meta.json was lost.
THEOREM CalibrationRunningMeansRunning == Spec => []RunningMeansRunning
<1>1. CalibrationInv => RunningMeansRunning
      <2> SUFFICES ASSUME CalibrationInv, meta \in Run, meta.phase \in StepName, ~missed
                   PROVE  \E g \in Caller : job[g].op = meta.phase
                          /\ (job[g].at = "wait" \/ Working(g))
          BY DEF RunningMeansRunning
      <2>1. Runs(meta.phase)
            BY DEF CalibrationInv, Reports
      <2> QED BY <2>1 DEF Runs, Doing, Working
<1> QED BY <1>1, CalibrationInvariant, PTL

\* One llama-imatrix and one evaluation at a time.
THEOREM CalibrationStepsSerialised == Spec => []StepsSerialised
<1>1. CalibrationInv => StepsSerialised
      BY DEF CalibrationInv
<1> QED BY <1>1, CalibrationInvariant, PTL

-----------------------------------------------------------------------------
(* LocalServe. *)

\* The invariant holds initially.
LEMMA LocalServeInit == ServeInit => LocalServeInv
<1> SUFFICES ASSUME ServeInit PROVE LocalServeInv
  OBVIOUS
<1> USE LocalServeAssumption
<1>1. NoCall \in Call /\ Unborn \in Child
  <2>1. 0 \in 0 .. MaxServers
    OBVIOUS
  <2>2. QED
    BY <2>1 DEF NoCall, Unborn, Call, Child
<1>2. ServeTypeOK
  <2>1. 0 \in 0 .. MaxServers /\ NoModel \in Model \cup {NoModel}
    OBVIOUS
  <2>2. call \in [Frontend -> Call] /\ server \in [Server -> Child]
    BY <1>1 DEF ServeInit
  <2>3. QED
    BY <2>1, <2>2 DEF ServeInit, ServeTypeOK
<1>3. CallShape /\ OneCall /\ ReaperIsTracked /\ LiveIsTracked
  BY DEF ServeInit, CallShape, OneCall, ReaperIsTracked, LiveIsTracked, Alive,
     Server, Unborn
<1>4. QED
  BY <1>2, <1>3 DEF LocalServeInv

\* Every step keeps the types; a call that is started has a model to show.
LEMMA LocalServeTypes ==
    ServeTypeOK /\ CallShape /\ [ServeNext]_serveVars => ServeTypeOK'
<1> SUFFICES ASSUME ServeTypeOK, CallShape, [ServeNext]_serveVars
             PROVE ServeTypeOK'
  OBVIOUS
<1> USE LocalServeAssumption
<1> USE DEF status
<1>1. NoCall \in Call /\ Unborn \in Child
  <2>1. 0 \in 0 .. MaxServers
    OBVIOUS
  <2>2. QED
    BY <2>1 DEF NoCall, Unborn, Call, Child
<1>2. ASSUME NEW c \in Frontend, NEW m \in Model, Check(c, m) PROVE ServeTypeOK'
  <2>1. [NoCall EXCEPT !.at = "checked", !.model = m] \in Call
    BY <1>1 DEF Call
  <2>2. QED
    BY <1>2, <2>1 DEF Check, ServeTypeOK
<1>3. ASSUME NEW c \in Frontend, StartProgram(c) PROVE ServeTypeOK'
  <2>1. started + 1 \in 0 .. MaxServers
    BY <1>3 DEF StartProgram, ServeTypeOK
  <2>2. [call[c] EXCEPT !.at = "started", !.server = started + 1] \in Call
    BY <2>1 DEF ServeTypeOK, Call
  <2>3. [Unborn EXCEPT !.life = "loading"] \in Child
    BY <1>1 DEF Child
  <2>4. QED
    BY <1>3, <2>1, <2>2, <2>3 DEF StartProgram, ServeTypeOK
<1>4. ASSUME NEW c \in Frontend, StartFails(c) PROVE ServeTypeOK'
  BY <1>4, <1>1 DEF StartFails, ServeTypeOK
<1>5. ASSUME NEW c \in Frontend, Track(c) PROVE ServeTypeOK'
  <2>1. /\ call[c] \in Call /\ call[c].server \in 1 .. started /\ call[c].model \in Model
    BY <1>5 DEF Track, ServeTypeOK, CallShape, Call, NoCall
  <2>2. call[c].server \in Server /\ call[c].server # 0
    BY <2>1 DEF ServeTypeOK, Server
  <2>3. [server[call[c].server] EXCEPT !.poller = "polling", !.reaper = "waiting"] \in Child
    BY <2>2 DEF ServeTypeOK, Child
  <2>4. serveProc' \in 0 .. MaxServers /\ serveModel' \in Model /\ serveProc' # 0
    BY <1>5, <2>1, <2>2 DEF Track, Server
  <2>5. QED
    BY <1>5, <1>1, <2>3, <2>4 DEF Track, ServeTypeOK
<1>6. ASSUME NEW s \in Server, Loads(s) \/ ProgramEnds(s) \/ Answered(s) \/ PollEnds(s)
      PROVE  ServeTypeOK'
  <2>1. /\ [server[s] EXCEPT !.life = "ready"] \in Child
        /\ [server[s] EXCEPT !.life = "ended"] \in Child
        /\ [server[s] EXCEPT !.poller = "answered"] \in Child
        /\ [server[s] EXCEPT !.poller = "none"] \in Child
    BY DEF ServeTypeOK, Child
  <2>2. QED
    BY <1>6, <2>1 DEF Loads, ProgramEnds, Answered, PollEnds, ServeTypeOK
<1>7. ASSUME NEW s \in Server, SetRunning(s) \/ Reap(s) PROVE ServeTypeOK'
  <2>1. /\ [server[s] EXCEPT !.poller = "none"] \in Child
        /\ [server[s] EXCEPT !.reaper = "none"] \in Child
    BY DEF ServeTypeOK, Child
  <2>2. 0 \in 0 .. MaxServers
    OBVIOUS
  <2>3. QED
    BY <1>7, <2>1, <2>2 DEF SetRunning, Reap, ServeTypeOK
<1>8. Cancelled \in [Server -> Child]
  <2>1. CASE serveProc = 0
    BY <2>1 DEF Cancelled, ServeTypeOK
  <2>2. CASE serveProc # 0
    <3>1. serveProc \in Server
      BY <2>2 DEF ServeTypeOK, Server
    <3>2. [server[serveProc] EXCEPT !.cancelled = TRUE] \in Child
      BY <3>1 DEF ServeTypeOK, Child
    <3>3. QED
      BY <2>2, <3>1, <3>2 DEF Cancelled, ServeTypeOK
  <2>3. QED
    BY <2>1, <2>2
<1>9. CASE StopServe \/ ResetBlueprintData
           \/ \E m \in Model : DeleteModel(m) \/ PullModel(m)
  BY <1>9, <1>8 DEF StopServe, ResetBlueprintData, DeleteModel, PullModel, ServeTypeOK
<1>10. CASE Restart
  <2>1. \A s \in Server : [server[s] EXCEPT !.poller = "none", !.reaper = "none"] \in Child
    BY DEF ServeTypeOK, Child
  <2>2. 0 \in 0 .. MaxServers
    OBVIOUS
  <2>3. QED
    BY <1>10, <1>1, <2>1, <2>2 DEF Restart, ServeTypeOK
<1>11. CASE UNCHANGED serveVars
  BY <1>11 DEF serveVars, ServeTypeOK
<1>12. QED
  BY <1>2, <1>3, <1>4, <1>5, <1>6, <1>7, <1>9, <1>10, <1>11 DEF ServeNext

\* Every step keeps a call's shape, and programs not started yet have no life.
LEMMA CallShapeStep ==
    ServeTypeOK /\ CallShape /\ [ServeNext]_serveVars => CallShape'
<1> SUFFICES ASSUME ServeTypeOK, CallShape, [ServeNext]_serveVars
             PROVE CallShape'
  OBVIOUS
<1> USE LocalServeAssumption
<1> USE DEF status
<1>0. started \in Nat /\ call \in [Frontend -> Call]
  BY DEF ServeTypeOK
<1>1. ASSUME NEW c \in Frontend, NEW m \in Model, Check(c, m) PROVE CallShape'
  BY <1>0, <1>1 DEF Check, CallShape, NoCall
<1>2. ASSUME NEW c \in Frontend, StartProgram(c) PROVE CallShape'
  <2>1. /\ call[c].model # NoModel /\ started' = started + 1
        /\ call' = [call EXCEPT ![c] = [@ EXCEPT !.at = "started", !.server = started + 1]]
    BY <1>2 DEF StartProgram, CallShape, NoCall
  <2>2. started + 1 \in 1 .. started' /\ 1 .. started \subseteq 1 .. started'
    BY <1>0, <2>1
  <2>3. /\ call'[c].at = "started" /\ call'[c].server = started + 1
        /\ call'[c].model = call[c].model
    BY <1>0, <2>1 DEF Call
  <2>4. \A d \in Frontend \ {c} : call'[d] = call[d]
    BY <1>0, <2>1
  <2>5. QED
    BY <2>1, <2>2, <2>3, <2>4 DEF CallShape
<1>3. ASSUME NEW c \in Frontend, StartFails(c) \/ Track(c) PROVE CallShape'
  BY <1>0, <1>3 DEF StartFails, Track, CallShape
<1>4. CASE Restart
  BY <1>4 DEF Restart, CallShape
<1>5. CASE UNCHANGED <<call, started>>
  BY <1>5 DEF CallShape
<1>6. QED
  BY <1>1, <1>2, <1>3, <1>4, <1>5
     DEF ServeNext, serveVars, Loads, ProgramEnds, Answered, PollEnds, SetRunning, Reap,
         StopServe,
         DeleteModel, PullModel, ResetBlueprintData

\* While no two calls overlap, only one is past the check, and nothing is tracked then.
LEMMA OneCallStep ==
    ServeTypeOK /\ OneCall /\ [ServeNext]_serveVars => OneCall'
<1> SUFFICES ASSUME ServeTypeOK, OneCall, [ServeNext]_serveVars,
                    ~overlapped'
             PROVE  OneCall'
  BY DEF OneCall
<1> USE LocalServeAssumption
<1> USE DEF status
<1>0. call \in [Frontend -> Call]
  BY DEF ServeTypeOK
<1>1. ASSUME NEW c \in Frontend, NEW m \in Model, Check(c, m) PROVE OneCall'
  BY <1>0, <1>1 DEF Check, OneCall
<1>2. ASSUME NEW c \in Frontend, StartProgram(c) \/ StartFails(c) \/ Track(c)
      PROVE OneCall'
  <2>1. call[c] # NoCall /\ ~overlapped
    BY <1>2 DEF StartProgram, StartFails, Track, NoCall
  <2>2. serveProc = 0 /\ \A d \in Frontend \ {c} : call[d] = NoCall
    BY <2>1 DEF OneCall
  <2>3. \A d \in Frontend \ {c} : call'[d] = NoCall
    BY <1>0, <1>2, <2>2 DEF StartProgram, StartFails, Track
  <2>4. CASE StartProgram(c) \/ StartFails(c)
    BY <2>2, <2>3, <2>4 DEF StartProgram, StartFails, OneCall
  <2>5. CASE Track(c)
    BY <1>0, <2>3, <2>5 DEF Track, OneCall
  <2>6. QED
    BY <1>2, <2>4, <2>5
<1>3. ASSUME NEW s \in Server, Reap(s) PROVE OneCall'
  BY <1>3 DEF Reap, OneCall
<1>4. CASE Restart
  BY <1>4 DEF Restart, OneCall
<1>5. CASE UNCHANGED <<call, serveProc, overlapped>>
  BY <1>5 DEF OneCall
<1>6. QED
  BY <1>1, <1>2, <1>3, <1>4, <1>5
     DEF ServeNext, serveVars, Loads, ProgramEnds, Answered, PollEnds, SetRunning, StopServe,
         DeleteModel, PullModel, ResetBlueprintData

\* While no two calls overlap, a reaper waits for the tracked server only.
LEMMA ReaperStep ==
    ServeTypeOK /\ CallShape /\ OneCall /\ ReaperIsTracked
    /\ [ServeNext]_serveVars => ReaperIsTracked'
<1> SUFFICES ASSUME ServeTypeOK, CallShape, OneCall,
                    ReaperIsTracked, [ServeNext]_serveVars, ~overlapped'
             PROVE  ReaperIsTracked'
  BY DEF ReaperIsTracked
<1> USE LocalServeAssumption
<1> USE DEF status
<1>0. server \in [Server -> Child] /\ started \in 0 .. MaxServers
  BY DEF ServeTypeOK
<1>a. \A s \in Server : s # 0
  BY DEF Server
<1>1. ASSUME NEW c \in Frontend, NEW m \in Model, Check(c, m) PROVE ReaperIsTracked'
  BY <1>1 DEF Check, ReaperIsTracked
<1>2. ASSUME NEW c \in Frontend, StartProgram(c) PROVE ReaperIsTracked'
  BY <1>0, <1>2 DEF StartProgram, ReaperIsTracked, Unborn
<1>3. ASSUME NEW c \in Frontend, Track(c) PROVE ReaperIsTracked'
  <2>1. serveProc = 0 /\ ~overlapped
    BY <1>3 DEF Track, OneCall, NoCall
  <2>2. \A s \in Server : server[s].reaper # "waiting"
    BY <1>a, <2>1 DEF ReaperIsTracked
  <2>3. \A s \in Server : s # call[c].server => server'[s] = server[s]
    BY <1>0, <1>3 DEF Track
  <2>4. QED
    BY <1>3, <2>2, <2>3 DEF Track, ReaperIsTracked
<1>4. ASSUME NEW s \in Server, Loads(s) \/ ProgramEnds(s) \/ Answered(s) \/ PollEnds(s)
             \/ SetRunning(s)
      PROVE  ReaperIsTracked'
  <2>1. serveProc' = serveProc /\ \A t \in Server : server'[t].reaper = server[t].reaper
    BY <1>0, <1>4 DEF Loads, ProgramEnds, Answered, PollEnds, SetRunning, Child
  <2>2. ~overlapped
    BY <1>4 DEF Loads, ProgramEnds, Answered, PollEnds, SetRunning
  <2>3. QED
    BY <2>1, <2>2 DEF ReaperIsTracked
<1>5. ASSUME NEW s \in Server, Reap(s) PROVE ReaperIsTracked'
  <2>1. serveProc = s /\ ~overlapped
    BY <1>5 DEF Reap, ReaperIsTracked
  <2>2. \A t \in Server : server'[t].reaper # "waiting"
    BY <1>0, <1>5, <2>1 DEF Reap, ReaperIsTracked, Child
  <2>3. QED
    BY <2>2 DEF ReaperIsTracked
<1>6. CASE StopServe \/ ResetBlueprintData
  <2>1. serveProc' = serveProc /\ server' = Cancelled /\ ~overlapped
    BY <1>6 DEF StopServe, ResetBlueprintData
  <2>2. \A t \in Server : server'[t].reaper = server[t].reaper
    BY <1>0, <2>1 DEF Cancelled, Child
  <2>3. QED
    BY <2>1, <2>2 DEF ReaperIsTracked
<1>7. CASE Restart
  <2>1. \A s \in Server : server'[s].reaper = "none"
    BY <1>0, <1>7 DEF Restart, Child
  <2>2. QED
    BY <2>1 DEF ReaperIsTracked
<1>8. CASE UNCHANGED <<server, serveProc, overlapped>>
  BY <1>8 DEF ReaperIsTracked
<1>9. QED
  BY <1>1, <1>2, <1>3, <1>4, <1>5, <1>6, <1>7, <1>8
     DEF ServeNext, serveVars, StartFails, DeleteModel, PullModel

\* A server that lives stays within reach of StopServe.
LEMMA LiveStep ==
    LocalServeInv /\ [ServeNext]_serveVars => LiveIsTracked'
<1> SUFFICES ASSUME LocalServeInv, [ServeNext]_serveVars, ~overlapped',
                    ~left',
                    NEW t \in Server, Alive(t)'
             PROVE  \/ serveProc' = t
                    \/ \E c \in Frontend : call'[c].at = "started" /\ call'[c].server = t
  BY DEF LiveIsTracked
<1> USE LocalServeAssumption
<1> DEFINE Starting(u) == \E c \in Frontend : call[c].at = "started" /\ call[c].server = u
<1> USE DEF status
<1>0. /\ call \in [Frontend -> Call] /\ server \in [Server -> Child]
         /\ started \in 0 .. MaxServers
  BY DEF LocalServeInv, ServeTypeOK
<1>a. ASSUME ~overlapped, ~left, Alive(t) PROVE serveProc = t \/ Starting(t)
  BY <1>a DEF LocalServeInv, LiveIsTracked
<1>1. ASSUME NEW c \in Frontend, NEW m \in Model, Check(c, m)
      PROVE  serveProc' = t \/ \E d \in Frontend : call'[d].at = "started" /\ call'[d].server = t
  <2>1. call[c] = NoCall /\ ~overlapped /\ ~left /\ Alive(t) /\ serveProc' = serveProc
    BY <1>1 DEF Check, Alive
  <2>2. \A d \in Frontend : call[d].at = "started" => call'[d] = call[d]
    BY <1>0, <1>1, <2>1 DEF Check, NoCall
  <2>3. QED
    BY <1>a, <2>1, <2>2
<1>2. ASSUME NEW c \in Frontend, StartProgram(c)
      PROVE  serveProc' = t \/ \E d \in Frontend : call'[d].at = "started" /\ call'[d].server = t
  <2>1. call'[c].at = "started" /\ call'[c].server = started + 1
    BY <1>0, <1>2 DEF StartProgram, Call
  <2>2. CASE t = started + 1
    BY <2>1, <2>2
  <2>3. CASE t # started + 1
    <3>1. ~overlapped /\ ~left /\ Alive(t) /\ serveProc' = serveProc
      BY <1>0, <1>2, <2>3 DEF StartProgram, Alive
    <3>2. \A d \in Frontend : call[d].at = "started" => call'[d] = call[d]
      BY <1>0, <1>2 DEF StartProgram
    <3>3. QED
      BY <1>a, <3>1, <3>2
  <2>4. QED
    BY <2>2, <2>3
<1>3. ASSUME NEW c \in Frontend, StartFails(c)
      PROVE  serveProc' = t \/ \E d \in Frontend : call'[d].at = "started" /\ call'[d].server = t
  <2>1. ~overlapped /\ ~left /\ Alive(t) /\ serveProc' = serveProc
    BY <1>3 DEF StartFails, Alive
  <2>2. \A d \in Frontend : call[d].at = "started" => call'[d] = call[d]
    BY <1>0, <1>3 DEF StartFails
  <2>3. QED
    BY <1>a, <2>1, <2>2
<1>4. ASSUME NEW c \in Frontend, Track(c)
      PROVE  serveProc' = t \/ \E d \in Frontend : call'[d].at = "started" /\ call'[d].server = t
  <2>1. call[c] # NoCall /\ ~overlapped /\ ~left
    BY <1>4 DEF Track, NoCall
  <2>2. serveProc = 0 /\ \A d \in Frontend \ {c} : call[d] = NoCall
    BY <2>1 DEF LocalServeInv, OneCall
  <2>3. server'[t].life = server[t].life
    BY <1>0, <1>4 DEF Track, Child
  <2>4. Starting(t)
    BY <1>a, <2>1, <2>2, <2>3 DEF Alive, Server
  <2>5. call[c].server = t
    BY <2>2, <2>4 DEF NoCall
  <2>6. QED
    BY <1>4, <2>5 DEF Track
<1>5. ASSUME NEW s \in Server, Loads(s) \/ ProgramEnds(s) \/ Answered(s) \/ PollEnds(s)
             \/ SetRunning(s)
      PROVE  serveProc' = t \/ \E d \in Frontend : call'[d].at = "started" /\ call'[d].server = t
  <2>1. ~overlapped /\ ~left /\ serveProc' = serveProc /\ call' = call
    BY <1>5 DEF Loads, ProgramEnds, Answered, PollEnds, SetRunning
  <2>2. Alive(t)
    BY <1>0, <1>5 DEF Loads, ProgramEnds, Answered, PollEnds, SetRunning, Alive, Child
  <2>3. QED
    BY <1>a, <2>1, <2>2
<1>6. ASSUME NEW s \in Server, Reap(s)
      PROVE  serveProc' = t \/ \E d \in Frontend : call'[d].at = "started" /\ call'[d].server = t
  <2>1. ~overlapped /\ ~left /\ call' = call /\ server'[t].life = server[t].life
    BY <1>0, <1>6 DEF Reap, Child
  <2>2. serveProc = s /\ ~Alive(s)
    BY <1>6, <2>1 DEF Reap, LocalServeInv, ReaperIsTracked, Alive
  <2>3. Alive(t)
    BY <2>1 DEF Alive
  <2>4. QED
    BY <1>a, <2>1, <2>2, <2>3
<1>7. CASE StopServe \/ ResetBlueprintData
  <2>1. ~overlapped /\ ~left /\ call' = call /\ serveProc' = serveProc /\ server' = Cancelled
    BY <1>7 DEF StopServe, ResetBlueprintData
  <2>2. server'[t].life = server[t].life
    BY <1>0, <2>1 DEF Cancelled, Child
  <2>3. QED
    BY <1>a, <2>1, <2>2 DEF Alive
<1>8. CASE Restart
  <2>1. server'[t].life = server[t].life
    BY <1>0, <1>8 DEF Restart, Child
  <2>2. QED
    BY <1>8, <2>1 DEF Restart, Alive
<1>9. CASE UNCHANGED <<server, serveProc, call, overlapped, left>>
  BY <1>9, <1>a DEF Alive
<1>10. QED
  BY <1>1, <1>2, <1>3, <1>4, <1>5, <1>6, <1>7, <1>8, <1>9
     DEF ServeNext, serveVars, DeleteModel, PullModel

\* The inductive invariant holds in every reachable state, for any number of
\* callers, models and programs.
THEOREM LocalServeInvariant == ServeSpec => []LocalServeInv
<1>1. LocalServeInv /\ [ServeNext]_serveVars => LocalServeInv'
  BY LocalServeTypes, CallShapeStep, OneCallStep, ReaperStep, LiveStep DEF LocalServeInv
<1>2. QED
  BY LocalServeInit, <1>1, PTL DEF ServeSpec

\* StopServe reaches every server that lives, unless two StartServe overlapped
\* or the desktop ended before its server.
THEOREM StopReachesServer == ServeSpec => []LiveIsTracked
<1>1. LocalServeInv => LiveIsTracked
  BY DEF LocalServeInv
<1>2. QED
  BY LocalServeInvariant, <1>1, PTL

\* A tracked server is not replaced by another unless two StartServe overlapped.
THEOREM ServerNeverReplaced == ServeSpec => NeverReplaced
<1>1. LocalServeInv /\ [ServeNext]_serveVars =>
        [serveProc # 0 /\ serveProc' # 0 /\ ~overlapped => serveProc' = serveProc]_serveVars
  <2> SUFFICES ASSUME LocalServeInv, [ServeNext]_serveVars, serveProc # 0, serveProc' # 0,
                      ~overlapped
               PROVE  serveProc' = serveProc
    OBVIOUS
  <2> USE DEF status
  <2>1. ASSUME NEW c \in Frontend PROVE ~Track(c)
    BY DEF Track, LocalServeInv, OneCall, NoCall
  <2>2. QED
    BY <2>1 DEF ServeNext, serveVars, Check, StartProgram, StartFails, Loads, ProgramEnds,
       Answered, PollEnds,
                SetRunning, Reap, StopServe, DeleteModel, PullModel,
                ResetBlueprintData, Restart
<1>2. QED
  BY LocalServeInvariant, <1>1, PTL DEF ServeSpec, NeverReplaced
=============================================================================
