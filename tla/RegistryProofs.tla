--------------------------- MODULE RegistryProofs ---------------------------
(***************************************************************************)
(* What reaches the file, for any number of calls in progress, entries and  *)
(* restarts.  The invariant follows the slice of the last save(): while no  *)
(* other save is in flight it is the list itself, unless a later change,    *)
(* for which a call is owing, has set dirty.                                 *)
(*                                                                          *)
(* And what the calls do to the list: whatever the array behind it holds    *)
(* and whoever reads it, they are those of SavedList.  An invariant of its   *)
(* own says where the ids come from (an entry in the array, in a slice or    *)
(* in the file has an id given out before), and what the loop of Remove      *)
(* leaves is proved by the least position at which it would go wrong.        *)
(***************************************************************************)
EXTENDS Registry, FiniteSetTheorems, SequenceTheorems, WellFoundedInduction, TLAPS

(* Where the calls are; and a slice was taken by whoever saves. *)
CallState == pc \in [Goroutine -> {"idle", "owing", "marshal", "writing"}]
IsSlice(j) == j = [may |-> j.may, live |-> j.live, out |-> j.out]
JobState == /\ job = [g \in Goroutine |-> job[g]]
            /\ \A g \in Goroutine : Saving(g) => IsSlice(job[g])

(* Lists of some length: what a save() reads, writes and leaves in the file. *)
Listlike(s) == \E n \in Nat : s = [i \in 1 .. n |-> s[i]]
Positions(may) == \E n \in Nat : DOMAIN may = 1 .. n
Lists == /\ length \in Nat
         /\ file \in {Absent, Empty, Garbage} \/ Listlike(file)
         /\ \A g \in Goroutine : /\ pc[g] = "marshal" => Positions(job[g].may)
                                 /\ pc[g] = "writing" => Listlike(job[g].out)

(* The last save() that ran alone is the only one, and the file is its own. *)
OnlySaver == alone => /\ \A g, h \in Goroutine : Saving(g) /\ Saving(h) => g = h
                      /\ \A g \in Goroutine : pc[g] = "writing" => file = Empty

(* What it read, what it writes and what it wrote is the list. *)
LastSlice == (alone /\ ~dirty /\ up) =>
    /\ \A g \in Goroutine : pc[g] = "marshal" =>
          /\ DOMAIN job[g].may = 1 .. length
          /\ \A i \in 1 .. length : job[g].may[i] = {cells[i]}
    /\ \A g \in Goroutine : pc[g] = "writing" => job[g].out = list
    /\ (\A g \in Goroutine : ~Saving(g)) => file = list \/ (file = Absent /\ length = 0)

Down == ~up => /\ \A g \in Goroutine : pc[g] = "idle"
               /\ ~dirty

RegistryInv == /\ CallState /\ JobState /\ dirty \in BOOLEAN /\ alone \in BOOLEAN
               /\ Lists /\ SaveOwed /\ OnlySaver /\ LastSlice /\ Down

LEMMA InitHolds == Init => RegistryInv
<1> SUFFICES ASSUME Init PROVE RegistryInv OBVIOUS
<1> USE DEF Init
<1>1. CallState /\ JobState /\ SaveOwed /\ OnlySaver /\ Down
      BY DEF CallState, JobState, SaveOwed, OnlySaver, Down, Saving
<1>2. Lists BY DEF Lists
<1>3. LastSlice BY DEF LastSlice, Saving
<1> QED BY <1>1, <1>2, <1>3 DEF RegistryInv

(* The slices taken keep their positions, whatever is now in the cells. *)
JobsKept == /\ job' = [g \in Goroutine |-> job'[g]]
            /\ \A g \in Goroutine : /\ Saving(g) => IsSlice(job'[g])
                                    /\ pc[g] = "marshal" => DOMAIN job'[g].may = DOMAIN job[g].may
                                    /\ pc[g] = "writing" => job'[g].out = job[g].out

(* A call changes nothing that matters here, or sets dirty; it owes a save. *)
CallEffect(g) == /\ up /\ pc[g] = "idle"
                 /\ pc' = [pc EXCEPT ![g] = "owing"]
                 /\ UNCHANGED <<up, file, alone>>
                 /\ length' \in Nat /\ JobsKept
                 /\ dirty' = TRUE \/ UNCHANGED <<cells, length, dirty, job>>

LEMMA CallOwes ==
    ASSUME JobState, CallState, Lists, NEW g \in Goroutine, Call(g)
    PROVE  CallEffect(g)
<1> up /\ pc[g] = "idle" BY DEF Call
<1> length \in Nat BY DEF Lists
<1>0. ASSUME NEW j, IsSlice(j), NEW may, NEW live
      PROVE  /\ [j EXCEPT !.may = may] = [may |-> may, live |-> j.live, out |-> j.out]
             /\ [j EXCEPT !.live = live] = [may |-> j.may, live |-> live, out |-> j.out]
      BY <1>0 DEF IsSlice
<1>1. ASSUME NEW new, Overwrite(new) PROVE JobsKept
      <2>1. job' = [h \in Goroutine |-> job'[h]] BY <1>1 DEF Overwrite
      <2>2. ASSUME NEW h \in Goroutine, Saving(h)
            PROVE  /\ IsSlice(job'[h]) /\ DOMAIN job'[h].may = DOMAIN job[h].may
                   /\ job'[h].out = job[h].out
            <3>1. IsSlice(job[h]) BY <2>2 DEF JobState
            <3>2. CASE pc[h] = "marshal" /\ job[h].live
                  <4> DEFINE may == [i \in DOMAIN job[h].may |-> job[h].may[i] \cup {new[i]}]
                  <4>1. job'[h] = [job[h] EXCEPT !.may = may] BY <1>1, <3>2 DEF Overwrite
                  <4>2. DOMAIN may = DOMAIN job[h].may OBVIOUS
                  <4> HIDE DEF may
                  <4>3. job'[h] = [may |-> may, live |-> job[h].live, out |-> job[h].out]
                        BY <4>1, <3>1, <1>0
                  <4> QED BY <4>2, <4>3 DEF IsSlice
            <3>3. CASE ~(pc[h] = "marshal" /\ job[h].live)
                  <4>1. job'[h] = job[h] BY <1>1, <3>3 DEF Overwrite
                  <4> QED BY <4>1, <3>1
            <3> QED BY <3>2, <3>3
      <2> QED BY <2>1, <2>2 DEF JobsKept, Saving
<1>2. ASSUME NEW e, AppendEntry(e) PROVE JobsKept
      <2>1. CASE length < Len(cells) /\ Overwrite([cells EXCEPT ![length + 1] = e])
            BY <2>1, <1>1
      <2>2. CASE job' = [h \in Goroutine |-> IF job[h] = None THEN None ELSE [job[h] EXCEPT !.live = FALSE]]
            <3>1. job' = [h \in Goroutine |-> job'[h]] BY <2>2
            <3>2. ASSUME NEW h \in Goroutine, Saving(h)
                  PROVE  /\ IsSlice(job'[h]) /\ job'[h].may = job[h].may /\ job'[h].out = job[h].out
                  <4>1. IsSlice(job[h]) BY <3>2 DEF JobState
                  <4>2. CASE job[h] = None BY <2>2, <4>1, <4>2
                  <4>3. CASE job[h] # None
                        <5>1. job'[h] = [job[h] EXCEPT !.live = FALSE] BY <2>2, <4>3
                        <5>2. job'[h] = [may |-> job[h].may, live |-> FALSE, out |-> job[h].out]
                              BY <5>1, <4>1, <1>0
                        <5> QED BY <5>2 DEF IsSlice
                  <4> QED BY <4>2, <4>3
            <3> QED BY <3>1, <3>2 DEF JobsKept, Saving
      <2> QED BY <1>2, <2>1, <2>2 DEF AppendEntry
<1>3. ASSUME NEW e, Add(g, e) PROVE CallEffect(g)
      BY <1>3, <1>2 DEF Add, Changed, CallEffect
<1>4. ASSUME NEW id, NEW e, Replace(g, id, e) PROVE CallEffect(g)
      BY <1>4, <1>1 DEF Replace, Changed, CallEffect
<1>5. ASSUME NEW id, Remove(g, id) PROVE CallEffect(g)
      <2>1. length' \in Nat BY <1>5 DEF Remove
      <2> QED BY <1>5, <1>1, <2>1 DEF Remove, Changed, CallEffect
<1>6. ASSUME NEW id, Touch(g, id) PROVE CallEffect(g)
      <2>1. CASE NotFound(g, id)
            BY <2>1 DEF NotFound, CallEffect, JobsKept, JobState, listVars
      <2> QED BY <1>6, <2>1, <1>4 DEF Touch
<1>7. CASE FleetCall(g) BY <1>7, <1>3, <1>4, <1>5, <1>6 DEF FleetCall
<1>8. CASE HostCall(g) BY <1>8, <1>3, <1>4, <1>5, <1>6 DEF HostCall
<1>9. CASE RemoteCall(g) BY <1>9, <1>3, <1>4, <1>5, <1>6 DEF RemoteCall
<1> QED BY <1>7, <1>8, <1>9 DEF Call

LEMMA CallKeeps ==
    ASSUME RegistryInv, NEW g \in Goroutine, Call(g)
    PROVE  RegistryInv'
<1>1. CallEffect(g) BY CallOwes DEF RegistryInv
<1> USE <1>1 DEF CallEffect, RegistryInv, CallState, JobsKept
<1>2. CallState' /\ JobState' /\ alone' \in BOOLEAN BY DEF JobState, Saving
<1>3. dirty' \in BOOLEAN OBVIOUS
<1>4. SaveOwed' BY DEF SaveOwed
<1>5. OnlySaver' BY DEF OnlySaver, Saving
<1>6. LastSlice'
      <2>1. CASE dirty' = TRUE BY <2>1 DEF LastSlice
      <2>2. CASE UNCHANGED <<cells, length, dirty, job>>
            BY <2>2 DEF LastSlice, Saving, list
      <2> QED BY <2>1, <2>2
<1>7. Down' BY DEF Down
<1>8. Lists' BY DEF Lists, Positions, Listlike
<1> QED BY <1>2, <1>3, <1>4, <1>5, <1>6, <1>7, <1>8

LEMMA SnapshotKeeps ==
    ASSUME RegistryInv, NEW g \in Goroutine, SnapshotClean(g) \/ Snapshot(g)
    PROVE  RegistryInv'
<1> USE DEF RegistryInv, CallState, JobState, IsSlice, Saving, listVars
<1>1. CASE SnapshotClean(g)
      <2> USE <1>1 DEF SnapshotClean
      <2>0. Lists' BY DEF Lists, Positions, Listlike
      <2>1. SaveOwed' BY DEF SaveOwed
      <2>2. OnlySaver' BY DEF OnlySaver, Saving
      <2>3. LastSlice' BY DEF LastSlice, Saving, list
      <2>4. Down' BY DEF Down
      <2> QED BY <2>0, <2>1, <2>2, <2>3, <2>4
<1>2. CASE Snapshot(g)
      <2> USE <1>2 DEF Snapshot
      <2>1. SaveOwed' BY DEF SaveOwed
      <2>2. OnlySaver' BY DEF OnlySaver, Saving
      <2>3. LastSlice'
            <3> SUFFICES ASSUME alone' PROVE LastSlice' BY DEF LastSlice
            <3>1. \A h \in Goroutine : Saving(h)' => h = g BY DEF Saving
            <3>2. pc'[g] = "marshal" /\ Saving(g)' BY DEF Saving
            <3>3. /\ job'[g].may = [i \in 1 .. length |-> {cells[i]}]
                  /\ UNCHANGED <<cells, length>>
                  OBVIOUS
            <3>4. /\ DOMAIN job'[g].may = 1 .. length'
                  /\ \A i \in 1 .. length' : job'[g].may[i] = {cells'[i]}
                  BY <3>3
            <3> QED BY <3>1, <3>2, <3>4 DEF LastSlice, Saving
      <2>4. Down' BY DEF Down
      <2>5. alone' \in BOOLEAN OBVIOUS
      <2>6. Lists' BY DEF Lists, Positions, Listlike
      <2> QED BY <2>1, <2>2, <2>3, <2>4, <2>5, <2>6
<1> QED BY <1>1, <1>2

(* With one value per cell there is one reading of it. *)
LEMMA SingleReading == ASSUME NEW x PROVE Readings({x}) = {x}
<1>1. Cardinality({x}) = 1 BY FS_Singleton
<1> QED BY <1>1 DEF Readings

LEMMA OpenKeeps ==
    ASSUME RegistryInv, NEW g \in Goroutine, Open(g) \/ OpenFails(g)
    PROVE  RegistryInv'
<1> USE DEF RegistryInv, CallState, JobState, IsSlice, Saving, listVars
<1>1. CASE Open(g)
      <2>0. PICK out \in [DOMAIN job[g].may -> UNION {Readings(job[g].may[i]) : i \in DOMAIN job[g].may}] :
                 /\ \A i \in DOMAIN out : out[i] \in Readings(job[g].may[i])
                 /\ job' = [job EXCEPT ![g] = [may |-> <<>>, live |-> FALSE, out |-> out]]
            BY <1>1 DEF Open
      <2>e. /\ pc[g] = "marshal" /\ pc' = [pc EXCEPT ![g] = "writing"]
            /\ file' = Empty
            /\ UNCHANGED <<kind, up, listVars, dirty, alone>>
            /\ job'[g].out = out /\ Saving(g)
            BY <1>1, <2>0 DEF Open, Saving
      <2> USE <2>e
      <2>1. SaveOwed' BY DEF SaveOwed
      <2>2. OnlySaver' BY DEF OnlySaver, Saving
      <2>3. LastSlice'
            <3> SUFFICES ASSUME alone, ~dirty, up PROVE LastSlice' BY DEF LastSlice
            <3>1. \A h \in Goroutine : Saving(h)' => h = g BY DEF OnlySaver, Saving
            <3>2. pc'[g] = "writing" /\ Saving(g)' BY DEF Saving
            <3>3. DOMAIN out = DOMAIN job[g].may /\ out = [i \in DOMAIN out |-> out[i]]
                  BY <2>0
            <3>4. DOMAIN job[g].may = 1 .. length /\ \A i \in 1 .. length : job[g].may[i] = {cells[i]}
                  BY DEF LastSlice
            <3>5. ASSUME NEW i \in 1 .. length PROVE out[i] = cells[i]
                  <4>1. out[i] \in Readings(job[g].may[i]) BY <2>0, <3>3, <3>4
                  <4>2. job[g].may[i] = {cells[i]} BY <3>4
                  <4>3. Readings({cells[i]}) = {cells[i]} BY SingleReading
                  <4> QED BY <4>1, <4>2, <4>3
            <3>6. out = list BY <3>3, <3>4, <3>5 DEF list
            <3>7. out = list' BY <3>6 DEF list
            <3>8. \A h \in Goroutine : pc'[h] = "writing" => job'[h].out = list'
                  BY <3>1, <3>7
            <3>9. \A h \in Goroutine : pc'[h] # "marshal" BY <3>1, <3>2
            <3> QED BY <3>2, <3>8, <3>9 DEF LastSlice
      <2>4. Down' BY DEF Down
      <2>5. CallState' /\ JobState' /\ dirty' \in BOOLEAN /\ alone' \in BOOLEAN BY <2>0 DEF Saving
      <2>6. Listlike(out) BY <2>0 DEF Lists, Positions, Listlike
      <2>7. \A h \in Goroutine \ {g} : job'[h] = job[h] /\ pc'[h] = pc[h] BY <2>0
      <2>8. pc'[g] = "writing" OBVIOUS
      <2>9. Lists' BY <2>6, <2>7, <2>8 DEF Lists
      <2> QED BY <2>1, <2>2, <2>3, <2>4, <2>5, <2>9
<1>2. CASE OpenFails(g)
      <2> USE <1>2 DEF OpenFails
      <2>0. Lists' BY DEF Lists, Positions, Listlike
      <2>1. SaveOwed' BY DEF SaveOwed
      <2>2. OnlySaver' BY DEF OnlySaver
      <2>3. LastSlice' BY DEF LastSlice
      <2>4. Down' BY DEF Down
      <2> QED BY <2>0, <2>1, <2>2, <2>3, <2>4
<1> QED BY <1>1, <1>2

LEMMA WriteKeeps ==
    ASSUME RegistryInv, NEW g \in Goroutine, Write(g) \/ WriteFails(g)
    PROVE  RegistryInv'
<1> USE DEF RegistryInv, CallState, JobState, IsSlice, Saving, listVars
<1>1. CASE Write(g)
      <2> USE <1>1 DEF Write
      <2>0. Lists' BY DEF Lists, Positions, Listlike
      <2>1. SaveOwed' BY DEF SaveOwed
      <2>2. OnlySaver' BY DEF OnlySaver, Saving
      <2>3. LastSlice'
            <3> SUFFICES ASSUME alone, ~dirty, up PROVE LastSlice' BY DEF LastSlice
            <3>1. \A h \in Goroutine : ~Saving(h)' BY DEF OnlySaver, Saving
            <3>2. file = Empty BY DEF OnlySaver
            <3>3. file' = job[g].out BY <3>2
            <3>4. file' = list' BY <3>3 DEF LastSlice, list
            <3> QED BY <3>1, <3>4 DEF LastSlice, Saving
      <2>4. Down' BY DEF Down
      <2> QED BY <2>0, <2>1, <2>2, <2>3, <2>4
<1>2. CASE WriteFails(g)
      <2> USE <1>2 DEF WriteFails
      <2>0. Lists' BY DEF Lists, Positions, Listlike
      <2>1. SaveOwed' BY DEF SaveOwed
      <2>2. OnlySaver' BY DEF OnlySaver
      <2>3. LastSlice' BY DEF LastSlice
      <2>4. Down' BY DEF Down
      <2> QED BY <2>0, <2>1, <2>2, <2>3, <2>4
<1> QED BY <1>1, <1>2

LEMMA QuitKeeps == RegistryInv /\ Quit => RegistryInv'
<1> SUFFICES ASSUME RegistryInv, Quit PROVE RegistryInv' OBVIOUS
<1> USE DEF RegistryInv, Quit
<1>1. CallState' /\ JobState' BY DEF CallState, JobState, Saving
<1>2. SaveOwed' /\ OnlySaver' /\ Down' BY DEF SaveOwed, OnlySaver, Down, Saving
<1>3. Lists' BY DEF Lists, Listlike
<1>4. LastSlice' BY DEF LastSlice
<1> QED BY <1>1, <1>2, <1>3, <1>4

(* What a start loads is what the file holds. *)
LEMMA LoadsAll == ASSUME NEW f, Listlike(f)
                  PROVE  Len(f) \in Nat /\ [i \in 1 .. Len(f) |-> f[i]] = f
<1>1. PICK n \in Nat : f = [i \in 1 .. n |-> f[i]] BY DEF Listlike
<1>2. f \in [1 .. n -> {f[i] : i \in 1 .. n}] BY <1>1
<1>3. f \in Seq({f[i] : i \in 1 .. n}) BY <1>2, SeqDef
<1>4. Len(f) = n BY <1>2, <1>3, LenProperties
<1> QED BY <1>1, <1>4

LEMMA BootKeeps == RegistryInv /\ Boot => RegistryInv'
<1> SUFFICES ASSUME RegistryInv, Boot PROVE RegistryInv' OBVIOUS
<1> USE DEF RegistryInv, CallState, JobState, Saving, Boot
<1>1. SaveOwed' BY DEF SaveOwed
<1>2. OnlySaver' BY DEF OnlySaver, Saving, Down
<1>3. \A g \in Goroutine : ~Saving(g)' /\ pc'[g] = "idle" BY DEF Down, Saving
<1>4. CASE file \in {Absent, Empty, Garbage}
      <2>1. length' = 0 BY <1>4 DEF Load
      <2>2. alone' => file' = Absent BY <1>4
      <2>3. LastSlice' BY <1>3, <2>1, <2>2 DEF LastSlice
      <2>4. Lists' BY <1>3, <2>1 DEF Lists, Listlike
      <2> QED BY <1>1, <1>2, <2>3, <2>4 DEF Down
<1>5. CASE file \notin {Absent, Empty, Garbage}
      <2>1. Len(file) \in Nat /\ [i \in 1 .. Len(file) |-> file[i]] = file
            BY <1>5, LoadsAll DEF Lists
      <2>2. cells' = file /\ length' = Len(file) BY <1>5 DEF Load
      <2>3. file' = list' BY <2>1, <2>2 DEF list
      <2>4. LastSlice' BY <1>3, <2>3 DEF LastSlice
      <2>5. Lists' BY <1>3, <2>1, <2>2 DEF Lists, Listlike
      <2> QED BY <1>1, <1>2, <2>4, <2>5 DEF Down
<1> QED BY <1>4, <1>5

LEMMA StutterKeeps == RegistryInv /\ UNCHANGED vars => RegistryInv'
BY DEF RegistryInv, CallState, JobState, Lists, SaveOwed, OnlySaver, LastSlice, Down, Saving,
       list, vars, listVars

(* The inductive invariant, for any number of calls, entries and restarts. *)
THEOREM RegistryInvariant == Spec => []RegistryInv
<1>1. ASSUME RegistryInv, [Next]_vars PROVE RegistryInv'
      <2>1. ASSUME NEW g \in Goroutine, Call(g) PROVE RegistryInv' BY <1>1, <2>1, CallKeeps
      <2>2. ASSUME NEW g \in Goroutine, Save(g) PROVE RegistryInv'
            BY <1>1, <2>2, SnapshotKeeps, OpenKeeps, WriteKeeps DEF Save
      <2>3. CASE Quit BY <1>1, <2>3, QuitKeeps
      <2>4. CASE Boot BY <1>1, <2>4, BootKeeps
      <2>5. CASE UNCHANGED vars BY <1>1, <2>5, StutterKeeps
      <2> QED BY <1>1, <2>1, <2>2, <2>3, <2>4, <2>5 DEF Next
<1> QED BY <1>1, InitHolds, PTL DEF Spec

(* No change is forgotten because another goroutine cleared the dirty flag   *)
(* of fleet, hosts or remotes: someone still owes a save.                    *)
THEOREM ChangesAreOwed == Spec => []SaveOwed
<1>1. RegistryInv => SaveOwed BY DEF RegistryInv
<1> QED BY <1>1, RegistryInvariant, PTL

(* With no call in progress the file holds the list, unless the last save()  *)
(* overlapped another, or failed.                                             *)
THEOREM QuietFileIsTheList == Spec => []QuietMeansSaved
<1>1. RegistryInv => QuietMeansSaved
      <2> SUFFICES ASSUME RegistryInv, up, Quiet, alone
                   PROVE  file = list \/ (file = Absent /\ length = 0)
          BY DEF QuietMeansSaved
      <2>1. ~dirty BY DEF RegistryInv, SaveOwed, Quiet
      <2>2. \A g \in Goroutine : ~Saving(g) BY DEF Quiet, Saving
      <2> QED BY <2>1, <2>2 DEF RegistryInv, LastSlice
<1> QED BY <1>1, RegistryInvariant, PTL

-----------------------------------------------------------------------------
(* What the loop of Remove leaves: the entries of other ids, in their order.  *)

(* t holds the entries of s up to n that have another id than the one given;  *)
(* at says where they come from.                                              *)
Sifts(S, t, s, n, id) ==
    /\ t \in Seq(S) /\ Len(t) \in 0 .. n
    /\ \E at \in [1 .. Len(t) -> 1 .. n] :
          /\ \A i, j \in 1 .. Len(t) : i < j => at[i] < at[j]
          /\ \A i \in 1 .. Len(t) : s[at[i]].id # id /\ t[i] = s[at[i]]
          /\ \A k \in 1 .. n : s[k].id # id => \E i \in 1 .. Len(t) : at[i] = k

LEMMA SiftNothing == ASSUME NEW S, NEW s, NEW id PROVE Sifts(S, <<>>, s, 0, id)
<1> DEFINE t == <<>>
<1> DEFINE at == [i \in {} |-> 1]
<1>1. t \in Seq(S) /\ Len(t) = 0 /\ 0 \in 0 .. 0 /\ 1 .. 0 = {}
      OBVIOUS
<1>2. at \in [{} -> {}]
      OBVIOUS
<1> HIDE DEF t, at
<1>3. at \in [1 .. Len(t) -> 1 .. 0] /\ Len(t) \in 0 .. 0 /\ 1 .. Len(t) = {}
      BY <1>1, <1>2
<1>4. Sifts(S, t, s, 0, id)
      BY <1>1, <1>3 DEF Sifts
<1> QED BY <1>4 DEF t

LEMMA SiftPast ==
    ASSUME NEW S, NEW t, NEW s, NEW n \in Nat, n > 0, NEW id,
           Sifts(S, t, s, n - 1, id), s[n].id = id
    PROVE  Sifts(S, t, s, n, id)
<1>1. PICK at \in [1 .. Len(t) -> 1 .. n - 1] :
          /\ \A i, j \in 1 .. Len(t) : i < j => at[i] < at[j]
          /\ \A i \in 1 .. Len(t) : s[at[i]].id # id /\ t[i] = s[at[i]]
          /\ \A k \in 1 .. n - 1 : s[k].id # id => \E i \in 1 .. Len(t) : at[i] = k
      BY DEF Sifts
<1>2. at \in [1 .. Len(t) -> 1 .. n]
      OBVIOUS
<1>3. \A k \in 1 .. n : s[k].id # id => \E i \in 1 .. Len(t) : at[i] = k
      <2>1. \A k \in 1 .. n : k \in 1 .. n - 1 \/ k = n
            OBVIOUS
      <2> QED BY <1>1, <2>1
<1>4. t \in Seq(S) /\ Len(t) \in 0 .. n
      BY DEF Sifts
<1> QED BY <1>1, <1>2, <1>3, <1>4 DEF Sifts

LEMMA SiftOnto ==
    ASSUME NEW S, NEW t, NEW s, NEW n \in Nat, n > 0, NEW id,
           Sifts(S, t, s, n - 1, id), s[n].id # id, s[n] \in S
    PROVE  Sifts(S, Append(t, s[n]), s, n, id)
<1>1. PICK at \in [1 .. Len(t) -> 1 .. n - 1] :
          /\ \A i, j \in 1 .. Len(t) : i < j => at[i] < at[j]
          /\ \A i \in 1 .. Len(t) : s[at[i]].id # id /\ t[i] = s[at[i]]
          /\ \A k \in 1 .. n - 1 : s[k].id # id => \E i \in 1 .. Len(t) : at[i] = k
      BY DEF Sifts
<1> DEFINE m == Len(t)
<1> DEFINE u == Append(t, s[n])
<1> DEFINE to == [i \in 1 .. m + 1 |-> IF i = m + 1 THEN n ELSE at[i]]
<1>2. t \in Seq(S) /\ m \in 0 .. n - 1 /\ m \in Nat
      BY DEF Sifts
<1>3. /\ u \in Seq(S) /\ Len(u) = m + 1
      /\ \A i \in 1 .. m : u[i] = t[i]
      /\ u[m + 1] = s[n]
      BY <1>2
<1>4. /\ \A i \in 1 .. m + 1 : i \in 1 .. m \/ i = m + 1
      /\ \A i \in 1 .. m : i # m + 1 /\ i \in 1 .. m + 1
      /\ m + 1 \in 1 .. m + 1 /\ m + 1 \in 0 .. n
      BY <1>2
<1> HIDE DEF m, u
<1>5. /\ to[m + 1] = n
      /\ \A i \in 1 .. m : to[i] = at[i] /\ to[i] \in 1 .. n - 1
      BY <1>4 DEF m
<1>6. to \in [1 .. m + 1 -> 1 .. n]
      <2>1. \A i \in 1 .. m : to[i] \in 1 .. n
            BY <1>5
      <2>2. to[m + 1] \in 1 .. n
            BY <1>5
      <2>3. \A i \in 1 .. m + 1 : to[i] \in 1 .. n
            BY <1>4, <2>1, <2>2
      <2> QED BY <2>3
<1> HIDE DEF to
<1>7. ASSUME NEW i \in 1 .. m + 1, NEW j \in 1 .. m + 1, i < j
      PROVE  to[i] < to[j]
      <2>1. i \in 1 .. m
            BY <1>2, <1>7
      <2>2. CASE j \in 1 .. m
            BY <1>1, <1>5, <1>7, <2>1, <2>2 DEF m
      <2>3. CASE j = m + 1
            BY <1>5, <2>1, <2>3
      <2> QED BY <1>4, <2>2, <2>3
<1>8. \A i \in 1 .. m + 1 : s[to[i]].id # id /\ u[i] = s[to[i]]
      BY <1>1, <1>3, <1>4, <1>5 DEF m
<1>9. ASSUME NEW k \in 1 .. n, s[k].id # id
      PROVE  \E i \in 1 .. m + 1 : to[i] = k
      <2>1. CASE k = n
            BY <1>4, <1>5, <2>1
      <2>2. CASE k # n
            <3>1. k \in 1 .. n - 1
                  BY <2>2
            <3>2. PICK i \in 1 .. m : at[i] = k
                  BY <1>1, <1>9, <3>1 DEF m
            <3> QED BY <1>4, <1>5, <3>2
      <2> QED BY <2>1, <2>2
<1>10. \A i \in 1 .. m + 1, j \in 1 .. m + 1 : i < j => to[i] < to[j]
      BY <1>7
<1>11. \A k \in 1 .. n : s[k].id # id => \E i \in 1 .. m + 1 : to[i] = k
      BY <1>9
<1>12. /\ Len(u) \in 0 .. n /\ u \in Seq(S)
       /\ to \in [1 .. Len(u) -> 1 .. n]
       /\ \A i, j \in 1 .. Len(u) : i < j => to[i] < to[j]
       /\ \A i \in 1 .. Len(u) : s[to[i]].id # id /\ u[i] = s[to[i]]
       /\ \A k \in 1 .. n : s[k].id # id => \E i \in 1 .. Len(u) : to[i] = k
      BY <1>3, <1>4, <1>6, <1>8, <1>10, <1>11
<1>13. Sifts(S, u, s, n, id)
      BY <1>12, Zenon DEF Sifts
<1> QED BY <1>13 DEF u

(* A set of numbers that is not empty has a least element; the proofs below   *)
(* go by the least number for which a claim fails.                            *)
LEMMA LeastNumber ==
    ASSUME NEW T, T \subseteq Nat, T # {}
    PROVE  \E x \in T : \A y \in T : x <= y
<1>1. PICK x \in T : \A y \in T : ~(<<y, x>> \in OpToRel(<, Nat))
      BY WFMin, NatLessThanWellFounded
<1>2. \A y \in T : y < x => <<y, x>> \in OpToRel(<, Nat)
      BY DEF OpToRel
<1>3. \A y \in T : ~(y < x)
      BY <1>1, <1>2
<1>4. \A y \in T : x <= y
      BY <1>3
<1> QED BY <1>4

Loop(f, s, n, id) ==
    f = [k \in 0 .. n |-> IF k = 0 THEN <<>>
                          ELSE IF s[k].id # id THEN Append(f[k - 1], s[k]) ELSE f[k - 1]]

(* The loop's function exists up to any length. *)
LEMMA LoopExists ==
    ASSUME NEW s, NEW id, NEW n \in Nat
    PROVE  \E f : Loop(f, s, n, id)
<1> DEFINE T == {m \in Nat : ~ \E f : Loop(f, s, m, id)}
<1> SUFFICES ASSUME T # {} PROVE FALSE
    OBVIOUS
<1>1. PICK m \in T : \A k \in T : m <= k
      BY LeastNumber
<1>2. m # 0
      <2> DEFINE f == [k \in 0 .. 0 |-> <<>>]
      <2>1. Loop(f, s, 0, id)
            BY DEF Loop
      <2> QED BY <2>1
<1>3. m - 1 \in Nat /\ m - 1 \notin T
      BY <1>1, <1>2
<1>4. PICK f : Loop(f, s, m - 1, id)
      BY <1>3
<1> DEFINE e == [k \in 0 .. m |-> IF k = m
                                  THEN IF s[m].id # id THEN Append(f[m - 1], s[m]) ELSE f[m - 1]
                                  ELSE f[k]]
<1>5. \A k \in 0 .. m - 1 : e[k] = f[k]
      BY <1>3
<1>6. \A k \in 0 .. m :
         e[k] = IF k = 0 THEN <<>>
                ELSE IF s[k].id # id THEN Append(e[k - 1], s[k]) ELSE e[k - 1]
      <2> SUFFICES ASSUME NEW k \in 0 .. m
                   PROVE  e[k] = IF k = 0 THEN <<>>
                                 ELSE IF s[k].id # id THEN Append(e[k - 1], s[k]) ELSE e[k - 1]
          OBVIOUS
      <2>1. CASE k = m
            <3>1. e[m] = IF s[m].id # id THEN Append(f[m - 1], s[m]) ELSE f[m - 1]
                  OBVIOUS
            <3>2. e[m - 1] = f[m - 1] /\ m # 0
                  BY <1>2, <1>3, <1>5
            <3> HIDE DEF e
            <3> QED BY <2>1, <3>1, <3>2
      <2>2. CASE k # m
            <3>1. k \in 0 .. m - 1 /\ (k # 0 => k - 1 \in 0 .. m - 1)
                  BY <2>2
            <3>2. f[k] = IF k = 0 THEN <<>>
                         ELSE IF s[k].id # id THEN Append(f[k - 1], s[k]) ELSE f[k - 1]
                  BY <1>4, <3>1 DEF Loop
            <3>3. e[k] = f[k] /\ (k # 0 => e[k - 1] = f[k - 1])
                  BY <1>5, <3>1
            <3> HIDE DEF e
            <3> QED BY <3>2, <3>3
      <2> QED BY <2>1, <2>2
<1>7. e = [k \in 0 .. m |-> e[k]]
      OBVIOUS
<1> HIDE DEF e
<1>8. Loop(e, s, m, id)
      BY <1>6, <1>7 DEF Loop
<1> QED BY <1>1, <1>8

(* Hence what Remove keeps. *)
LEMMA RemoveKeeps ==
    ASSUME NEW S, NEW s \in Seq(S), NEW id
    PROVE  Sifts(S, Without(s, id), s, Len(s), id)
<1> DEFINE N == Len(s)
<1> DEFINE f == CHOOSE k : Loop(k, s, N, id)
<1>1. N \in Nat /\ \A n \in 1 .. N : s[n] \in S
      OBVIOUS
<1>2. Without(s, id) = f[N]
      BY DEF Without, Loop
<1>3. Loop(f, s, N, id)
      BY <1>1, LoopExists
<1> HIDE DEF f
<1>4. \A n \in 0 .. N : f[n] = IF n = 0 THEN <<>>
                               ELSE IF s[n].id # id THEN Append(f[n - 1], s[n]) ELSE f[n - 1]
      BY <1>3 DEF Loop
<1> DEFINE T == {n \in 0 .. N : ~ Sifts(S, f[n], s, n, id)}
<1>5. T = {}
      <2> SUFFICES ASSUME T # {} PROVE FALSE
          OBVIOUS
      <2>0. T \subseteq Nat
            BY <1>1
      <2>1. PICK m \in T : \A k \in T : m <= k
            BY <2>0, LeastNumber
      <2>2. m # 0
            <3>1. f[0] = <<>>
                  BY <1>1, <1>4
            <3> QED BY <3>1, SiftNothing
      <2>3. m \in 1 .. N /\ m - 1 \in 0 .. N /\ m \in Nat /\ m > 0 /\ m - 1 \notin T
            BY <1>1, <2>0, <2>1, <2>2
      <2>4. Sifts(S, f[m - 1], s, m - 1, id)
            BY <2>3
      <2>5. f[m] = IF s[m].id # id THEN Append(f[m - 1], s[m]) ELSE f[m - 1]
            BY <1>4, <2>2, <2>3
      <2>6. CASE s[m].id = id
            <3>1. Sifts(S, f[m], s, m, id)
                  BY <2>3, <2>4, <2>5, <2>6, SiftPast
            <3> QED BY <3>1
      <2>7. CASE s[m].id # id
            <3>1. Sifts(S, Append(f[m - 1], s[m]), s, m, id)
                  BY <1>1, <2>3, <2>4, <2>7, SiftOnto
            <3> QED BY <2>5, <2>7, <3>1
      <2> QED BY <2>6, <2>7
<1> QED BY <1>1, <1>2, <1>5

-----------------------------------------------------------------------------
(* The types, with what an id is: one given out before, wherever it is now.  *)
Known(n) == {e \in Entry : e.id <= n}
Slices(n) == [may : Seq(SUBSET Known(n)), live : BOOLEAN, out : Seq(Known(n))]

(* Jobs j under the program counters p: ids up to n, an array of m cells.    *)
JobsOK(j, p, n, m) ==
    /\ j = [g \in Goroutine |-> j[g]]
    /\ \A g \in Goroutine :
          /\ p[g] \in {"marshal", "writing"} => j[g] \in Slices(n)
          /\ p[g] \notin {"marshal", "writing"} => j[g] = None
          /\ p[g] = "marshal" /\ j[g].live => Len(j[g].may) <= m

ListState == /\ nextId \in 0 .. MaxAdds
             /\ cells \in Seq(Known(nextId)) /\ length \in 0 .. Len(cells)
             /\ JobsOK(job, pc, nextId, Len(cells))

Ledger == /\ kind \in {"fleet", "hosts", "remotes"}
          /\ up \in BOOLEAN /\ dirty \in BOOLEAN /\ alone \in BOOLEAN
          /\ CallState /\ ListState
          /\ file \in {Absent, Empty, Garbage} \/ file \in Seq(Known(nextId))

LEMMA KnownGrows ==
    ASSUME NEW n \in Nat, NEW k \in Nat, n <= k
    PROVE  /\ Known(n) \subseteq Known(k)
           /\ Seq(Known(n)) \subseteq Seq(Known(k))
           /\ Slices(n) \subseteq Slices(k)
<1>1. Known(n) \subseteq Known(k)
      <2>1. \A e \in Entry : e.id \in Nat
            BY RegistryAssumption DEF Entry, Id
      <2> QED BY <2>1 DEF Known
<1>2. ASSUME NEW S, NEW T, S \subseteq T
      PROVE  Seq(S) \subseteq Seq(T)
      BY <1>2
<1>3. Seq(Known(n)) \subseteq Seq(Known(k))
      BY <1>1, <1>2
<1>4. Seq(SUBSET Known(n)) \subseteq Seq(SUBSET Known(k))
      BY <1>1, <1>2
<1> QED BY <1>1, <1>3, <1>4 DEF Slices

(* What a list is, position by position. *)
LEMMA ListFacts ==
    ASSUME ListState
    PROVE  /\ nextId \in Nat /\ length \in Nat /\ Len(cells) \in Nat /\ length <= Len(cells)
           /\ list \in Seq(Known(nextId)) /\ Len(list) = length /\ DOMAIN list = 1 .. length
           /\ \A i \in 1 .. length : list[i] = cells[i] /\ cells[i] \in Known(nextId)
<1>1. nextId \in Nat /\ length \in Nat /\ Len(cells) \in Nat /\ length <= Len(cells)
      BY RegistryAssumption DEF ListState
<1>2. \A i \in 1 .. length : cells[i] \in Known(nextId)
      BY <1>1 DEF ListState
<1> DEFINE l == [i \in 1 .. length |-> cells[i]]
<1>3. l \in Seq(Known(nextId)) /\ Len(l) = length /\ DOMAIN l = 1 .. length
      BY <1>1, <1>2
<1>4. \A i \in 1 .. length : l[i] = cells[i]
      OBVIOUS
<1> QED BY <1>1, <1>2, <1>3, <1>4 DEF list

(* Sequences that agree are the same. *)
LEMMA SameSequence ==
    ASSUME NEW S, NEW s \in Seq(S), NEW t \in Seq(S), Len(s) = Len(t),
           \A i \in 1 .. Len(s) : s[i] = t[i]
    PROVE  s = t
OBVIOUS

(* The first entry of an id has it. *)
LEMMA FirstFound ==
    ASSUME ListState, NEW id, Found(id) # {}
    PROVE  First(id) \in 1 .. length /\ cells[First(id)].id = id
<1> DEFINE T == Found(id)
<1>1. T \subseteq Nat
      BY ListFacts DEF Found
<1>2. PICK x \in T : \A y \in T : x <= y
      BY <1>1, LeastNumber
<1>3. First(id) \in T
      BY <1>2 DEF First, Min
<1> QED BY <1>3 DEF Found

(* In-place change of the array. *)
LEMMA OverwriteTypes ==
    ASSUME ListState, NEW n \in Nat, nextId <= n,
           NEW new \in Seq(Known(n)), Len(new) = Len(cells), Overwrite(new)
    PROVE  cells' = new /\ JobsOK(job', pc, n, Len(new))
<1>0. nextId \in Nat /\ Slices(nextId) \subseteq Slices(n) /\ Len(cells) \in Nat
      BY ListFacts, KnownGrows
<1>1. job' = [h \in Goroutine |-> job'[h]] /\ cells' = new
      BY DEF Overwrite
<1>2. ASSUME NEW h \in Goroutine, pc[h] \in {"marshal", "writing"}
      PROVE  /\ job'[h] \in Slices(n)
             /\ pc[h] = "marshal" /\ job'[h].live => Len(job'[h].may) <= Len(new)
      <2>1. job[h] \in Slices(nextId) /\ job[h] \in Slices(n)
            BY <1>0, <1>2 DEF ListState, JobsOK
      <2>2. CASE pc[h] = "marshal" /\ job[h].live
            <3> DEFINE s == job[h].may
            <3> DEFINE may == [i \in DOMAIN s |-> s[i] \cup {new[i]}]
            <3>1. job'[h] = [job[h] EXCEPT !.may = may]
                  BY <2>2 DEF Overwrite
            <3>2. s \in Seq(SUBSET Known(n)) /\ Len(s) <= Len(new)
                  BY <2>1, <2>2 DEF ListState, JobsOK, Slices
            <3> HIDE DEF s
            <3>3. Len(s) \in Nat /\ DOMAIN s = 1 .. Len(s)
                  BY <3>2
            <3>4. \A i \in 1 .. Len(s) : s[i] \subseteq Known(n) /\ new[i] \in Known(n)
                  BY <3>2, <3>3
            <3>5. \A i \in 1 .. Len(s) : s[i] \cup {new[i]} \in SUBSET Known(n)
                  BY <3>4
            <3>6. may \in Seq(SUBSET Known(n)) /\ Len(may) = Len(s)
                  BY <3>3, <3>5
            <3> HIDE DEF may
            <3>7. job'[h] = [may |-> may, live |-> job[h].live, out |-> job[h].out]
                  BY <2>1, <3>1 DEF Slices
            <3>8. job[h].live \in BOOLEAN /\ job[h].out \in Seq(Known(n))
                  BY <2>1 DEF Slices
            <3>9. job'[h].may = may
                  BY <3>7
            <3> QED BY <3>2, <3>6, <3>7, <3>8, <3>9 DEF Slices
      <2>3. CASE ~(pc[h] = "marshal" /\ job[h].live)
            <3>1. job'[h] = job[h]
                  BY <2>3 DEF Overwrite
            <3> QED BY <2>1, <2>3, <3>1
      <2> QED BY <2>2, <2>3
<1>3. ASSUME NEW h \in Goroutine, pc[h] \notin {"marshal", "writing"}
      PROVE  job'[h] = None
      BY <1>3 DEF Overwrite, ListState, JobsOK
<1> QED BY <1>1, <1>2, <1>3 DEF JobsOK

(* append, in place or in a new array: the list grows by the entry. *)
LEMMA AppendTypes ==
    ASSUME ListState, NEW e \in Known(nextId + 1), AppendEntry(e)
    PROVE  /\ cells' \in Seq(Known(nextId + 1)) /\ length + 1 \in 0 .. Len(cells')
           /\ JobsOK(job', pc, nextId + 1, Len(cells'))
           /\ [i \in 1 .. length + 1 |-> cells'[i]] = Append(list, e)
<1> DEFINE n == nextId + 1
<1> DEFINE S == Known(n)
<1>0. /\ nextId \in Nat /\ n \in Nat /\ nextId <= n /\ Slices(nextId) \subseteq Slices(n)
      /\ cells \in Seq(S) /\ list \in Seq(S) /\ Len(cells) \in Nat
      /\ length \in Nat /\ length <= Len(cells) /\ Len(list) = length
      /\ \A i \in 1 .. length : list[i] = cells[i]
      <2>1. nextId \in Nat /\ nextId + 1 \in Nat /\ nextId <= nextId + 1
            BY ListFacts
      <2> QED BY <2>1, ListFacts, KnownGrows DEF ListState
<1>1. e \in S
      OBVIOUS
<1> HIDE DEF S
<1> DEFINE u == Append(list, e)
<1>2. /\ u \in Seq(S) /\ Len(u) = length + 1 /\ u[length + 1] = e
      /\ \A i \in 1 .. length : u[i] = cells[i]
      BY <1>0, <1>1
<1> HIDE DEF u
<1>3. ASSUME NEW new \in Seq(S), Len(new) >= length + 1, new[length + 1] = e,
             \A i \in 1 .. length : new[i] = cells[i]
      PROVE  [i \in 1 .. length + 1 |-> new[i]] = u
      <2> DEFINE v == [i \in 1 .. length + 1 |-> new[i]]
      <2>1. \A i \in 1 .. length + 1 : new[i] \in S /\ new[i] = u[i]
            <3>1. \A i \in 1 .. length + 1 : i \in 1 .. Len(new) /\ (i \in 1 .. length \/ i = length + 1)
                  BY <1>0, <1>3
            <3> QED BY <1>2, <1>3, <3>1
      <2>2. v \in Seq(S) /\ Len(v) = length + 1
            BY <1>0, <2>1
      <2>3. \A i \in 1 .. length + 1 : v[i] = u[i]
            BY <2>1
      <2> HIDE DEF v
      <2>4. v = u
            BY <1>2, <2>2, <2>3, SameSequence
      <2> QED BY <2>4 DEF v
<1>4. CASE length < Len(cells) /\ Overwrite([cells EXCEPT ![length + 1] = e])
      <2> DEFINE new == [cells EXCEPT ![length + 1] = e]
      <2>1. /\ new \in Seq(S) /\ Len(new) = Len(cells) /\ new[length + 1] = e
            /\ \A i \in 1 .. length : new[i] = cells[i]
            BY <1>0, <1>1, <1>4
      <2> HIDE DEF new
      <2>2. cells' = new /\ JobsOK(job', pc, n, Len(new))
            BY <1>0, <1>4, <2>1, OverwriteTypes DEF new, S
      <2>3. length + 1 \in 0 .. Len(cells') /\ Len(new) >= length + 1
            BY <1>0, <1>4, <2>1, <2>2
      <2> QED BY <1>3, <2>1, <2>2, <2>3 DEF S, u
<1>5. ASSUME length = Len(cells), NEW spare \in 0 .. MaxSpare,
             cells' = list \o [i \in 1 .. spare + 1 |-> e],
             job' = [g \in Goroutine |-> IF job[g] = None THEN None ELSE [job[g] EXCEPT !.live = FALSE]]
      PROVE  /\ cells' \in Seq(S) /\ length + 1 \in 0 .. Len(cells')
             /\ JobsOK(job', pc, n, Len(cells'))
             /\ [i \in 1 .. length + 1 |-> cells'[i]] = u
      <2> DEFINE more == [i \in 1 .. spare + 1 |-> e]
      <2>0. spare \in Nat /\ spare + 1 \in Nat
            BY RegistryAssumption
      <2>1. more \in Seq(S) /\ Len(more) = spare + 1 /\ more[1] = e
            BY <1>1, <2>0
      <2> HIDE DEF more
      <2> DEFINE new == list \o more
      <2>a. /\ new \in Seq(S) /\ Len(new) = length + (spare + 1)
            /\ \A i \in 1 .. length + (spare + 1) :
                  new[i] = IF i <= length THEN list[i] ELSE more[i - length]
            BY <1>0, <2>1, ConcatProperties
      <2>b. (length + 1) - length = 1 /\ ~(length + 1 <= length)
            /\ length + 1 \in 1 .. length + (spare + 1)
            BY <1>0, <2>0
      <2>c. \A i \in 1 .. length : i \in 1 .. length + (spare + 1) /\ i <= length
            BY <1>0, <2>0
      <2> HIDE DEF new
      <2>2. /\ new \in Seq(S) /\ Len(new) = length + (spare + 1) /\ new[length + 1] = e
            /\ \A i \in 1 .. length : new[i] = cells[i]
            BY <1>0, <2>1, <2>a, <2>b, <2>c
      <2>3. cells' = new
            BY <1>5 DEF more, new
      <2>4. Len(new) >= length + 1 /\ Len(new) \in Nat /\ length + 1 \in 0 .. Len(new)
            BY <1>0, <2>0, <2>2
      <2>5. [i \in 1 .. length + 1 |-> new[i]] = u
            BY <1>3, <2>2, <2>4
      <2>6. job' = [h \in Goroutine |-> job'[h]]
            BY <1>5
      <2>7. ASSUME NEW h \in Goroutine, pc[h] \in {"marshal", "writing"}
            PROVE  /\ job'[h] \in Slices(n)
                   /\ pc[h] = "marshal" /\ job'[h].live => Len(job'[h].may) <= Len(new)
            <3>1. job[h] \in Slices(n) /\ (pc[h] = "marshal" /\ job[h].live => Len(job[h].may) <= Len(cells))
                  BY <1>0, <2>7 DEF ListState, JobsOK
            <3>2. CASE job[h] = None
                  <4>1. job'[h] = job[h]
                        BY <1>5, <3>2
                  <4>2. Len(job[h].may) \in Nat
                        BY <3>1 DEF Slices
                  <4>3. Len(cells) <= Len(new)
                        BY <1>0, <1>5, <2>0, <2>2
                  <4>4. pc[h] = "marshal" /\ job[h].live => Len(job[h].may) <= Len(new)
                        BY <1>0, <2>4, <3>1, <4>2, <4>3
                  <4> QED BY <3>1, <4>1, <4>4
            <3>3. CASE job[h] # None
                  <4>1. job'[h] = [job[h] EXCEPT !.live = FALSE]
                        BY <1>5, <3>3
                  <4>2. job'[h] = [may |-> job[h].may, live |-> FALSE, out |-> job[h].out]
                        BY <3>1, <4>1 DEF Slices
                  <4>3. ~job'[h].live
                        BY <4>2
                  <4> QED BY <3>1, <4>2, <4>3 DEF Slices
            <3> QED BY <3>2, <3>3
      <2>8. ASSUME NEW h \in Goroutine, pc[h] \notin {"marshal", "writing"}
            PROVE  job'[h] = None
            <3>1. job[h] = None
                  BY <2>8 DEF ListState, JobsOK
            <3> QED BY <1>5, <3>1
      <2> QED BY <2>2, <2>3, <2>4, <2>5, <2>6, <2>7, <2>8 DEF JobsOK
<1>6. CASE length < Len(cells) /\ Overwrite([cells EXCEPT ![length + 1] = e])
      BY <1>4, <1>6
<1> QED BY <1>4, <1>5 DEF AppendEntry, S, u

-----------------------------------------------------------------------------
(* Every call is one of the plain list's, and keeps the types.               *)
CallStep(g) == /\ ListState' /\ CallState' /\ nextId <= nextId'
               /\ up /\ UNCHANGED <<kind, up, file, alone>>
               /\ dirty \in BOOLEAN => dirty' \in BOOLEAN
               /\ L!AddOne \/ L!ReplaceOne \/ L!RemoveId \/ UNCHANGED list

(* The call is over but for its save. *)
LEMMA OwingTypes ==
    ASSUME CallState, NEW g \in Goroutine, pc[g] = "idle", pc' = [pc EXCEPT ![g] = "owing"],
           NEW j, NEW n, NEW m, JobsOK(j, pc, n, m)
    PROVE  CallState' /\ JobsOK(j, pc', n, m)
BY DEF CallState, JobsOK

LEMMA AddStep ==
    ASSUME ListState, CallState, NEW g \in Goroutine, up, pc[g] = "idle",
           NEW e \in Entry, Add(g, e)
    PROVE  CallStep(g)
<1> DEFINE n == nextId + 1
<1>1. nextId \in Nat /\ n \in Nat /\ n \in 0 .. MaxAdds /\ nextId <= n
      BY ListFacts, RegistryAssumption DEF Add, ListState
<1>2. e \in Known(nextId + 1) /\ e.id = nextId + 1
      BY <1>1 DEF Add, Known
<1>3. /\ cells' \in Seq(Known(n)) /\ length + 1 \in 0 .. Len(cells')
      /\ JobsOK(job', pc, n, Len(cells'))
      /\ [i \in 1 .. length + 1 |-> cells'[i]] = Append(list, e)
      BY <1>2, AppendTypes DEF Add
<1>4. nextId' = n /\ length' = length + 1 /\ pc' = [pc EXCEPT ![g] = "owing"]
      BY DEF Add, Changed
<1>5. CallState' /\ JobsOK(job', pc', n, Len(cells'))
      BY <1>3, <1>4, OwingTypes
<1>6. ListState'
      BY <1>1, <1>3, <1>4, <1>5 DEF ListState
<1>7. list' = Append(list, e)
      BY <1>3, <1>4 DEF list
<1>8. ASSUME NEW i \in DOMAIN list
      PROVE  list[i].id # e.id
      <2>1. list[i] \in Known(nextId)
            BY ListFacts
      <2>2. list[i].id <= nextId /\ list[i].id \in Nat
            BY <2>1, RegistryAssumption DEF Known, Entry, Id
      <2> QED BY <1>1, <1>2, <2>2
<1>9. L!AddOne
      BY <1>7, <1>8 DEF L!AddOne, L!Unused
<1> QED BY <1>1, <1>4, <1>5, <1>6, <1>9 DEF CallStep, Add, Changed

LEMMA ReplaceStep ==
    ASSUME ListState, CallState, NEW g \in Goroutine, up, pc[g] = "idle",
           NEW id, Found(id) # {}, NEW e \in Entry, e.id = id,
           cells[First(id)].seen => e.seen, Replace(g, id, e)
    PROVE  CallStep(g)
<1> DEFINE x == First(id)
<1>1. x \in 1 .. length /\ cells[x].id = id
      BY FirstFound
<1> HIDE DEF x
<1>2. /\ nextId \in Nat /\ length \in Nat /\ length <= Len(cells) /\ Len(cells) \in Nat
      /\ DOMAIN list = 1 .. length /\ \A i \in 1 .. length : list[i] = cells[i]
      /\ cells[x] \in Known(nextId) /\ list \in Seq(Known(nextId)) /\ Len(list) = length
      BY <1>1, ListFacts
<1>3. e \in Known(nextId)
      BY <1>1, <1>2 DEF Known
<1> DEFINE new == [cells EXCEPT ![x] = e]
<1>4. new \in Seq(Known(nextId)) /\ Len(new) = Len(cells)
      BY <1>1, <1>2, <1>3 DEF ListState
<1>5. Overwrite(new)
      BY DEF Replace, x
<1>6. \A i \in 1 .. length : new[i] = IF i = x THEN e ELSE cells[i]
      BY <1>1, <1>2 DEF ListState
<1> HIDE DEF new
<1>7. cells' = new /\ JobsOK(job', pc, nextId, Len(new))
      BY <1>2, <1>4, <1>5, OverwriteTypes
<1>8. nextId' = nextId /\ length' = length /\ pc' = [pc EXCEPT ![g] = "owing"]
      BY DEF Replace, Changed
<1>9. CallState' /\ JobsOK(job', pc', nextId, Len(new))
      BY <1>7, <1>8, OwingTypes
<1>10. ListState'
      BY <1>2, <1>4, <1>7, <1>8, <1>9 DEF ListState
<1>11. list' = [list EXCEPT ![x] = e]
      <2>1. list' = [i \in 1 .. length |-> new[i]]
            BY <1>7, <1>8 DEF list
      <2>2. list = [i \in 1 .. length |-> list[i]]
            BY DEF list
      <2> QED BY <1>2, <1>6, <2>1, <2>2
<1>12. list[x] = cells[x]
      BY <1>1, <1>2
<1>13. L!ReplaceOne
      BY <1>1, <1>2, <1>11, <1>12 DEF L!ReplaceOne, x
<1> QED BY <1>2, <1>8, <1>9, <1>10, <1>13 DEF CallStep, Replace, Changed

(* Filtered in place: the entries kept come first, the array is as long. *)
LEMMA RemoveStep ==
    ASSUME ListState, CallState, NEW g \in Goroutine, up, pc[g] = "idle",
           NEW id \in Id, Remove(g, id)
    PROVE  CallStep(g)
<1> DEFINE S == Known(nextId)
<1> DEFINE kept == Without(list, id)
<1>1. /\ nextId \in Nat /\ length \in Nat /\ length <= Len(cells) /\ Len(cells) \in Nat
      /\ list \in Seq(S) /\ Len(list) = length /\ DOMAIN list = 1 .. length
      /\ cells \in Seq(S)
      BY ListFacts DEF ListState
<1>2. Sifts(S, kept, list, length, id)
      BY <1>1, RemoveKeeps
<1> DEFINE rest == SubSeq(cells, Len(kept) + 1, Len(cells))
<1>3. /\ Overwrite(kept \o rest) /\ length' = Len(kept) /\ nextId' = nextId
      /\ pc' = [pc EXCEPT ![g] = "owing"]
      BY DEF Remove, Changed
<1> HIDE DEF kept
<1>4. kept \in Seq(S) /\ Len(kept) \in 0 .. length /\ Len(kept) \in Nat
      BY <1>1, <1>2 DEF Sifts
<1>5. rest \in Seq(S) /\ Len(rest) = Len(cells) - Len(kept)
      <2>1. \A i \in Len(kept) + 1 .. Len(cells) : cells[i] \in S
            BY <1>1, <1>4
      <2>2. /\ SubSeq(cells, Len(kept) + 1, Len(cells)) \in Seq(S)
            /\ Len(SubSeq(cells, Len(kept) + 1, Len(cells)))
               = IF Len(kept) + 1 <= Len(cells) THEN Len(cells) - (Len(kept) + 1) + 1 ELSE 0
            BY <1>1, <1>4, <2>1, SubSeqProperties
      <2> QED BY <1>1, <1>4, <2>2
<1> HIDE DEF rest, S
<1> DEFINE new == kept \o rest
<1>6. /\ new \in Seq(S) /\ Len(new) = Len(cells)
      /\ \A i \in 1 .. Len(kept) : new[i] = kept[i]
      <2>1. /\ new \in Seq(S) /\ Len(new) = Len(kept) + Len(rest)
            /\ \A i \in 1 .. Len(kept) + Len(rest) :
                  new[i] = IF i <= Len(kept) THEN kept[i] ELSE rest[i - Len(kept)]
            BY <1>4, <1>5, ConcatProperties
      <2>2. Len(rest) \in Nat
            BY <1>5
      <2>3. \A i \in 1 .. Len(kept) : i \in 1 .. Len(kept) + Len(rest) /\ i <= Len(kept)
            BY <1>4, <2>2
      <2>4. Len(kept) + Len(rest) = Len(cells)
            BY <1>1, <1>4, <1>5
      <2> QED BY <2>1, <2>3, <2>4
<1>7. Overwrite(new)
      BY <1>3
<1> HIDE DEF new
<1>8. cells' = new /\ JobsOK(job', pc, nextId, Len(new))
      BY <1>1, <1>6, <1>7, OverwriteTypes DEF S
<1>9. CallState' /\ JobsOK(job', pc', nextId, Len(new))
      BY <1>3, <1>8, OwingTypes
<1>10. Len(kept) \in 0 .. Len(new)
      BY <1>1, <1>4, <1>6
<1>11. ListState'
      BY <1>3, <1>6, <1>8, <1>9, <1>10 DEF ListState, S
<1>12. list' = kept
      <2>1. list' = [i \in 1 .. Len(kept) |-> new[i]]
            BY <1>3, <1>8 DEF list
      <2>2. kept = [i \in 1 .. Len(kept) |-> kept[i]]
            BY <1>4
      <2>3. [i \in 1 .. Len(kept) |-> new[i]] = [i \in 1 .. Len(kept) |-> kept[i]]
            BY <1>6
      <2> QED BY <2>1, <2>2, <2>3
<1>13. L!RemoveId
      <2>1. PICK at \in [1 .. Len(kept) -> 1 .. length] :
               /\ \A i, j \in 1 .. Len(kept) : i < j => at[i] < at[j]
               /\ \A i \in 1 .. Len(kept) : list[at[i]].id # id /\ kept[i] = list[at[i]]
               /\ \A k \in 1 .. length : list[k].id # id => \E i \in 1 .. Len(kept) : at[i] = k
            BY <1>2 DEF Sifts
      <2>2. DOMAIN kept = 1 .. Len(kept)
            BY <1>4
      <2>3. {at[i] : i \in DOMAIN kept} = {i \in DOMAIN list : list[i].id # id}
            <3>1. \A i \in 1 .. Len(kept) : at[i] \in {k \in 1 .. length : list[k].id # id}
                  BY <2>1
            <3>2. \A k \in {k \in 1 .. length : list[k].id # id} : \E i \in 1 .. Len(kept) : at[i] = k
                  BY <2>1
            <3>3. {at[i] : i \in 1 .. Len(kept)} = {k \in 1 .. length : list[k].id # id}
                  BY <3>1, <3>2
            <3> QED BY <1>1, <2>2, <3>3
      <2>4. kept = [i \in DOMAIN kept |-> list[at[i]]]
            <3>1. kept = [i \in DOMAIN kept |-> kept[i]]
                  BY <1>4
            <3> QED BY <2>1, <2>2, <3>1
      <2>5. at \in [DOMAIN kept -> DOMAIN list] /\ \A i, j \in DOMAIN kept : i < j => at[i] < at[j]
            BY <1>1, <2>1, <2>2
      <2> QED BY <1>12, <2>3, <2>4, <2>5 DEF L!RemoveId
<1> QED BY <1>1, <1>3, <1>9, <1>11, <1>13 DEF CallStep, Remove, Changed

LEMMA CallTypes ==
    ASSUME ListState, CallState, NEW g \in Goroutine, Call(g)
    PROVE  CallStep(g)
<1>0. up /\ pc[g] = "idle"
      BY DEF Call
<1>1. ASSUME NEW id \in Id, Found(id) # {}
      PROVE  /\ cells[First(id)] \in Entry /\ cells[First(id)].id = id
             /\ cells[First(id)].seen \in BOOLEAN
      <2>1. First(id) \in 1 .. length /\ cells[First(id)].id = id
            BY <1>1, FirstFound
      <2>2. cells[First(id)] \in Known(nextId)
            BY <2>1, ListFacts
      <2> QED BY <2>1, <2>2 DEF Known, Entry
<1>2. ASSUME NEW e, Add(g, e), e \in [id : {nextId + 1}, body : Body \cup {Blank}, seen : BOOLEAN]
      PROVE  CallStep(g)
      <2>1. nextId + 1 \in Id
            BY <1>2, ListFacts, RegistryAssumption DEF Add, Id
      <2>2. e \in Entry
            BY <1>2, <2>1 DEF Entry
      <2> QED BY <1>0, <1>2, <2>2, AddStep
<1>3. ASSUME NEW id \in Id, NEW body \in Body \cup {Blank}, NEW seen \in BOOLEAN,
             Found(id) # {}, cells[First(id)].seen => seen,
             Replace(g, id, [id |-> id, body |-> body, seen |-> seen])
      PROVE  CallStep(g)
      <2> DEFINE e == [id |-> id, body |-> body, seen |-> seen]
      <2>1. e \in Entry /\ e.id = id /\ e.seen = seen
            BY DEF Entry
      <2>2. Replace(g, id, e)
            BY <1>3
      <2> HIDE DEF e
      <2> QED BY <1>0, <1>3, <2>1, <2>2, ReplaceStep
<1>4. ASSUME NEW id \in Id, Touch(g, id)
      PROVE  CallStep(g)
      <2>1. CASE NotFound(g, id)
            <3>1. UNCHANGED <<listVars, job, kind, up, file, alone, dirty>>
                  BY <2>1 DEF NotFound
            <3>2. CallState' /\ JobsOK(job, pc', nextId, Len(cells))
                  BY <1>0, <2>1, OwingTypes DEF NotFound, ListState
            <3>3. ListState' /\ UNCHANGED list /\ nextId <= nextId'
                  BY <3>1, <3>2, ListFacts DEF ListState, listVars, list
            <3> QED BY <1>0, <3>1, <3>2, <3>3 DEF CallStep
      <2>2. CASE Found(id) # {} /\ Replace(g, id, [cells[First(id)] EXCEPT !.seen = TRUE])
            <3> DEFINE e == [cells[First(id)] EXCEPT !.seen = TRUE]
            <3>1. e \in Entry /\ e.id = id /\ e.seen = TRUE
                  BY <1>1, <2>2 DEF Entry
            <3>2. Replace(g, id, e) /\ Found(id) # {}
                  BY <2>2
            <3> HIDE DEF e
            <3> QED BY <1>0, <3>1, <3>2, ReplaceStep
      <2> QED BY <1>4, <2>1, <2>2 DEF Touch
<1>5. ASSUME NEW id \in Id, Remove(g, id)
      PROVE  CallStep(g)
      BY <1>0, <1>5, RemoveStep
<1>6. ASSUME NEW id \in Id, NEW hw \in Body \cup {Blank}, Found(id) # {}, Replace(g, id, Machine(id, hw))
      PROVE  CallStep(g)
      BY <1>3, <1>6 DEF Machine
<1>7. ASSUME NEW id \in Id, NEW body \in Body \cup {Blank}, Found(id) # {},
             Replace(g, id, UpdatedHost(id, body))
      PROVE  CallStep(g)
      BY <1>1, <1>3, <1>7 DEF UpdatedHost
<1>8. CASE FleetCall(g)
      <2>1. ASSUME NEW hw \in Body \cup {Blank}, Add(g, Machine(nextId + 1, hw))
            PROVE  CallStep(g)
            BY <1>2, <2>1 DEF Machine
      <2> QED BY <1>4, <1>5, <1>6, <1>8, <2>1 DEF FleetCall
<1>9. ASSUME NEW body \in Body, Add(g, HostEntry(body))
      PROVE  CallStep(g)
      BY <1>2, <1>9 DEF HostEntry
<1>10. CASE HostCall(g)
      BY <1>4, <1>5, <1>7, <1>9, <1>10 DEF HostCall
<1>11. CASE RemoteCall(g)
      BY <1>5, <1>7, <1>9, <1>11 DEF RemoteCall
<1> QED BY <1>8, <1>10, <1>11 DEF Call

(* A save changes no entry and invents none. *)
LEMMA SaveTypes ==
    ASSUME Ledger, NEW g \in Goroutine, Save(g)
    PROVE  Ledger' /\ UNCHANGED <<list, up>>
<1> USE DEF Ledger
<1>0. \A h \in Goroutine : pc[h] \in {"idle", "owing", "marshal", "writing"}
      BY DEF CallState
<1>1. UNCHANGED <<kind, up, cells, length, nextId>> /\ UNCHANGED list
      BY DEF Save, SnapshotClean, Snapshot, Open, OpenFails, Write, WriteFails, listVars, list
<1>2. ASSUME NEW p \in {"idle", "marshal", "writing"}, pc' = [pc EXCEPT ![g] = p], NEW s,
             job' = [job EXCEPT ![g] = s],
             p = "idle" => s = None,
             p # "idle" => s \in Slices(nextId),
             p = "marshal" => Len(s.may) <= Len(cells)
      PROVE  CallState' /\ ListState'
      <2>1. CallState'
            BY <1>2 DEF CallState
      <2>2. \A h \in Goroutine \ {g} : pc'[h] = pc[h] /\ job'[h] = job[h]
            BY <1>2 DEF CallState, ListState, JobsOK
      <2>3. pc'[g] = p /\ job'[g] = s
            BY <1>2 DEF CallState, ListState, JobsOK
      <2>4. job' = [h \in Goroutine |-> job'[h]]
            BY <1>2 DEF ListState, JobsOK
      <2>5. JobsOK(job', pc', nextId, Len(cells))
            BY <1>2, <2>2, <2>3, <2>4 DEF ListState, JobsOK
      <2> QED BY <1>1, <2>1, <2>5 DEF ListState
<1>3. CASE SnapshotClean(g)
      <2>1. job' = job /\ pc[g] = "owing" /\ pc' = [pc EXCEPT ![g] = "idle"]
            BY <1>3 DEF SnapshotClean
      <2>2. job[g] = None /\ job' = [job EXCEPT ![g] = None]
            BY <2>1 DEF ListState, JobsOK
      <2>3. CallState' /\ ListState'
            BY <1>2, <2>1, <2>2
      <2> QED BY <1>1, <1>3, <2>3 DEF SnapshotClean
<1>4. CASE Snapshot(g)
      <2> DEFINE may == [i \in 1 .. length |-> {cells[i]}]
      <2>1. may \in Seq(SUBSET Known(nextId)) /\ Len(may) <= Len(cells)
            <3>1. \A i \in 1 .. length : {cells[i]} \in SUBSET Known(nextId)
                  BY ListFacts
            <3> QED BY <3>1, ListFacts
      <2> HIDE DEF may
      <2> DEFINE s == [may |-> may, live |-> TRUE, out |-> <<>>]
      <2>2. s \in Slices(nextId) /\ Len(s.may) <= Len(cells)
            BY <2>1 DEF Slices
      <2>3. job' = [job EXCEPT ![g] = s]
            BY <1>4 DEF Snapshot, may
      <2> HIDE DEF s
      <2>4. CallState' /\ ListState'
            BY <1>2, <1>4, <2>2, <2>3 DEF Snapshot
      <2> QED BY <1>1, <1>4, <2>4 DEF Snapshot
<1>5. CASE Open(g)
      <2>1. PICK out \in [DOMAIN job[g].may -> UNION {Readings(job[g].may[i]) : i \in DOMAIN job[g].may}] :
                 /\ \A i \in DOMAIN out : out[i] \in Readings(job[g].may[i])
                 /\ job' = [job EXCEPT ![g] = [may |-> <<>>, live |-> FALSE, out |-> out]]
            BY <1>5 DEF Open
      <2>2. job[g].may \in Seq(SUBSET Known(nextId))
            BY <1>5 DEF Open, ListState, JobsOK, Slices
      <2> DEFINE k == Len(job[g].may)
      <2>3. k \in Nat /\ DOMAIN job[g].may = 1 .. k
            BY <2>2
      <2>4. ASSUME NEW i \in 1 .. k
            PROVE  out[i] \in Known(nextId)
            <3>1. out[i] \in Readings(job[g].may[i]) /\ job[g].may[i] \subseteq Known(nextId)
                  BY <2>1, <2>2, <2>3
            <3>2. ASSUME NEW e \in Known(nextId)
                  PROVE  [id |-> e.id, body |-> Scrambled, seen |-> e.seen] \in Known(nextId)
                  BY DEF Known, Entry
            <3> QED BY <3>1, <3>2 DEF Readings
      <2> HIDE DEF k
      <2>5. out \in Seq(Known(nextId))
            <3>1. out = [i \in 1 .. k |-> out[i]]
                  BY <2>1, <2>3
            <3>2. [i \in 1 .. k |-> out[i]] \in Seq(Known(nextId))
                  BY <2>3, <2>4
            <3> QED BY <3>1, <3>2
      <2> DEFINE s == [may |-> <<>>, live |-> FALSE, out |-> out]
      <2>6. s \in Slices(nextId)
            BY <2>5 DEF Slices
      <2>7. job' = [job EXCEPT ![g] = s]
            BY <2>1
      <2> HIDE DEF s
      <2>8. CallState' /\ ListState'
            BY <1>2, <1>5, <2>6, <2>7 DEF Open
      <2> QED BY <1>1, <1>5, <2>8 DEF Open
<1>6. CASE OpenFails(g)
      <2>1. CallState' /\ ListState'
            BY <1>2, <1>6 DEF OpenFails
      <2> QED BY <1>1, <1>6, <2>1 DEF OpenFails
<1>7. CASE Write(g)
      <2>1. CallState' /\ ListState'
            BY <1>2, <1>7 DEF Write
      <2>2. job[g].out \in Seq(Known(nextId))
            BY <1>7 DEF Write, ListState, JobsOK, Slices
      <2> QED BY <1>1, <1>7, <2>1, <2>2 DEF Write
<1>8. CASE WriteFails(g)
      <2>1. CallState' /\ ListState'
            BY <1>2, <1>8 DEF WriteFails
      <2> QED BY <1>1, <1>8, <2>1 DEF WriteFails
<1> QED BY <1>3, <1>4, <1>5, <1>6, <1>7, <1>8 DEF Save

LEMMA QuitTypes ==
    ASSUME Ledger, Quit
    PROVE  Ledger' /\ L!Stop
<1>1. cells' = <<>> /\ length' = 0 /\ nextId' = nextId /\ Len(<<>>) = 0
      BY DEF Quit
<1>2. JobsOK(job', pc', nextId, 0)
      BY DEF Quit, JobsOK
<1>3. 0 \in 0 .. 0 /\ <<>> \in Seq(Known(nextId))
      OBVIOUS
<1>4. ListState'
      BY <1>1, <1>2, <1>3 DEF Ledger, ListState
<1>5. list' = <<>>
      BY <1>1 DEF list
<1> QED BY <1>4, <1>5 DEF Ledger, Quit, CallState, L!Stop

LEMMA BootTypes ==
    ASSUME Ledger, Boot, Down
    PROVE  Ledger' /\ L!Start
<1>1. Load \in Seq(Known(nextId))
      BY DEF Ledger, Load
<1>2. cells' = Load /\ length' = Len(Load) /\ UNCHANGED <<nextId, pc, job>>
      BY DEF Boot
<1>3. Len(Load) \in 0 .. Len(Load)
      BY <1>1
<1>4. JobsOK(job, pc, nextId, Len(Load))
      <2>1. \A g \in Goroutine : pc[g] = "idle"
            BY DEF Boot, Down
      <2> QED BY <2>1 DEF Ledger, ListState, JobsOK
<1>5. ListState'
      BY <1>1, <1>2, <1>3, <1>4 DEF Ledger, ListState
<1>6. CallState'
      BY <1>2 DEF Ledger, CallState
<1>7. file' = file /\ kind' = kind /\ up' = TRUE /\ dirty' = dirty /\ alone' \in BOOLEAN /\ ~up
      BY DEF Boot
<1> QED BY <1>2, <1>5, <1>6, <1>7 DEF Ledger, L!Start

(* One step: the types are kept, and it is a step of the plain list. *)
LEMMA ListStep ==
    ASSUME Ledger, Down, [Next]_vars
    PROVE  Ledger' /\ [L!Next]_(L!vars)
<1>1. ASSUME NEW g \in Goroutine, Call(g)
      PROVE  Ledger' /\ [L!Next]_(L!vars)
      <2>1. CallStep(g)
            BY <1>1, CallTypes DEF Ledger
      <2>2. nextId \in Nat /\ nextId' \in Nat
            BY <2>1, RegistryAssumption DEF CallStep, Ledger, ListState
      <2>3. Seq(Known(nextId)) \subseteq Seq(Known(nextId'))
            BY <2>1, <2>2, KnownGrows DEF CallStep
      <2>4. file' \in {Absent, Empty, Garbage} \/ file' \in Seq(Known(nextId'))
            BY <2>1, <2>3 DEF CallStep, Ledger
      <2>5. Ledger'
            BY <2>1, <2>4 DEF CallStep, Ledger
      <2>6. [L!Next]_(L!vars)
            BY <2>1 DEF CallStep, L!Next, L!vars
      <2> QED BY <2>5, <2>6
<1>2. ASSUME NEW g \in Goroutine, Save(g)
      PROVE  Ledger' /\ [L!Next]_(L!vars)
      BY <1>2, SaveTypes DEF L!vars
<1>3. CASE Quit
      BY <1>3, QuitTypes DEF L!Next
<1>4. CASE Boot
      BY <1>4, BootTypes DEF L!Next
<1>5. CASE UNCHANGED vars
      <2>1. UNCHANGED <<kind, up, cells, length, nextId, dirty, pc, job, file, alone>>
            BY <1>5 DEF vars, listVars
      <2>2. Ledger'
            BY <2>1 DEF Ledger, ListState, CallState
      <2>3. UNCHANGED <<list, up>>
            BY <2>1 DEF list
      <2> QED BY <2>2, <2>3 DEF L!vars
<1> QED BY <1>1, <1>2, <1>3, <1>4, <1>5 DEF Next

LEMMA ListInit == Init => Ledger /\ list = <<>> /\ ~up
<1> SUFFICES ASSUME Init PROVE Ledger /\ list = <<>> /\ ~up
    OBVIOUS
<1>1. cells = <<>> /\ length = 0 /\ nextId = 0 /\ Len(<<>>) = 0 /\ 0 \in 0 .. 0
      BY DEF Init
<1>2. 0 \in 0 .. MaxAdds /\ <<>> \in Seq(Known(0))
      BY RegistryAssumption
<1>3. JobsOK(job, pc, 0, 0)
      BY DEF Init, JobsOK
<1>4. ListState
      BY <1>1, <1>2, <1>3 DEF ListState
<1>5. list = <<>>
      BY <1>1 DEF list
<1> QED BY <1>4, <1>5 DEF Init, Ledger, CallState

THEOREM LedgerInvariant == Spec => []Ledger
<1>1. Init => Ledger
      BY ListInit
<1>2. RegistryInv => Down
      BY DEF RegistryInv
<1>3. Ledger /\ Down /\ [Next]_vars => Ledger'
      BY ListStep
<1> QED BY <1>1, <1>2, <1>3, RegistryInvariant, PTL DEF Spec

(* The list fits its array, only a call that saves holds a slice, and the    *)
(* file of fleet, hosts or remotes holds entries, whatever is read or lost.  *)
THEOREM RegistryTypeCorrect == Spec => []TypeOK
<1>1. Ledger => TypeOK
      <2> SUFFICES ASSUME Ledger
                   PROVE  TypeOK
          OBVIOUS
      <2>1. nextId \in Nat /\ Known(nextId) \subseteq Entry
            BY RegistryAssumption DEF Ledger, ListState, Known
      <2>2. ASSUME NEW S, NEW T, S \subseteq T
            PROVE  Seq(S) \subseteq Seq(T)
            BY <2>2
      <2>3. /\ Seq(Known(nextId)) \subseteq Seq(Entry)
            /\ Seq(SUBSET Known(nextId)) \subseteq Seq(SUBSET Entry)
            BY <2>1, <2>2
      <2>4. Slices(nextId) \subseteq Job
            BY <2>3 DEF Slices, Job
      <2>5. \A g \in Goroutine :
                IF pc[g] \in {"marshal", "writing"} THEN job[g] \in Job ELSE job[g] = None
            BY <2>4 DEF Ledger, ListState, JobsOK
      <2> QED BY <2>3, <2>5 DEF Ledger, ListState, CallState, TypeOK
<1> QED BY <1>1, LedgerInvariant, PTL

(* The registries implement a plain list: an array that is shared with what  *)
(* is being saved, filtered in place and grown into another one shows in     *)
(* nothing that the calls of fleet, hosts and remotes do to their list.      *)
THEOREM RegistryImplementsList == Spec => ListSpec
<1>1. Init => list = <<>> /\ ~up
      BY ListInit
<1>2. RegistryInv => Down
      BY DEF RegistryInv
<1>3. Ledger /\ Down /\ [Next]_vars => [L!Next]_(L!vars)
      BY ListStep
<1> QED BY <1>1, <1>2, <1>3, LedgerInvariant, RegistryInvariant, PTL DEF Spec, ListSpec, L!Spec
=============================================================================
