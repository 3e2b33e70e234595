------------------------------ MODULE Registry ------------------------------
(***************************************************************************)
(* The desktop's three saved lists: internal/fleet (machines), internal/    *)
(* hosts (SSH hosts) and internal/remotes (endpoints).  They are the same   *)
(* program with different calls: a mutex, a slice, a dirty flag, and a      *)
(* save() that takes the slice under the lock, clears the flag, and then,   *)
(* with the lock released, marshals it and writes the file.                 *)
(*                                                                          *)
(* The slice save() takes is not a copy: it shares its array with the list,  *)
(* and later calls change that array in place, Remove included.  A marshal   *)
(* that runs meanwhile is a data race; for each position it may find any     *)
(* value the cell had while it ran, or the fields of several of them.        *)
(* Every call runs on a goroutine of its own, as the desktop's frontend      *)
(* calls do (and as TouchSeen of hosts does for its save alone).             *)
(***************************************************************************)
EXTENDS Naturals, Sequences, FiniteSets, FiniteSetsExt

CONSTANTS Goroutine,       \* calls that can be in progress at once
          Body,            \* what else an entry says: a host, an endpoint, a hardware profile
          Blank,           \* an entry that says nothing: no address, or an unknown hardware
          Scrambled,       \* text read while it was replaced
          None, Absent, Empty, Garbage,   \* no job; file states that hold no list
          MaxAdds,         \* bound on the entries ever added
          MaxSpare         \* bound on the cells append allocates beyond what it needs

ASSUME RegistryAssumption ==
    /\ MaxAdds \in Nat /\ MaxSpare \in Nat
    /\ Cardinality(Body \cup {Blank, Scrambled}) = Cardinality(Body) + 2
    /\ Cardinality({None, Absent, Empty, Garbage}) = 4

VARIABLES
    kind,     \* which registry: "fleet", "hosts" or "remotes"
    up,       \* the program runs
    cells,    \* the array behind the list
    length,   \* the list is its first length cells
    nextId,   \* ids used so far
    dirty,
    pc,       \* per goroutine: where its call is
    job,      \* per goroutine: the slice its save() took, or None
    file,     \* the file: a list, or Absent, Empty, Garbage
    alone     \* history: the last slice taken met no other save, and was written

listVars == <<cells, length, nextId>>
vars == <<kind, up, listVars, dirty, pc, job, file, alone>>

Id == 1 .. MaxAdds
Entry == [id : Id, body : Body \cup {Blank, Scrambled}, seen : BOOLEAN]
list == [i \in 1 .. length |-> cells[i]]

(* A slice taken by save(): the cells it may have read so far, and whether   *)
(* its array is still the list's.                                           *)
Job == [may : Seq(SUBSET Entry), live : BOOLEAN, out : Seq(Entry)]
Quiet == \A g \in Goroutine : pc[g] = "idle"

(* Type invariant: the list fits its array, a file holds entries, and a     *)
(* goroutine has a slice exactly while it saves.                            *)
TypeOK ==
    /\ kind \in {"fleet", "hosts", "remotes"} /\ up \in BOOLEAN /\ dirty \in BOOLEAN
    /\ alone \in BOOLEAN /\ nextId \in 0 .. MaxAdds
    /\ cells \in Seq(Entry) /\ length \in 0 .. Len(cells)
    /\ pc \in [Goroutine -> {"idle", "owing", "marshal", "writing"}]
    /\ \A g \in Goroutine :
          IF pc[g] \in {"marshal", "writing"} THEN job[g] \in Job ELSE job[g] = None
    /\ file \in {Absent, Empty, Garbage} \/ file \in Seq(Entry)

Init == /\ kind \in {"fleet", "hosts", "remotes"}
        /\ up = FALSE /\ cells = <<>> /\ length = 0 /\ nextId = 0 /\ dirty = FALSE
        /\ pc = [g \in Goroutine |-> "idle"]
        /\ job = [g \in Goroutine |-> None]
        /\ file = Absent /\ alone = TRUE
-----------------------------------------------------------------------------
(* The calls.  Each changes the list under the lock and then owes a save.   *)

(* In-place change of the array: what a running marshal of it may read grows. *)
Overwrite(new) ==
    /\ cells' = new
    /\ job' = [g \in Goroutine |->
                  IF pc[g] = "marshal" /\ job[g].live
                  THEN [job[g] EXCEPT !.may = [i \in DOMAIN @ |-> @[i] \cup {new[i]}]]
                  ELSE job[g]]

\* Mutant: the entry goes past the end of an array that is full.
AppendNeverGrows(e) == Overwrite([cells EXCEPT ![length + 1] = e])

(* append: in place when the array has room, else in a new array. *)
AppendEntry(e) ==
    \/ /\ length < Len(cells)
       /\ Overwrite([cells EXCEPT ![length + 1] = e])
    \/ /\ length = Len(cells)
       /\ \E spare \in 0 .. MaxSpare : cells' = list \o [i \in 1 .. spare + 1 |-> e]
       /\ job' = [g \in Goroutine |-> IF job[g] = None THEN None ELSE [job[g] EXCEPT !.live = FALSE]]

Found(id) == {i \in 1 .. length : cells[i].id = id}
First(id) == Min(Found(id))

\* Mutant: a call changes the list and forgets to save it.
ChangedUnsaved(g) == /\ dirty' = TRUE
                     /\ UNCHANGED <<kind, up, file, alone, pc>>

(* The call of goroutine g changed the list. *)
Changed(g) == /\ dirty' = TRUE
              /\ pc' = [pc EXCEPT ![g] = "owing"]
              /\ UNCHANGED <<kind, up, file, alone>>

(* The call of g found nothing to change, and calls save() all the same. *)
NotFound(g, id) == /\ Found(id) = {}
                   /\ pc' = [pc EXCEPT ![g] = "owing"]
                   /\ UNCHANGED <<kind, up, listVars, dirty, job, file, alone>>

Add(g, e) == /\ e.id = nextId + 1 /\ nextId < MaxAdds
             /\ nextId' = nextId + 1
             /\ AppendEntry(e)
             /\ length' = length + 1
             /\ Changed(g)

Replace(g, id, e) == /\ Found(id) # {}
                     /\ Overwrite([cells EXCEPT ![First(id)] = e])
                     /\ UNCHANGED <<length, nextId>>
                     /\ Changed(g)

(* The loop of Remove: kept := r.hosts[:0], then an append of every entry   *)
(* that has another id.                                                      *)
Without(s, id) ==
    LET kept[n \in 0 .. Len(s)] ==
            IF n = 0 THEN <<>>
            ELSE IF s[n].id # id THEN Append(kept[n - 1], s[n]) ELSE kept[n - 1]
    IN  kept[Len(s)]

\* Mutant: remove filters the array and forgets to shorten the list.
RemoveKeepsLength(g, id) ==
    LET kept == Without(list, id)
    IN  /\ Overwrite(kept \o SubSeq(cells, Len(kept) + 1, Len(cells)))
        /\ UNCHANGED <<length, nextId>>
        /\ Changed(g)

(* Remove filters into the array it reads. *)
Remove(g, id) ==
    LET kept == Without(list, id)
    IN  /\ Overwrite(kept \o SubSeq(cells, Len(kept) + 1, Len(cells)))
        /\ length' = Len(kept)
        /\ UNCHANGED nextId
        /\ Changed(g)

Touch(g, id) == \/ Found(id) # {} /\ Replace(g, id, [cells[First(id)] EXCEPT !.seen = TRUE])
                \/ NotFound(g, id)

(* fleet.Registry.  A machine's label does not change once it is enrolled. *)
Machine(id, hw) == [id |-> id, body |-> hw, seen |-> TRUE]
FleetCall(g) ==
    /\ kind = "fleet"
    /\ \/ \E hw \in Body \cup {Blank} : Add(g, Machine(nextId + 1, hw))
       \/ \E id \in Id :
             \/ Remove(g, id)
             \/ \E hw \in Body \cup {Blank} : Found(id) # {} /\ Replace(g, id, Machine(id, hw))
             \/ Touch(g, id)

(* hosts.Registry.  Add refuses a blank entry; Update keeps what was seen. *)
HostEntry(body) == [id |-> nextId + 1, body |-> body, seen |-> FALSE]
UpdatedHost(id, body) == [id |-> id, body |-> body, seen |-> cells[First(id)].seen]
HostCall(g) ==
    /\ kind = "hosts"
    /\ \/ \E body \in Body : Add(g, HostEntry(body))
       \/ \E id \in Id :
             \/ \E body \in Body : Found(id) # {} /\ Replace(g, id, UpdatedHost(id, body))
             \/ Remove(g, id)
             \/ Touch(g, id)

(* remotes.Registry: nothing is seen.  Update, which the frontend calls with  *)
(* what its form holds, does not refuse a blank entry.                       *)
RemoteCall(g) ==
    /\ kind = "remotes"
    /\ \/ \E body \in Body : Add(g, HostEntry(body))
       \/ \E id \in Id :
             \/ \E body \in Body \cup {Blank} : Found(id) # {} /\ Replace(g, id, UpdatedHost(id, body))
             \/ Remove(g, id)

Call(g) == up /\ pc[g] = "idle" /\ (FleetCall(g) \/ HostCall(g) \/ RemoteCall(g))
-----------------------------------------------------------------------------
(* save() and the file. *)

Saving(g) == pc[g] \in {"marshal", "writing"}

(* save finds nothing to do: another call's save took this change along. *)
SnapshotClean(g) == /\ pc[g] = "owing" /\ ~dirty
                    /\ pc' = [pc EXCEPT ![g] = "idle"]
                    /\ UNCHANGED <<kind, up, listVars, dirty, job, file, alone>>

(* save takes the slice and clears dirty, both under the lock. *)
Snapshot(g) == /\ pc[g] = "owing" /\ dirty
               /\ dirty' = FALSE
               /\ pc' = [pc EXCEPT ![g] = "marshal"]
               /\ job' = [job EXCEPT ![g] = [may |-> [i \in 1 .. length |-> {cells[i]}],
                                             live |-> TRUE, out |-> <<>>]]
               /\ alone' = \A h \in Goroutine \ {g} : ~Saving(h)
               /\ UNCHANGED <<kind, up, listVars, file>>

(* One position as marshalled: any value it had, or parts of several. *)
Readings(seen) ==
    IF Cardinality(seen) = 1 THEN seen
    ELSE seen \cup {[id |-> e.id, body |-> Scrambled, seen |-> e.seen] : e \in seen}

(* The marshal is done and os.WriteFile has truncated the file. *)
Open(g) == /\ pc[g] = "marshal"
           /\ \E out \in [DOMAIN job[g].may -> UNION {Readings(job[g].may[i]) : i \in DOMAIN job[g].may}] :
                 /\ \A i \in DOMAIN out : out[i] \in Readings(job[g].may[i])
                 /\ job' = [job EXCEPT ![g] = [may |-> <<>>, live |-> FALSE, out |-> out]]
           /\ pc' = [pc EXCEPT ![g] = "writing"]
           /\ file' = Empty
           /\ UNCHANGED <<kind, up, listVars, dirty, alone>>

(* The path, the marshal or the open fails: save() returns without a word. *)
OpenFails(g) == /\ pc[g] = "marshal"
                /\ pc' = [pc EXCEPT ![g] = "idle"]
                /\ job' = [job EXCEPT ![g] = None]
                /\ alone' = FALSE
                /\ UNCHANGED <<kind, up, listVars, dirty, file>>

\* Mutant: save() marks the list clean once the file is written.
WriteClearsDirty(g) == /\ pc[g] = "writing"
                       /\ file' \in {job[g].out} \cup (IF file = Empty THEN {} ELSE {Garbage})
                       /\ dirty' = FALSE
                       /\ pc' = [pc EXCEPT ![g] = "idle"]
                       /\ job' = [job EXCEPT ![g] = None]
                       /\ UNCHANGED <<kind, up, listVars, alone>>

(* The text is written from the start of the file.  Where another save      *)
(* wrote since the truncation, a longer text of its sticks out at the end.   *)
Write(g) == /\ pc[g] = "writing"
            /\ \/ file' = job[g].out
               \/ file \notin {Empty, job[g].out} /\ file' = Garbage
            /\ pc' = [pc EXCEPT ![g] = "idle"]
            /\ job' = [job EXCEPT ![g] = None]
            /\ UNCHANGED <<kind, up, listVars, dirty, alone>>

(* The write fails part way (a full disk). *)
WriteFails(g) == /\ pc[g] = "writing"
                 /\ file' = Garbage
                 /\ pc' = [pc EXCEPT ![g] = "idle"]
                 /\ job' = [job EXCEPT ![g] = None]
                 /\ alone' = FALSE
                 /\ UNCHANGED <<kind, up, listVars, dirty>>

Save(g) == \/ SnapshotClean(g) \/ Snapshot(g)
           \/ Open(g) \/ OpenFails(g)
           \/ Write(g) \/ WriteFails(g)

(* The program ends, wherever its goroutines are: nothing waits for a save. *)
Quit == /\ up
        /\ up' = FALSE
        /\ cells' = <<>> /\ length' = 0 /\ dirty' = FALSE
        /\ pc' = [g \in Goroutine |-> "idle"]
        /\ job' = [g \in Goroutine |-> None]
        /\ UNCHANGED <<kind, nextId, file, alone>>

(* New: load the file; what does not parse is an empty list. *)
Load == IF file \in {Absent, Empty, Garbage} THEN <<>> ELSE file
Boot == /\ ~up
        /\ up' = TRUE
        /\ cells' = Load /\ length' = Len(Load)
        /\ alone' = (file \notin {Empty, Garbage})
        /\ UNCHANGED <<kind, nextId, dirty, pc, job, file>>

Next == \/ \E g \in Goroutine : Call(g) \/ Save(g)
        \/ Quit
        \/ Boot

Spec == Init /\ [][Next]_vars
-----------------------------------------------------------------------------
(* A change that is not in a slice some save() took is owed to the file by  *)
(* a call that has still to take its own: no change is forgotten because    *)
(* another goroutine cleared the flag.                                      *)
SaveOwed == dirty => \E g \in Goroutine : pc[g] = "owing"

(* Once the calls are done, the file holds the list: unless the last save   *)
(* overlapped another one, or failed.  A change made while a save marshals  *)
(* can spoil what that save writes, never what is there in the end.          *)
QuietMeansSaved ==
    (up /\ Quiet /\ alone) => file = list \/ (file = Absent /\ length = 0)

(* Sharing the array, filtering it in place and growing it into another one *)
(* are invisible in memory: the registry is a plain list.                    *)
L == INSTANCE SavedList
ListSpec == L!Spec
=============================================================================
