----------------------------- MODULE SavedList -----------------------------
(***************************************************************************)
(* What the desktop's registries promise of the list they hold while the    *)
(* program runs: a plain list whose calls take effect one at a time.  No    *)
(* arrays, no sharing, no files: what a start reads back is any list.        *)
(***************************************************************************)
EXTENDS Naturals, Sequences

CONSTANTS Entry,    \* what can be in the list: records with at least an id
          Id

VARIABLES list, up

vars == <<list, up>>

Unused(id) == \A i \in DOMAIN list : list[i].id # id

(* A new entry goes to the end, under an id nothing else has. *)
AddOne == up /\ \E e \in Entry : Unused(e.id) /\ list' = Append(list, e)

(* One entry is replaced by one of the same id, which keeps what was seen. *)
ReplaceOne == up /\ \E i \in DOMAIN list, e \in Entry :
    e.id = list[i].id /\ (list[i].seen => e.seen) /\ list' = [list EXCEPT ![i] = e]

(* Every entry of one id goes, the others keep their order. *)
RemoveId == up /\ \E id \in Id, at \in [DOMAIN list' -> DOMAIN list] :
    /\ \A i, j \in DOMAIN list' : i < j => at[i] < at[j]
    /\ {at[i] : i \in DOMAIN list'} = {i \in DOMAIN list : list[i].id # id}
    /\ list' = [i \in DOMAIN list' |-> list[at[i]]]

Stop == up /\ ~up' /\ list' = <<>>
Start == ~up /\ up'

Next == \/ (AddOne \/ ReplaceOne \/ RemoveId) /\ UNCHANGED up
        \/ Stop
        \/ Start

Spec == list = <<>> /\ ~up /\ [][Next]_vars
=============================================================================
