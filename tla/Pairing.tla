------------------------------ MODULE Pairing ------------------------------
(***************************************************************************)
(* What the enrollment relay promises: a matching between desktops         *)
(* ("hosts") and agents ("guests").  A host that was bound to a guest is    *)
(* bound to it for good, no guest is bound twice, and nothing else ever     *)
(* happens.  How join codes, expiry and the two sides' connections bring    *)
(* the matching about is the business of Relay, which implements this.      *)
(***************************************************************************)
CONSTANTS Host, Guest, None

VARIABLE link   \* link[h]: the guest host h was bound to, or None

Init == link = [h \in Host |-> None]

Bind(h, g) ==
    /\ link[h] = None
    /\ \A other \in Host : link[other] # g
    /\ link' = [link EXCEPT ![h] = g]

Next == \E h \in Host, g \in Guest : Bind(h, g)

Spec == Init /\ [][Next]_link
=============================================================================
