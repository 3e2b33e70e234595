------------------------------- MODULE Relay -------------------------------
(***************************************************************************)
(* The coordination core of the enrollment relay, internal/relay/relay.go. *)
(*                                                                         *)
(* A host registers and is given a join code; a guest that presents the    *)
(* code consumes the registration and both get the same Session.  Register,*)
(* Cancel, Pending and the first half of Join run under Relay.mu, so each   *)
(* is one step.  Join leaves the lock before it draws a session id and     *)
(* sends on the host's channel: that half is a step of its own (Deliver),  *)
(* and anything may happen in between.                                     *)
(*                                                                         *)
(* The generator may return any code, one that is pending included (40     *)
(* random bits): Register then overwrites the entry, as the map does.      *)
(* A host stands for one connection and registers at most once.            *)
(***************************************************************************)
EXTENDS Naturals, Sequences

CONSTANTS Host,    \* connections that register
          Guest,   \* connections that join
          Code,    \* join codes
          TTL,     \* lifetime of a code, in ticks (DefaultCodeTTL)
          None

ASSUME TTLAssumption == TTL \in Nat \ {0}
ASSUME NoneAssumption == None \notin Host \cup Guest \cup Code

VARIABLES
    pending,   \* pending[c]: the host waiting under code c, or None
    code,      \* code[h]: the code Register gave h, or None
    age,       \* age[h]: ticks since h registered, counted up to TTL + 1
    paired,    \* paired[h]: the channel HostReg.paired, as a queue of guests
    session,   \* session[h]: the guest of the Session h took from its channel
    join,      \* join[g]: progress of g's Join call
    picked     \* picked[g]: the host whose registration g's Join consumed

relayVars == <<pending, code, age, paired, session, join, picked>>

JoinState == {"idle", "lookedup", "joined", "failed"}

TypeOK ==
    /\ pending \in [Code -> Host \cup {None}]
    /\ code \in [Host -> Code \cup {None}]
    /\ age \in [Host -> 0 .. TTL + 1]
    /\ paired \in [Host -> Seq(Guest)]
    /\ session \in [Host -> Guest \cup {None}]
    /\ join \in [Guest -> JoinState]
    /\ picked \in [Guest -> Host \cup {None}]

Init ==
    /\ pending = [c \in Code |-> None]
    /\ code = [h \in Host |-> None]
    /\ age = [h \in Host |-> 0]
    /\ paired = [h \in Host |-> <<>>]
    /\ session = [h \in Host |-> None]
    /\ join = [g \in Guest |-> "idle"]
    /\ picked = [g \in Guest |-> None]

-----------------------------------------------------------------------------
\* now().After(p.expires): strictly later than the expiry.
Expired(c) == pending[c] # None /\ age[pending[c]] > TTL

\* gcLocked: the map without its expired entries.
Collected == [c \in Code |-> IF Expired(c) THEN None ELSE pending[c]]

Register(h, c) ==
    /\ code[h] = None
    /\ code' = [code EXCEPT ![h] = c]
    /\ pending' = [Collected EXCEPT ![c] = h]
    /\ UNCHANGED <<age, paired, session, join, picked>>

\* Mutant: Join forgets `delete(r.pending, code)` on success.
JoinLookupKeepsEntry(g, c) ==
    /\ join[g] = "idle"
    /\ IF pending[c] = None \/ Expired(c)
       THEN /\ join' = [join EXCEPT ![g] = "failed"]
            /\ pending' = [pending EXCEPT ![c] = None]
            /\ UNCHANGED picked
       ELSE /\ join' = [join EXCEPT ![g] = "lookedup"]
            /\ picked' = [picked EXCEPT ![g] = pending[c]]
            /\ UNCHANGED pending
    /\ UNCHANGED <<code, age, paired, session>>

\* Join up to the Unlock: the entry goes, whether it is live or expired.
JoinLookup(g, c) ==
    /\ join[g] = "idle"
    /\ pending' = [pending EXCEPT ![c] = None]
    /\ IF pending[c] = None \/ Expired(c)
       THEN /\ join' = [join EXCEPT ![g] = "failed"]
            /\ UNCHANGED picked
       ELSE /\ join' = [join EXCEPT ![g] = "lookedup"]
            /\ picked' = [picked EXCEPT ![g] = pending[c]]
    /\ UNCHANGED <<code, age, paired, session>>

\* Mutant: the Session is built with its two ends swapped.
JoinDeliverSwapped(g) ==
    /\ join[g] = "lookedup"
    /\ join' = [join EXCEPT ![g] = "joined"]
    /\ paired' = [paired EXCEPT ![picked[g]] = Append(@, picked[g])]
    /\ UNCHANGED <<pending, code, age, session, picked>>

\* The rest of Join when the session id is drawn: `p.paired <- sess`.
JoinDeliver(g) ==
    /\ join[g] = "lookedup"
    /\ join' = [join EXCEPT ![g] = "joined"]
    /\ paired' = [paired EXCEPT ![picked[g]] = Append(@, g)]
    /\ UNCHANGED <<pending, code, age, session, picked>>

\* Mutant: Join sends the session before it looks at the generator's error.
JoinGenFailsAfterSend(g) ==
    /\ join[g] = "lookedup"
    /\ join' = [join EXCEPT ![g] = "failed"]
    /\ paired' = [paired EXCEPT ![picked[g]] = Append(@, g)]
    /\ UNCHANGED <<pending, code, age, session, picked>>

\* The rest of Join when the generator fails: the code is already gone.
JoinGenFails(g) ==
    /\ join[g] = "lookedup"
    /\ join' = [join EXCEPT ![g] = "failed"]
    /\ UNCHANGED <<pending, code, age, paired, session, picked>>

\* The host receives from Paired().
TakeSession(h) ==
    /\ paired[h] # <<>>
    /\ session' = [session EXCEPT ![h] = Head(paired[h])]
    /\ paired' = [paired EXCEPT ![h] = Tail(@)]
    /\ UNCHANGED <<pending, code, age, join, picked>>

\* Cancel deletes by code, whoever holds the entry by now.
Cancel(h) ==
    /\ code[h] # None
    /\ pending' = [pending EXCEPT ![code[h]] = None]
    /\ UNCHANGED <<code, age, paired, session, join, picked>>

\* Pending() collects before it counts.
Pending ==
    /\ \E c \in Code : Expired(c)
    /\ pending' = Collected
    /\ UNCHANGED <<code, age, paired, session, join, picked>>

\* A registration grows older until it is past its expiry.
Tick ==
    /\ \E h \in Host : code[h] # None /\ age[h] <= TTL
    /\ age' = [h \in Host |->
                 IF code[h] # None /\ age[h] <= TTL THEN age[h] + 1 ELSE age[h]]
    /\ UNCHANGED <<pending, code, paired, session, join, picked>>

RelayNext ==
    \/ \E h \in Host, c \in Code : Register(h, c)
    \/ \E g \in Guest, c \in Code : JoinLookup(g, c)
    \/ \E g \in Guest : JoinDeliver(g) \/ JoinGenFails(g)
    \/ \E h \in Host : TakeSession(h) \/ Cancel(h)
    \/ Pending
    \/ Tick

RelaySpec == Init /\ [][RelayNext]_relayVars

-----------------------------------------------------------------------------
\* The channel of a registration is buffered(1) and Join sends on it without
\* a select: a second session for one registration would block a guest's
\* handler for good.  So a channel never holds two, and while a Join is about
\* to send, its host's channel is empty and was never sent on.
NeverBlocks ==
    /\ \A h \in Host : Len(paired[h]) <= 1
    /\ \A g \in Guest : join[g] = "lookedup" =>
          paired[picked[g]] = <<>> /\ session[picked[g]] = None

\* A registration is single-use: no two guests consume the same one, and a
\* registration that was consumed is not waiting under any code.
SingleUse ==
    /\ \A g1, g2 \in Guest : picked[g1] # None /\ picked[g1] = picked[g2] => g1 = g2
    /\ \A g \in Guest, c \in Code : picked[g] # None => pending[c] # picked[g]

\* The Session the host takes and the one Join returns to the guest are the
\* same link: the host's guest did join, and it joined this host.
SameSession ==
    \A h \in Host : session[h] # None =>
        join[session[h]] = "joined" /\ picked[session[h]] = h

\* What makes the three inductive.  An entry is filed under its host's own
\* code; a consumed registration is recorded by exactly one guest; a queued
\* session is the one of that guest, and is queued only until it is taken.
FiledUnderOwnCode == \A c \in Code : pending[c] # None => code[pending[c]] = c
ConsumedByOne ==
    \A g \in Guest :
        /\ picked[g] # None => code[picked[g]] # None
        /\ join[g] = "idle" => picked[g] = None
        /\ join[g] \in {"lookedup", "joined"} => picked[g] # None
QueuedOnce ==
    \A h \in Host : paired[h] # <<>> =>
        /\ session[h] = None
        /\ \E g \in Guest : paired[h] = <<g>> /\ join[g] = "joined" /\ picked[g] = h

RelayInv == TypeOK /\ FiledUnderOwnCode /\ ConsumedByOne /\ SingleUse
              /\ QueuedOnce /\ SameSession

\* The guest a host is bound to, in the terms of Pairing: the one whose Join
\* consumed the host's registration and returned a session.
BoundTo(h) == { g \in Guest : join[g] = "joined" /\ picked[g] = h }
TheOne(S) == IF S = {} THEN None ELSE CHOOSE g \in S : TRUE
linkBar == [h \in Host |-> TheOne(BoundTo(h))]

Abs == INSTANCE Pairing WITH link <- linkBar

\* Relay implements the matching that Pairing promises.
PairingSpec == Abs!Spec
=============================================================================
