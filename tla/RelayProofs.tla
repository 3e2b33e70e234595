---------------------------- MODULE RelayProofs ----------------------------
(***************************************************************************)
(* Proofs about Relay and RelayServer, for any sets of hosts, guests and    *)
(* codes, any TTL, and buffers of any size.                                 *)
(*                                                                         *)
(* First the coordinator: RelayInv is inductive, the properties of Relay    *)
(* follow from it, and under it a step binds a host and a guest as Pairing  *)
(* does or binds nobody.  Then the server with its clients: its steps are   *)
(* steps of the coordinator or none, and LinkInv adds to RelayInv what is   *)
(* on its way between a sender's Send and its peer's Recv.                  *)
(***************************************************************************)
EXTENDS RelayServer, TLAPS

USE TTLAssumption, NoneAssumption

\* The inductive invariant holds initially.
LEMMA RelayInit == Init => RelayInv
BY DEF Init, RelayInv, TypeOK, JoinState, FiledUnderOwnCode, ConsumedByOne,
       SingleUse, QueuedOnce, SameSession

\* Every step of the coordinator preserves the types.
LEMMA RelayTypeStep == TypeOK /\ [RelayNext]_relayVars => TypeOK'
<1> SUFFICES ASSUME TypeOK, [RelayNext]_relayVars PROVE TypeOK'
  OBVIOUS
<1> USE DEF TypeOK, JoinState
<1>1. ASSUME NEW h \in Host, NEW c \in Code, Register(h, c) PROVE TypeOK'
  BY <1>1 DEF Register, Collected
<1>2. ASSUME NEW g \in Guest, NEW c \in Code, JoinLookup(g, c) PROVE TypeOK'
  BY <1>2 DEF JoinLookup, Expired
<1>3. ASSUME NEW g \in Guest, JoinDeliver(g) PROVE TypeOK'
  <2>1. ASSUME NEW h \in Host PROVE paired'[h] \in Seq(Guest)
    <3>1. Append(paired[h], g) \in Seq(Guest)
      OBVIOUS
    <3>2. paired'[h] = IF h = picked[g] THEN Append(paired[h], g) ELSE paired[h]
      BY <1>3 DEF JoinDeliver
    <3> QED
      BY <3>1, <3>2
  <2>2. paired' = [h \in Host |-> paired'[h]]
    BY <1>3 DEF JoinDeliver
  <2>3. paired' \in [Host -> Seq(Guest)]
    BY <2>1, <2>2
  <2> QED
    BY <1>3, <2>3 DEF JoinDeliver
<1>4. ASSUME NEW g \in Guest, JoinGenFails(g) PROVE TypeOK'
  BY <1>4 DEF JoinGenFails
<1>5. ASSUME NEW h \in Host, TakeSession(h) PROVE TypeOK'
  BY <1>5 DEF TakeSession
<1>6. ASSUME NEW h \in Host, Cancel(h) PROVE TypeOK'
  BY <1>6 DEF Cancel
<1>7. CASE Pending
  BY <1>7 DEF Pending, Collected
<1>8. CASE Tick
  BY <1>8 DEF Tick
<1>9. CASE UNCHANGED relayVars
  BY <1>9 DEF relayVars
<1> QED
  BY <1>1, <1>2, <1>3, <1>4, <1>5, <1>6, <1>7, <1>8, <1>9 DEF RelayNext

\* A queue of one session: what the channel operations do to it.
LEMMA QueueOfOne ==
  ASSUME NEW g \in Guest
  PROVE  /\ Append(<<>>, g) = <<g>>
         /\ Head(<<g>>) = g
         /\ Tail(<<g>>) = <<>>
         /\ <<g>> # <<>>
         /\ Len(<<g>>) = 1 /\ Len(<<>>) = 0
OBVIOUS

\* Every step of the coordinator preserves the inductive invariant.
LEMMA RelayStep == RelayInv /\ [RelayNext]_relayVars => RelayInv'
<1> SUFFICES ASSUME RelayInv, [RelayNext]_relayVars PROVE RelayInv'
  OBVIOUS
<1>0. TypeOK'
  BY RelayTypeStep DEF RelayInv
<1> USE DEF RelayInv, TypeOK, JoinState
<1>1. ASSUME NEW h \in Host, NEW c \in Code, Register(h, c) PROVE RelayInv'
  <2>1. /\ code'[h] = c
        /\ \A k \in Host : k # h => code'[k] = code[k]
        /\ code[h] = None
    BY <1>1 DEF Register
  <2>2. /\ pending'[c] = h
        /\ \A d \in Code : d # c => pending'[d] \in {None, pending[d]}
    BY <1>1 DEF Register, Collected
  <2>3. UNCHANGED <<age, paired, session, join, picked>>
    BY <1>1 DEF Register
  <2>4. FiledUnderOwnCode'
    <3> SUFFICES ASSUME NEW d \in Code, pending'[d] # None
                 PROVE  code'[pending'[d]] = d
      BY DEF FiledUnderOwnCode
    <3>1. CASE d = c
      BY <3>1, <2>1, <2>2
    <3>2. CASE d # c
      <4>1. pending'[d] = pending[d] /\ pending[d] \in Host
        BY <3>2, <2>2
      <4>2. code[pending[d]] = d
        BY <4>1 DEF FiledUnderOwnCode
      <4> QED
        BY <4>1, <4>2, <2>1
    <3> QED
      BY <3>1, <3>2
  <2>5. ConsumedByOne'
    BY <2>1, <2>3 DEF ConsumedByOne
  <2>6. SingleUse'
    BY <2>1, <2>2, <2>3 DEF SingleUse, ConsumedByOne
  <2>7. QueuedOnce' /\ SameSession'
    BY <2>3 DEF QueuedOnce, SameSession
  <2> QED
    BY <1>0, <2>4, <2>5, <2>6, <2>7
<1>2. ASSUME NEW g \in Guest, NEW c \in Code, JoinLookup(g, c) PROVE RelayInv'
  <2>1. /\ pending'[c] = None
        /\ \A d \in Code : d # c => pending'[d] = pending[d]
        /\ join[g] = "idle" /\ picked[g] = None
        /\ UNCHANGED <<code, age, paired, session>>
        /\ \A k \in Guest : k # g => join'[k] = join[k] /\ picked'[k] = picked[k]
    BY <1>2 DEF JoinLookup, ConsumedByOne
  <2>2. \/ join'[g] = "failed" /\ picked'[g] = None
        \/ pending[c] # None /\ join'[g] = "lookedup" /\ picked'[g] = pending[c]
    BY <1>2, <2>1 DEF JoinLookup
  <2>3. FiledUnderOwnCode'
    BY <2>1 DEF FiledUnderOwnCode
  <2>. DEFINE h == pending[c]
  <2>7. h # None => /\ h \in Host /\ code[h] = c
                    /\ \A d \in Code : pending[d] = h => d = c
                    /\ \A k \in Guest : picked[k] # h
    BY DEF FiledUnderOwnCode, SingleUse
  <2>4. ConsumedByOne'
    <3>1. ASSUME NEW k \in Guest, k # g
          PROVE  /\ picked'[k] # None => code'[picked'[k]] # None
                 /\ join'[k] = "idle" => picked'[k] = None
                 /\ join'[k] \in {"lookedup", "joined"} => picked'[k] # None
      BY <3>1, <2>1 DEF ConsumedByOne
    <3>2. /\ picked'[g] # None => code'[picked'[g]] # None
          /\ join'[g] = "idle" => picked'[g] = None
          /\ join'[g] \in {"lookedup", "joined"} => picked'[g] # None
      BY <2>1, <2>2, <2>7
    <3> QED
      BY <3>1, <3>2 DEF ConsumedByOne
  <2>5. SingleUse'
    <3>1. \A k \in Guest, d \in Code : picked'[k] # None => pending'[d] # picked'[k]
      <4>1. ASSUME NEW k \in Guest, k # g, NEW d \in Code, picked'[k] # None
            PROVE  pending'[d] # picked'[k]
        BY <4>1, <2>1 DEF SingleUse
      <4>2. ASSUME NEW d \in Code, picked'[g] # None PROVE pending'[d] # picked'[g]
        <5>1. picked'[g] = h /\ h # None
          BY <4>2, <2>2
        <5> QED
          BY <5>1, <2>1, <2>7
      <4> QED
        BY <4>1, <4>2
    <3>2. \A k1, k2 \in Guest : picked'[k1] # None /\ picked'[k1] = picked'[k2] => k1 = k2
      <4> SUFFICES ASSUME NEW k1 \in Guest, NEW k2 \in Guest,
                          picked'[k1] # None, picked'[k1] = picked'[k2], k1 # k2
                   PROVE  FALSE
        OBVIOUS
      <4>1. CASE k1 # g /\ k2 # g
        BY <4>1, <2>1 DEF SingleUse
      <4>2. CASE k1 = g
        BY <4>2, <2>1, <2>2, <2>7
      <4>3. CASE k2 = g
        BY <4>3, <2>1, <2>2, <2>7
      <4> QED
        BY <4>1, <4>2, <4>3
    <3> QED
      BY <3>1, <3>2 DEF SingleUse
  <2>6. QueuedOnce' /\ SameSession'
    <3>1. \A k \in Guest : join[k] = "joined" => join'[k] = "joined" /\ picked'[k] = picked[k]
      BY <2>1
    <3> QED
      BY <2>1, <3>1 DEF QueuedOnce, SameSession
  <2> QED
    BY <1>0, <2>3, <2>4, <2>5, <2>6
<1>3. ASSUME NEW g \in Guest, JoinDeliver(g) PROVE RelayInv'
  <2>1. /\ join[g] = "lookedup" /\ picked[g] \in Host
        /\ join' = [join EXCEPT ![g] = "joined"]
        /\ UNCHANGED <<pending, code, age, session, picked>>
    BY <1>3 DEF JoinDeliver, ConsumedByOne
  <2>2. paired[picked[g]] = <<>> /\ session[picked[g]] = None
    <3>1. ASSUME NEW k \in Guest, join[k] = "joined" PROVE picked[k] # picked[g]
      BY <3>1, <2>1 DEF SingleUse
    <3>2. paired[picked[g]] = <<>>
      BY <2>1, <3>1 DEF QueuedOnce
    <3>3. session[picked[g]] = None
      BY <2>1, <3>1 DEF SameSession
    <3> QED
      BY <3>2, <3>3
  <2>3. /\ paired'[picked[g]] = <<g>>
        /\ \A h \in Host : h # picked[g] => paired'[h] = paired[h]
    BY <1>3, <2>1, <2>2, QueueOfOne DEF JoinDeliver
  <2>4. FiledUnderOwnCode' /\ ConsumedByOne' /\ SingleUse'
    BY <2>1 DEF FiledUnderOwnCode, ConsumedByOne, SingleUse
  <2>5. QueuedOnce'
    BY <2>1, <2>2, <2>3 DEF QueuedOnce
  <2>6. SameSession'
    BY <2>1 DEF SameSession
  <2> QED
    BY <1>0, <2>4, <2>5, <2>6
<1>4. ASSUME NEW g \in Guest, JoinGenFails(g) PROVE RelayInv'
  <2>1. FiledUnderOwnCode' /\ ConsumedByOne' /\ SingleUse'
    BY <1>4 DEF JoinGenFails, FiledUnderOwnCode, ConsumedByOne, SingleUse
  <2>2. QueuedOnce' /\ SameSession'
    <3>1. \A k \in Guest : join[k] = "joined" => join'[k] = "joined"
      BY <1>4 DEF JoinGenFails
    <3> QED
      BY <1>4, <3>1 DEF JoinGenFails, QueuedOnce, SameSession
  <2> QED
    BY <1>0, <2>1, <2>2
<1>5. ASSUME NEW h \in Host, TakeSession(h) PROVE RelayInv'
  <2>1. PICK g \in Guest : paired[h] = <<g>> /\ join[g] = "joined" /\ picked[g] = h
    BY <1>5 DEF TakeSession, QueuedOnce
  <2>2. /\ session'[h] = g
        /\ paired'[h] = <<>>
        /\ \A k \in Host : k # h => session'[k] = session[k] /\ paired'[k] = paired[k]
        /\ UNCHANGED <<pending, code, age, join, picked>>
    BY <1>5, <2>1, QueueOfOne DEF TakeSession
  <2>3. FiledUnderOwnCode' /\ ConsumedByOne' /\ SingleUse'
    BY <2>2 DEF FiledUnderOwnCode, ConsumedByOne, SingleUse
  <2>4. QueuedOnce'
    BY <2>2 DEF QueuedOnce
  <2>5. SameSession'
    <3>1. ASSUME NEW k \in Host, k # h, session'[k] # None
          PROVE  join'[session'[k]] = "joined" /\ picked'[session'[k]] = k
      BY <3>1, <2>2 DEF SameSession
    <3>2. join'[session'[h]] = "joined" /\ picked'[session'[h]] = h
      BY <2>1, <2>2
    <3> QED
      BY <3>1, <3>2 DEF SameSession
  <2> QED
    BY <1>0, <2>3, <2>4, <2>5
<1>6. ASSUME NEW h \in Host, Cancel(h) PROVE RelayInv'
  BY <1>0, <1>6 DEF Cancel, FiledUnderOwnCode, ConsumedByOne, SingleUse,
                    QueuedOnce, SameSession
<1>7. CASE Pending
  BY <1>0, <1>7 DEF Pending, Collected, FiledUnderOwnCode, ConsumedByOne,
                    SingleUse, QueuedOnce, SameSession
<1>8. CASE Tick
  BY <1>0, <1>8 DEF Tick, FiledUnderOwnCode, ConsumedByOne, SingleUse,
                    QueuedOnce, SameSession
<1>9. CASE UNCHANGED relayVars
  BY <1>0, <1>9 DEF relayVars, FiledUnderOwnCode, ConsumedByOne, SingleUse,
                    QueuedOnce, SameSession
<1> QED
  BY <1>1, <1>2, <1>3, <1>4, <1>5, <1>6, <1>7, <1>8, <1>9 DEF RelayNext

\* The inductive invariant holds in every reachable state.
THEOREM RelayInvariant == RelaySpec => []RelayInv
BY RelayInit, RelayStep, PTL DEF RelaySpec

\* Type correctness of the coordinator.
THEOREM RelayTypeCorrect == RelaySpec => []TypeOK
<1>1. RelayInv => TypeOK
  BY DEF RelayInv
<1> QED
  BY <1>1, RelayInvariant, PTL

\* A registration is consumed by at most one guest and is then no longer
\* waiting: the join code is single-use, whatever codes the generator returns.
THEOREM RegistrationSingleUse == RelaySpec => []SingleUse
<1>1. RelayInv => SingleUse
  BY DEF RelayInv
<1> QED
  BY <1>1, RelayInvariant, PTL

\* The host takes the very session that Join returned to its guest.
THEOREM HostAndGuestShareSession == RelaySpec => []SameSession
<1>1. RelayInv => SameSession
  BY DEF RelayInv
<1> QED
  BY <1>1, RelayInvariant, PTL

\* The send in Join, `p.paired <- sess`, always finds the channel empty, so a
\* guest's handler never blocks on it.
THEOREM JoinNeverBlocks == RelaySpec => []NeverBlocks
<1>1. RelayInv => NeverBlocks
  <2> SUFFICES ASSUME RelayInv PROVE NeverBlocks
    OBVIOUS
  <2>1. ASSUME NEW h \in Host PROVE Len(paired[h]) <= 1
    <3>1. CASE paired[h] = <<>>
      BY <3>1
    <3>2. ASSUME NEW g \in Guest, paired[h] = <<g>> PROVE Len(paired[h]) <= 1
      BY <3>2, QueueOfOne
    <3> QED
      BY <3>1, <3>2 DEF RelayInv, QueuedOnce
  <2>2. ASSUME NEW g \in Guest, join[g] = "lookedup"
        PROVE  paired[picked[g]] = <<>> /\ session[picked[g]] = None
    BY <2>2 DEF RelayInv, TypeOK, ConsumedByOne, SingleUse, QueuedOnce, SameSession
  <2> QED
    BY <2>1, <2>2 DEF NeverBlocks
<1> QED
  BY <1>1, RelayInvariant, PTL

\* The coordinator implements the abstract matching: delivering a session
\* binds an unbound host to an unbound guest, every other step changes no link.
THEOREM RelayImplementsPairing == RelaySpec => PairingSpec
<1>1. Init => Abs!Init
  BY DEF Init, Abs!Init, linkBar, BoundTo, TheOne
<1>2. RelayInv /\ [RelayNext]_relayVars => [Abs!Next]_linkBar
  <2> SUFFICES ASSUME RelayInv, [RelayNext]_relayVars PROVE [Abs!Next]_linkBar
    OBVIOUS
  <2>1. ASSUME NEW g \in Guest, JoinDeliver(g) PROVE Abs!Next
    <3> DEFINE h == picked[g]
    <3>1. /\ h \in Host /\ join[g] = "lookedup"
          /\ join' = [join EXCEPT ![g] = "joined"] /\ picked' = picked
          /\ \A k \in Guest : picked[k] = h => k = g
      BY <2>1 DEF JoinDeliver, RelayInv, TypeOK, ConsumedByOne, SingleUse
    <3>2. BoundTo(h) = {} /\ BoundTo(h)' = {g}
      BY <3>1 DEF BoundTo, RelayInv, TypeOK
    <3>3. \A k \in Host : k # h => BoundTo(k)' = BoundTo(k)
      BY <3>1 DEF BoundTo, RelayInv, TypeOK
    <3>4. linkBar[h] = None
      BY <3>1, <3>2 DEF linkBar, TheOne
    <3>5. \A k \in Host : linkBar[k] # g
      <4> SUFFICES ASSUME NEW k \in Host, linkBar[k] = g PROVE FALSE
        OBVIOUS
      <4>1. BoundTo(k) # {} /\ g \in BoundTo(k)
        BY NoneAssumption DEF linkBar, TheOne
      <4> QED
        BY <4>1, <3>1 DEF BoundTo
    <3>6. linkBar' = [linkBar EXCEPT ![h] = g]
      <4>1. linkBar'[h] = g
        BY <3>1, <3>2 DEF linkBar, TheOne
      <4>2. \A k \in Host : k # h => linkBar'[k] = linkBar[k]
        BY <3>3 DEF linkBar, BoundTo
      <4> QED
        BY <4>1, <4>2, <3>1 DEF linkBar
    <3> QED
      BY <3>1, <3>4, <3>5, <3>6 DEF Abs!Next, Abs!Bind
  <2>2. ASSUME \A k \in Host : BoundTo(k)' = BoundTo(k) PROVE UNCHANGED linkBar
    BY <2>2 DEF linkBar, BoundTo
  <2>3. ASSUME NEW g \in Guest, NEW c \in Code, JoinLookup(g, c) PROVE UNCHANGED linkBar
    BY <2>2, <2>3 DEF JoinLookup, BoundTo, RelayInv, TypeOK
  <2>4. ASSUME NEW g \in Guest, JoinGenFails(g) PROVE UNCHANGED linkBar
    BY <2>2, <2>4 DEF JoinGenFails, BoundTo, RelayInv, TypeOK
  <2>5. ASSUME UNCHANGED <<join, picked>> PROVE UNCHANGED linkBar
    BY <2>2, <2>5 DEF BoundTo
  <2> QED
    BY <2>1, <2>3, <2>4, <2>5
       DEF RelayNext, relayVars, Register, TakeSession, Cancel, Pending, Tick
<1> QED
  BY <1>1, <1>2, RelayInvariant, PTL DEF RelaySpec, PairingSpec, Abs!Spec

-----------------------------------------------------------------------------
(* The relay server with its clients: sequences of frames.                  *)

USE BufferAssumption, RolesAssumption

\* The binary frames of a sequence, and what is asked of them: each party numbers
\* the frames it sends.
Carried(s) == { s[i] : i \in { k \in 1 .. Len(s) : ~IsText(s[k]) } }
Sorted(s) == \A i, j \in 1 .. Len(s) :
    i < j /\ ~IsText(s[i]) /\ ~IsText(s[j]) => s[i].n < s[j].n
Before(s, t) == \A f \in Carried(s), g \in Carried(t) : f.n < g.n

\* q's registration was consumed by p, or the other way round.
Peer(q, p) == \/ p \in Host /\ q \in Guest /\ picked[q] = p
              \/ p \in Guest /\ q \in Host /\ picked[p] = q

\* A handler forwards, or says that it will, only with a session in hand.
HandlersPaired ==
    /\ \A h \in Host : pc[h] \in {"pairing", "forward"} => session[h] # None
    /\ \A g \in Guest : pc[g] \in {"accepted", "forward"} => join[g] = "joined"

\* What a text frame on its way to a client says is true.
IsTrue(f, p) == /\ f.op = "paired" /\ p \in Host => session[p] # None
                /\ f.op = "joined" /\ p \in Guest => join[p] = "joined"
AllTrue(s, p) == \A i \in 1 .. Len(s) : IsTrue(s[i], p)
AnswersTrue == \A p \in Party : AllTrue(sendq[p], p) /\ AllTrue(toClient[p], p)

\* Only a client with a Link has received anything.
RecvLinked == \A h \in Host : rcvd[h] # <<>> => session[h] # None

\* The two ends of a session: a guest that joined is past Join, its session is
\* in its host's channel or hands, and a host without one waits or has expired.
GuestPastJoin ==
    \A g \in Guest : join[g] = "joined" => pc[g] \in {"accepted", "forward", "returned"}
Delivered ==
    \A g \in Guest : join[g] = "joined" =>
        session[picked[g]] = g \/ paired[picked[g]] = <<g>>
HostWaits ==
    \A h \in Host : code[h] # None /\ session[h] = None =>
        \/ pc[h] \in {"announcing", "waiting"}
        \/ pc[h] \in {"expired", "returned"} /\ timer[h] = TTL
\* A connection that was not made has no handler.
Undialed == \A p \in Party : cl[p] = "idle" => pc[p] = "none"
BothEnds == GuestPastJoin /\ Delivered /\ HostWaits /\ Undialed

PairedInv == HandlersPaired /\ BothEnds /\ AnswersTrue /\ LinkedMeansPaired /\ RecvLinked

\* Frames carry their sender's name and number ...
FramesOwned ==
    \A p \in Party :
        /\ \A f \in Carried(toServer[p]) : f.from = p /\ f.n <= sent[p]
        /\ \A f \in Carried(sendq[p]) \cup Carried(toClient[p]) \cup Carried(rcvd[p]) :
              Peer(f.from, p) /\ f.n <= sent[f.from]

\* ... and keep their order along the way from a sender to its peer.
FramesSorted ==
    \A p \in Party : /\ Sorted(toServer[p]) /\ Sorted(sendq[p])
                     /\ Sorted(toClient[p]) /\ Sorted(rcvd[p])
                     /\ Before(toClient[p], sendq[p]) /\ Before(rcvd[p], sendq[p])
                     /\ Before(rcvd[p], toClient[p])
PeersSorted ==
    \A p, q \in Party : Peer(q, p) =>
        /\ Before(sendq[p], toServer[q]) /\ Before(toClient[p], toServer[q])
        /\ Before(rcvd[p], toServer[q])

LinkInv == ServerTypeOK /\ RelayInv /\ PairedInv /\ FramesOwned /\ FramesSorted /\ PeersSorted

LEMMA SeqAppend ==
  ASSUME NEW S, NEW s \in Seq(S), NEW e \in S
  PROVE  /\ Append(s, e) \in Seq(S) /\ Len(Append(s, e)) = Len(s) + 1 /\ Len(s) \in Nat
         /\ \A i \in 1 .. Len(s) : Append(s, e)[i] = s[i]
         /\ Append(s, e)[Len(s) + 1] = e
         /\ \A i \in 1 .. Len(s) + 1 : i \in 1 .. Len(s) \/ i = Len(s) + 1
OBVIOUS

LEMMA SeqTail ==
  ASSUME NEW S, NEW s \in Seq(S), s # <<>>
  PROVE  /\ Tail(s) \in Seq(S) /\ Head(s) = s[1] /\ Head(s) \in S
         /\ Len(s) \in Nat /\ 1 \in 1 .. Len(s) /\ Len(Tail(s)) = Len(s) - 1
         /\ \A i \in 1 .. Len(Tail(s)) : /\ Tail(s)[i] = s[i + 1]
                                         /\ i + 1 \in 1 .. Len(s) /\ i + 1 # 1
OBVIOUS

\* What the channel operations do to the binary frames of a sequence.
LEMMA CarriedAppend ==
  ASSUME NEW S, NEW s \in Seq(S), NEW e \in S
  PROVE  /\ IsText(e) => Carried(Append(s, e)) = Carried(s)
         /\ ~IsText(e) => Carried(Append(s, e)) = Carried(s) \cup {e}
<1>1. /\ Len(Append(s, e)) = Len(s) + 1 /\ Len(s) \in Nat
      /\ \A i \in 1 .. Len(s) : Append(s, e)[i] = s[i]
      /\ Append(s, e)[Len(s) + 1] = e
      /\ \A i \in 1 .. Len(s) + 1 : i \in 1 .. Len(s) \/ i = Len(s) + 1
  BY SeqAppend
<1> DEFINE t == Append(s, e)
<1>2. Carried(t) \subseteq Carried(s) \cup {e}
  BY <1>1 DEF Carried
<1>3. Carried(s) \subseteq Carried(t)
  <2>1. \A i \in 1 .. Len(s) : i \in 1 .. Len(t)
    BY <1>1
  <2> QED
    BY <1>1, <2>1 DEF Carried
<1>4. ~IsText(e) => e \in Carried(t)
  <2>1. Len(s) + 1 \in 1 .. Len(t)
    BY <1>1
  <2> QED
    BY <1>1, <2>1 DEF Carried
<1>5. \A f \in Carried(t) : ~IsText(f)
  BY DEF Carried
<1> HIDE DEF t
<1>6. Carried(Append(s, e)) = Carried(t)
  BY DEF t
<1> QED
  BY <1>2, <1>3, <1>4, <1>5, <1>6

LEMMA CarriedTail ==
  ASSUME NEW S, NEW s \in Seq(S), s # <<>>
  PROVE  /\ Carried(Tail(s)) \subseteq Carried(s)
         /\ ~IsText(Head(s)) => Head(s) \in Carried(s)
         /\ ~IsText(Head(s)) /\ Sorted(s) => \A f \in Carried(Tail(s)) : Head(s).n < f.n
<1>1. /\ Head(s) = s[1] /\ 1 \in 1 .. Len(s) /\ Len(s) \in Nat
      /\ \A i \in 1 .. Len(Tail(s)) : /\ Tail(s)[i] = s[i + 1]
                                      /\ i + 1 \in 1 .. Len(s) /\ i + 1 # 1
  BY SeqTail
<1>2. Carried(Tail(s)) \subseteq Carried(s)
  BY <1>1 DEF Carried
<1>3. ~IsText(Head(s)) => Head(s) \in Carried(s)
  BY <1>1 DEF Carried
<1>4. ASSUME ~IsText(Head(s)), Sorted(s), NEW f \in Carried(Tail(s))
      PROVE  Head(s).n < f.n
  <2>1. PICK i \in 1 .. Len(Tail(s)) : f = Tail(s)[i] /\ ~IsText(f)
    BY <1>4 DEF Carried
  <2>2. f = s[i + 1] /\ i + 1 \in 1 .. Len(s) /\ 1 < i + 1
    BY <1>1, <2>1
  <2> QED
    BY <1>1, <1>4, <2>1, <2>2 DEF Sorted
<1> QED
  BY <1>2, <1>3, <1>4

LEMMA CarriedEmpty == Carried(<<>>) = {} /\ Sorted(<<>>)
BY DEF Carried, Sorted

LEMMA SortedTail ==
  ASSUME NEW S, NEW s \in Seq(S), s # <<>>, Sorted(s)
  PROVE  Sorted(Tail(s))
<1>1. \A i \in 1 .. Len(Tail(s)) : Tail(s)[i] = s[i + 1] /\ i + 1 \in 1 .. Len(s)
  BY SeqTail
<1>2. ASSUME NEW i \in 1 .. Len(Tail(s)), NEW j \in 1 .. Len(Tail(s)), i < j,
             ~IsText(Tail(s)[i]), ~IsText(Tail(s)[j])
      PROVE  Tail(s)[i].n < Tail(s)[j].n
  <2>1. i + 1 < j + 1
    BY <1>2
  <2> QED
    BY <1>1, <1>2, <2>1 DEF Sorted
<1> QED
  BY <1>2 DEF Sorted

LEMMA SortedAppend ==
  ASSUME NEW S, NEW s \in Seq(S), NEW e \in S, Sorted(s),
         ~IsText(e) => \A f \in Carried(s) : f.n < e.n
  PROVE  Sorted(Append(s, e))
<1> DEFINE t == Append(s, e)
<1>1. /\ Len(t) = Len(s) + 1 /\ Len(s) \in Nat
      /\ \A i \in 1 .. Len(s) : t[i] = s[i]
      /\ t[Len(s) + 1] = e
      /\ \A i \in 1 .. Len(s) + 1 : i \in 1 .. Len(s) \/ i = Len(s) + 1
  BY SeqAppend
<1> HIDE DEF t
<1> SUFFICES ASSUME NEW i \in 1 .. Len(t), NEW j \in 1 .. Len(t), i < j,
                    ~IsText(t[i]), ~IsText(t[j])
             PROVE  t[i].n < t[j].n
  BY DEF Sorted, t
<1>2. i \in 1 .. Len(s)
  BY <1>1
<1>3. CASE j \in 1 .. Len(s)
  BY <1>1, <1>2, <1>3 DEF Sorted
<1>4. CASE j = Len(s) + 1
  <2>1. t[i] \in Carried(s)
    BY <1>1, <1>2 DEF Carried
  <2> QED
    BY <1>1, <1>4, <2>1
<1> QED
  BY <1>1, <1>3, <1>4

-----------------------------------------------------------------------------
(* The handlers take the steps of the coordinator, and keep the types.      *)

LEMMA ServerStepsRelay == [ServerNext]_vars => [RelayNext]_relayVars
<1> SUFFICES ASSUME [ServerNext]_vars PROVE RelayNext \/ UNCHANGED relayVars
  OBVIOUS
<1>1. ASSUME NEW p \in Party, Handler(p) PROVE RelayNext \/ UNCHANGED relayVars
  <2>1. CASE ReadControl(p) \/ ReadFails(p) \/ ForwardQueued(p) \/ ForwardFails(p)
    BY <2>1 DEF ReadControl, ReadFails, ForwardQueued, ForwardFails
  <2>2. ASSUME p \in Host, \/ HandleHostRegister(p) \/ AnnounceCode(p) \/ HandleHostPaired(p)
                           \/ HandleHostTimeout(p) \/ HandleHostExpired(p) \/ AnnouncePaired(p)
        PROVE  RelayNext \/ UNCHANGED relayVars
    BY <2>2 DEF HandleHostRegister, AnnounceCode, HandleHostPaired, HandleHostTimeout,
       HandleHostExpired, AnnouncePaired, RelayNext
  <2>3. ASSUME p \in Guest, \/ HandleGuestLookup(p) \/ HandleGuestDeliver(p)
                            \/ AnnounceJoined(p) \/ RefuseGuest(p)
        PROVE  RelayNext \/ UNCHANGED relayVars
    BY <2>3 DEF HandleGuestLookup, HandleGuestDeliver, AnnounceJoined, RefuseGuest, RelayNext
  <2> QED
    BY <1>1, <2>1, <2>2, <2>3 DEF Handler
<1>2. ASSUME NEW p \in Party, Pump(p) \/ Client(p) PROVE UNCHANGED relayVars
  BY <1>2 DEF Pump, WritePump, WriteFails, Client, Dial, ReadCtrl, Send, Recv, Leave
<1>3. CASE ServerTick
  BY <1>3 DEF ServerTick, RelayNext
<1>4. CASE UNCHANGED vars
  BY <1>4 DEF vars
<1> QED
  BY <1>1, <1>2, <1>3, <1>4 DEF ServerNext

LEMMA FrameTypes ==
  /\ \A op \in Op : Text(op) \in Frame /\ Text(op).op = op
  /\ \A op \in Op : IsText(Text(op))
  /\ \A p \in Party, n \in 1 .. MaxFrames :
        /\ Binary(p, n) \in BinaryFrames /\ ~IsText(Binary(p, n))
        /\ Binary(p, n).from = p /\ Binary(p, n).n = n
  /\ \A f \in BinaryFrames : f \in Frame /\ ~IsText(f) /\ f.from \in Party /\ f.n \in Nat
  /\ \A f \in Frame : ~IsText(f) => f \in BinaryFrames
<1>1. \A op \in Op : Text(op) \in Frame /\ Text(op).op = op /\ op # "binary"
  BY DEF Text, Frame, Op
<1>2. \A op \in Op : IsText(Text(op))
  BY <1>1 DEF IsText
<1>3. ASSUME NEW p \in Party, NEW n \in 1 .. MaxFrames
      PROVE  /\ Binary(p, n) \in BinaryFrames /\ ~IsText(Binary(p, n))
             /\ Binary(p, n).from = p /\ Binary(p, n).n = n /\ n \in Nat
  BY DEF Binary, BinaryFrames, IsText
<1>4. \A f \in BinaryFrames : f \in Frame /\ ~IsText(f) /\ f.from \in Party /\ f.n \in Nat
  <2> SUFFICES ASSUME NEW f \in BinaryFrames
               PROVE  f \in Frame /\ ~IsText(f) /\ f.from \in Party /\ f.n \in Nat
    OBVIOUS
  <2>1. PICK p \in Party, n \in 1 .. MaxFrames : f = Binary(p, n)
    BY DEF BinaryFrames
  <2>2. f \in Frame
    BY DEF Frame
  <2> QED
    BY <1>3, <2>1, <2>2
<1>5. \A f \in Frame : ~IsText(f) => f \in BinaryFrames
  BY <1>2 DEF Frame
<1> QED
  BY <1>1, <1>2, <1>3, <1>4, <1>5

\* The types of the queues of one party.
LEMMA QueueTypes ==
  ASSUME ServerTypeOK, NEW p \in Party
  PROVE  /\ sendq[p] \in Seq(Frame) /\ Len(sendq[p]) \in Nat
         /\ toServer[p] \in Seq(Frame) /\ toClient[p] \in Seq(Frame)
         /\ rcvd[p] \in Seq(Frame) /\ rcvd[p] \in Seq(BinaryFrames)
         /\ Len(toClient[p]) \in Nat
<1>1. /\ sendq[p] \in Seq(Frame) /\ toServer[p] \in Seq(Frame) /\ toClient[p] \in Seq(Frame)
      /\ rcvd[p] \in Seq(BinaryFrames)
  BY DEF ServerTypeOK
<1>2. BinaryFrames \subseteq Frame
  BY FrameTypes
<1> QED
  BY <1>1, <1>2

\* What a handler's sendControl can do to the queues.
LEMMA SendControlStep ==
  ASSUME ServerTypeOK, NEW p \in Party, NEW op \in Op, SendControl(p, op)
  PROVE  /\ sendq' \in [Party -> Seq(Frame)]
         /\ \A q \in Party : Len(sendq'[q]) <= SendBuffer
         /\ \A q \in Party : q # p => sendq'[q] = sendq[q]
         /\ sendq'[p] = sendq[p] \/ sendq'[p] = Append(sendq[p], Text(op))
<1>1. CASE UNCHANGED sendq
  BY <1>1 DEF ServerTypeOK
<1>2. CASE Len(sendq[p]) < SendBuffer /\ sendq' = [sendq EXCEPT ![p] = Append(@, Text(op))]
  <2>1. sendq[p] \in Seq(Frame) /\ Len(sendq[p]) \in Nat /\ Text(op) \in Frame
    BY QueueTypes, FrameTypes
  <2>2. /\ Append(sendq[p], Text(op)) \in Seq(Frame)
        /\ Len(Append(sendq[p], Text(op))) = Len(sendq[p]) + 1
    BY <2>1, SeqAppend
  <2>3. Len(Append(sendq[p], Text(op))) <= SendBuffer
    BY <1>2, <2>1, <2>2, BufferAssumption
  <2>4. sendq \in [Party -> Seq(Frame)] /\ \A q \in Party : Len(sendq[q]) <= SendBuffer
    BY DEF ServerTypeOK
  <2> DEFINE a == Append(sendq[p], Text(op))
  <2>5. sendq' = [sendq EXCEPT ![p] = a]
    BY <1>2
  <2>6. a \in Seq(Frame) /\ Len(a) <= SendBuffer
    BY <2>2, <2>3
  <2> HIDE DEF a
  <2>7. /\ sendq' \in [Party -> Seq(Frame)] /\ sendq'[p] = a
        /\ \A q \in Party : q # p => sendq'[q] = sendq[q]
    BY <2>4, <2>5, <2>6
  <2>8. \A q \in Party : Len(sendq'[q]) <= SendBuffer
    BY <2>4, <2>6, <2>7
  <2> QED
    BY <2>7, <2>8 DEF a
<1> QED
  BY <1>1, <1>2 DEF SendControl

\* The other end of a handler that forwards: it has a session, and its partner
\* is its peer.
LEMMA PartnerIsPeer ==
  ASSUME RelayInv, HandlersPaired, NEW p \in Party, pc[p] = "forward"
  PROVE  Partner(p) \in Party /\ Peer(p, Partner(p))
<1>t. TypeOK /\ SameSession /\ ConsumedByOne
  BY DEF RelayInv
<1>1. CASE p \in Host
  <2>1. Partner(p) = session[p] /\ session[p] \in Guest /\ picked[session[p]] = p
    BY <1>t, <1>1 DEF Partner, HandlersPaired, TypeOK, SameSession
  <2> QED
    BY <1>1, <2>1 DEF Peer, Party
<1>2. CASE p \in Guest
  <2>1. Partner(p) = picked[p] /\ picked[p] \in Host
    BY <1>t, <1>2, RolesAssumption DEF Partner, HandlersPaired, TypeOK, ConsumedByOne
  <2> QED
    BY <1>2, <2>1 DEF Peer, Party
<1> QED
  BY <1>1, <1>2 DEF Party

\* The control states and timers, which no step takes out of their ranges.
ControlTypes == /\ pc \in [Party -> HandlerState] /\ timer \in [Host -> 0 .. TTL]
                /\ closed \in [Party -> BOOLEAN] /\ cl \in [Party -> ClientState]
                /\ sent \in [Party -> 0 .. MaxFrames]
QueuesTyped == /\ sendq \in [Party -> Seq(Frame)]
               /\ toServer \in [Party -> Seq(Frame)] /\ toClient \in [Party -> Seq(Frame)]
               /\ rcvd \in [Party -> Seq(BinaryFrames)]
               /\ \A p \in Party : Len(sendq[p]) <= SendBuffer /\ Len(toClient[p]) <= NetBuffer

LEMMA ControlTypesStep == ControlTypes /\ [ServerNext]_vars => ControlTypes'
<1> SUFFICES ASSUME ControlTypes, [ServerNext]_vars PROVE ControlTypes'
  OBVIOUS
<1>1. ASSUME NEW p \in Party, NEW next \in HandlerState, Goto(p, next)
      PROVE  pc' \in [Party -> HandlerState]
  BY <1>1 DEF ControlTypes, Goto
<1>2. ASSUME NEW p \in Party, Return(p)
      PROVE  pc' \in [Party -> HandlerState] /\ closed' \in [Party -> BOOLEAN]
  BY <1>2 DEF ControlTypes, Return, Goto, HandlerState
<1>3. {"control", "registering", "announcing", "waiting", "pairing", "expired", "joining",
       "accepted", "refused", "forward", "returned"} \subseteq HandlerState
  BY DEF HandlerState
<1>4. ASSUME NEW p \in Party, ReadControl(p) PROVE ControlTypes'
  <2>1. PICK next \in {"control", "registering", "joining"} : Goto(p, next)
    BY <1>4 DEF ReadControl
  <2> QED
    BY <1>1, <1>3, <1>4, <2>1 DEF ReadControl, ControlTypes
<1>5. ASSUME NEW p \in Party, ReadFails(p) \/ HandleHostExpired(p) \/ RefuseGuest(p)
      PROVE  ControlTypes'
  BY <1>2, <1>5 DEF ReadFails, HandleHostExpired, RefuseGuest, ControlTypes
<1>6. ASSUME NEW p \in Party, HandleHostRegister(p) PROVE ControlTypes'
  BY <1>1, <1>2, <1>3, <1>6 DEF HandleHostRegister, ControlTypes
<1>7. ASSUME NEW p \in Party, \/ AnnounceCode(p) \/ HandleHostPaired(p) \/ HandleHostTimeout(p)
                              \/ AnnouncePaired(p) \/ HandleGuestDeliver(p) \/ AnnounceJoined(p)
      PROVE  ControlTypes'
  <2>1. UNCHANGED <<timer, closed, cl, sent>>
    BY <1>7 DEF AnnounceCode, HandleHostPaired, HandleHostTimeout, AnnouncePaired,
       HandleGuestDeliver, AnnounceJoined
  <2>2. \E next \in HandlerState : Goto(p, next)
    BY <1>3, <1>7 DEF AnnounceCode, HandleHostPaired, HandleHostTimeout, AnnouncePaired,
       HandleGuestDeliver, AnnounceJoined
  <2> QED
    BY <1>1, <2>1, <2>2 DEF ControlTypes
<1>8. ASSUME NEW p \in Party, ForwardFails(p) PROVE ControlTypes'
  <2>1. closed' \in [Party -> BOOLEAN] /\ Goto(p, "returned") /\ UNCHANGED <<timer, cl, sent>>
    BY <1>8 DEF ForwardFails, ControlTypes
  <2> QED
    BY <1>1, <1>3, <2>1 DEF ControlTypes
<1>9. ASSUME NEW p \in Party, \/ HandleGuestLookup(p) \/ ForwardQueued(p) \/ WritePump(p)
                              \/ Recv(p)
      PROVE  ControlTypes'
  BY <1>9 DEF HandleGuestLookup, ForwardQueued, WritePump, Recv, ControlTypes, serverVars
<1>10. ASSUME NEW p \in Party, WriteFails(p) PROVE ControlTypes'
  BY <1>10 DEF WriteFails, ControlTypes
<1>11. ASSUME NEW p \in Party, Dial(p) PROVE ControlTypes'
  <2>1. cl' \in [Party -> ClientState] /\ Goto(p, "control") /\ UNCHANGED <<timer, closed, sent>>
    BY <1>11 DEF Dial, ControlTypes, ClientState
  <2> QED
    BY <1>1, <1>3, <2>1 DEF ControlTypes
<1>12. ASSUME NEW p \in Party, ReadCtrl(p) \/ Leave(p) PROVE ControlTypes'
  <2>1. UNCHANGED <<pc, timer, closed, sent>>
    BY <1>12 DEF ReadCtrl, Leave
  <2>2. cl' \in [Party -> ClientState]
    BY <1>12 DEF ReadCtrl, Leave, Awaited, ControlTypes, ClientState
  <2> QED
    BY <2>1, <2>2 DEF ControlTypes
<1>13. ASSUME NEW p \in Party, Send(p) PROVE ControlTypes'
  <2>1. sent[p] \in 0 .. MaxFrames /\ sent[p] < MaxFrames
    BY <1>13 DEF Send, ControlTypes
  <2>2. sent[p] + 1 \in 0 .. MaxFrames
    BY <2>1, BufferAssumption
  <2> QED
    BY <1>13, <2>2 DEF Send, ControlTypes
<1>14. CASE ServerTick
  <2>1. UNCHANGED <<pc, closed, cl, sent>>
    BY <1>14 DEF ServerTick
  <2>2. timer' \in [Host -> 0 .. TTL]
    <3>1. ASSUME NEW h \in Host
          PROVE  (IF pc[h] = "waiting" /\ timer[h] < TTL THEN timer[h] + 1 ELSE timer[h])
                    \in 0 .. TTL
      <4>1. timer[h] \in 0 .. TTL
        BY DEF ControlTypes
      <4> QED
        BY <4>1, TTLAssumption
    <3> QED
      BY <1>14, <3>1 DEF ServerTick
  <2> QED
    BY <2>1, <2>2 DEF ControlTypes
<1>15. CASE UNCHANGED vars
  BY <1>15 DEF vars, serverVars, ControlTypes
<1> QED
  BY <1>4, <1>5, <1>6, <1>7, <1>8, <1>9, <1>10, <1>11, <1>12, <1>13, <1>14, <1>15
     DEF ServerNext, Handler, Pump, Client

-----------------------------------------------------------------------------
(* What a step does to the queues is one of nine things.                    *)

FrameTaken(p) ==
    /\ toServer[p] # <<>> /\ toServer' = [toServer EXCEPT ![p] = Tail(@)]
    /\ UNCHANGED <<sendq, toClient, rcvd, sent>>
ControlQueued(p) ==
    /\ \E op \in Op : /\ SendControl(p, op)
                      /\ op = "paired" => pc[p] = "pairing"
                      /\ op = "joined" => pc[p] = "accepted"
    /\ UNCHANGED <<toServer, toClient, rcvd, sent>>
FrameForwarded(p) ==
    /\ pc[p] = "forward" /\ toServer[p] # <<>> /\ ~IsText(Head(toServer[p]))
    /\ toServer' = [toServer EXCEPT ![p] = Tail(@)]
    /\ Len(sendq[Partner(p)]) < SendBuffer
    /\ sendq' = [sendq EXCEPT ![Partner(p)] = Append(@, Head(toServer[p]))]
    /\ UNCHANGED <<toClient, rcvd, sent>>
FrameWritten(p) ==
    /\ sendq[p] # <<>> /\ Len(toClient[p]) < NetBuffer
    /\ sendq' = [sendq EXCEPT ![p] = Tail(@)]
    /\ toClient' = [toClient EXCEPT ![p] = Append(@, Head(sendq[p]))]
    /\ UNCHANGED <<toServer, rcvd, sent>>
FrameDropped(p) ==
    /\ sendq[p] # <<>> /\ sendq' = [sendq EXCEPT ![p] = Tail(@)]
    /\ UNCHANGED <<toServer, toClient, rcvd, sent>>
Dialed(p) ==
    /\ \E op \in Op : toServer' = [toServer EXCEPT ![p] = <<Text(op)>>]
    /\ UNCHANGED <<sendq, toClient, rcvd, sent>>
FrameLost(p) ==
    /\ \/ toClient[p] # <<>> /\ toClient' = [toClient EXCEPT ![p] = Tail(@)]
       \/ toClient' = [toClient EXCEPT ![p] = <<>>]
    /\ UNCHANGED <<toServer, sendq, rcvd, sent>>
FrameReceived(p) ==
    /\ cl[p] = "linked" /\ toClient[p] # <<>> /\ ~IsText(Head(toClient[p]))
    /\ toClient' = [toClient EXCEPT ![p] = Tail(@)]
    /\ rcvd' = [rcvd EXCEPT ![p] = Append(@, Head(toClient[p]))]
    /\ UNCHANGED <<toServer, sendq, sent>>
QueuesKept == UNCHANGED <<toServer, sendq, toClient, rcvd, sent>>

QueueStep(p) == \/ FrameTaken(p) \/ ControlQueued(p) \/ FrameForwarded(p) \/ FrameWritten(p)
                \/ FrameDropped(p) \/ Dialed(p) \/ FrameLost(p) \/ FrameReceived(p)
                \/ Send(p) \/ QueuesKept

\* The nine, or none.
LEMMA QueueSteps ==
  ASSUME ServerTypeOK, [ServerNext]_vars
  PROVE  QueuesKept \/ \E p \in Party : QueueStep(p)
<1>t. /\ sendq \in [Party -> Seq(Frame)] /\ toClient \in [Party -> Seq(Frame)]
      /\ rcvd \in [Party -> Seq(BinaryFrames)]
  BY DEF ServerTypeOK
<1>1. ASSUME NEW p \in Party, Handler(p) PROVE QueueStep(p)
  <2>1. CASE ReadControl(p) \/ ForwardFails(p)
    BY <2>1 DEF ReadControl, ForwardFails, FrameTaken, QueueStep
  <2>2. CASE ReadFails(p)
    BY <2>2 DEF ReadFails, QueuesKept, QueueStep
  <2>3. CASE ForwardQueued(p)
    <3>1. CASE IsText(Head(toServer[p]))
      BY <2>3, <3>1 DEF ForwardQueued, FrameTaken, QueueStep
    <3>2. CASE ~IsText(Head(toServer[p]))
      BY <2>3, <3>2 DEF ForwardQueued, FrameForwarded, QueueStep
    <3> QED
      BY <3>1, <3>2
  <2>4. CASE \/ AnnounceCode(p) \/ HandleHostExpired(p) \/ AnnouncePaired(p)
             \/ AnnounceJoined(p) \/ RefuseGuest(p)
    <3>1. {"registered", "paired", "joined", "error"} \subseteq Op
      BY DEF Op
    <3>2. ControlQueued(p)
      BY <2>4, <3>1 DEF AnnounceCode, HandleHostExpired, AnnouncePaired, AnnounceJoined,
         RefuseGuest, ControlQueued
    <3> QED
      BY <3>2 DEF QueueStep
  <2>5. CASE HandleHostRegister(p)
    <3>1. "error" \in Op
      BY DEF Op
    <3> QED
      BY <2>5, <3>1 DEF HandleHostRegister, ControlQueued, QueuesKept, QueueStep
  <2>6. CASE \/ HandleHostPaired(p) \/ HandleHostTimeout(p) \/ HandleGuestLookup(p)
             \/ HandleGuestDeliver(p)
    BY <2>6 DEF HandleHostPaired, HandleHostTimeout, HandleGuestLookup, HandleGuestDeliver,
       serverVars, QueuesKept, QueueStep
  <2> QED
    BY <1>1, <2>1, <2>2, <2>3, <2>4, <2>5, <2>6 DEF Handler
<1>2. ASSUME NEW p \in Party, Pump(p) PROVE QueueStep(p)
  <2>1. CASE WriteFails(p)
    BY <2>1 DEF WriteFails, FrameDropped, QueueStep
  <2>2. CASE WritePump(p)
    <3>1. CASE cl[p] = "gone"
      BY <1>t, <2>2, <3>1 DEF WritePump, FrameDropped, QueueStep
    <3>2. CASE cl[p] # "gone"
      BY <2>2, <3>2 DEF WritePump, FrameWritten, QueueStep
    <3> QED
      BY <3>1, <3>2
  <2> QED
    BY <1>2, <2>1, <2>2 DEF Pump
<1>3. ASSUME NEW p \in Party, Client(p) PROVE QueueStep(p)
  <2>1. CASE Dial(p)
    <3>1. "register" \in Op /\ "join" \in Op
      BY DEF Op
    <3> QED
      BY <2>1, <3>1 DEF Dial, Dialed, QueueStep
  <2>2. CASE ReadCtrl(p)
    BY <2>2 DEF ReadCtrl, FrameLost, QueueStep
  <2>3. CASE Send(p)
    BY <2>3 DEF QueueStep
  <2>4. CASE Recv(p)
    <3>1. CASE IsText(Head(toClient[p]))
      BY <1>t, <2>4, <3>1 DEF Recv, FrameLost, QueueStep
    <3>2. CASE ~IsText(Head(toClient[p]))
      BY <2>4, <3>2 DEF Recv, FrameReceived, QueueStep
    <3> QED
      BY <3>1, <3>2
  <2>5. CASE Leave(p)
    BY <2>5 DEF Leave, FrameLost, QueueStep
  <2> QED
    BY <1>3, <2>1, <2>2, <2>3, <2>4, <2>5 DEF Client
<1>4. CASE ServerTick \/ UNCHANGED vars
  BY <1>4 DEF ServerTick, vars, serverVars, QueuesKept
<1> QED
  BY <1>1, <1>2, <1>3, <1>4 DEF ServerNext

\* Replacing one party's queue by a well-typed, short enough one.
LEMMA ReplaceQueue ==
  ASSUME NEW S, NEW max \in Nat, NEW q, NEW r, NEW p \in Party,
         q \in [Party -> Seq(S)], \A x \in Party : Len(q[x]) <= max,
         r \in Seq(S), Len(r) <= max
  PROVE  /\ [q EXCEPT ![p] = r] \in [Party -> Seq(S)]
         /\ \A x \in Party : Len([q EXCEPT ![p] = r][x]) <= max
OBVIOUS

LEMMA ServerTypeStep ==
  ASSUME ServerTypeOK, RelayInv, HandlersPaired, [ServerNext]_vars
  PROVE  ServerTypeOK'
<1>t. ControlTypes /\ QueuesTyped /\ TypeOK
  BY DEF ServerTypeOK, ControlTypes, QueuesTyped
<1>1. TypeOK'
  BY <1>t, ServerStepsRelay, RelayTypeStep
<1>2. ControlTypes'
  BY <1>t, ControlTypesStep
<1>l. NetBuffer \in Nat /\ SendBuffer \in Nat
  BY BufferAssumption
<1>3. ASSUME NEW p \in Party, QueueStep(p) PROVE QueuesTyped'
  <2>t. /\ sendq[p] \in Seq(Frame) /\ toServer[p] \in Seq(Frame) /\ toClient[p] \in Seq(Frame)
        /\ rcvd[p] \in Seq(BinaryFrames)
    BY QueueTypes
  <2>1. CASE FrameTaken(p)
    <3>1. Tail(toServer[p]) \in Seq(Frame)
      BY <2>t, <2>1, SeqTail DEF FrameTaken
    <3> QED
      BY <1>t, <2>1, <3>1 DEF FrameTaken, QueuesTyped
  <2>2. CASE ControlQueued(p)
    <3>1. /\ sendq' \in [Party -> Seq(Frame)]
          /\ \A q \in Party : Len(sendq'[q]) <= SendBuffer
      BY <2>2, SendControlStep DEF ControlQueued
    <3> QED
      BY <1>t, <2>2, <3>1 DEF ControlQueued, QueuesTyped
  <2>3. CASE FrameForwarded(p)
    <3> DEFINE q == Partner(p)
    <3> DEFINE f == Head(toServer[p])
    <3>1. f \in Frame /\ Tail(toServer[p]) \in Seq(Frame)
      BY <2>t, <2>3, SeqTail DEF FrameForwarded
    <3>2. q \in Party
      BY <2>3, PartnerIsPeer DEF FrameForwarded
    <3>3. sendq[q] \in Seq(Frame) /\ Len(sendq[q]) \in Nat /\ Len(sendq[q]) < SendBuffer
      BY <2>3, <3>2, QueueTypes DEF FrameForwarded
    <3> DEFINE a == Append(sendq[q], f)
    <3>4. a \in Seq(Frame) /\ Len(a) <= SendBuffer
      <4>1. a \in Seq(Frame) /\ Len(a) = Len(sendq[q]) + 1
        BY <3>1, <3>3, SeqAppend
      <4> QED
        BY <1>l, <3>3, <4>1
    <3>5. sendq' = [sendq EXCEPT ![q] = a] /\ toServer' = [toServer EXCEPT ![p] = Tail(@)]
      BY <2>3 DEF FrameForwarded
    <3> HIDE DEF a, q, f
    <3>6. sendq' \in [Party -> Seq(Frame)] /\ \A x \in Party : Len(sendq'[x]) <= SendBuffer
      BY <1>t, <1>l, <3>2, <3>4, <3>5, ReplaceQueue DEF QueuesTyped
    <3> QED
      BY <1>t, <2>3, <3>1, <3>5, <3>6 DEF FrameForwarded, QueuesTyped
  <2>4. ASSUME sendq[p] # <<>>, sendq' = [sendq EXCEPT ![p] = Tail(@)]
        PROVE  sendq' \in [Party -> Seq(Frame)] /\ \A x \in Party : Len(sendq'[x]) <= SendBuffer
    <3>1. /\ Tail(sendq[p]) \in Seq(Frame) /\ Len(sendq[p]) <= SendBuffer
          /\ Len(Tail(sendq[p])) = Len(sendq[p]) - 1 /\ Len(sendq[p]) \in Nat
      BY <1>t, <2>t, <2>4, SeqTail DEF QueuesTyped
    <3>2. Len(Tail(sendq[p])) <= SendBuffer
      BY <1>l, <3>1
    <3> QED
      BY <1>t, <1>l, <2>4, <3>1, <3>2, ReplaceQueue DEF QueuesTyped
  <2>5. CASE FrameWritten(p)
    <3>1. Head(sendq[p]) \in Frame /\ Len(toClient[p]) \in Nat
      BY <2>t, <2>5, SeqTail DEF FrameWritten
    <3> DEFINE a == Append(toClient[p], Head(sendq[p]))
    <3>2. a \in Seq(Frame) /\ Len(a) <= NetBuffer
      <4>1. a \in Seq(Frame) /\ Len(a) = Len(toClient[p]) + 1
        BY <2>t, <3>1, SeqAppend
      <4> QED
        BY <1>l, <2>5, <3>1, <4>1 DEF FrameWritten
    <3>3. toClient' = [toClient EXCEPT ![p] = a]
      BY <2>5 DEF FrameWritten
    <3> HIDE DEF a
    <3>4. toClient' \in [Party -> Seq(Frame)] /\ \A x \in Party : Len(toClient'[x]) <= NetBuffer
      BY <1>t, <1>l, <3>2, <3>3, ReplaceQueue DEF QueuesTyped
    <3> QED
      BY <1>t, <2>4, <2>5, <3>4 DEF FrameWritten, QueuesTyped
  <2>6. CASE FrameDropped(p)
    BY <1>t, <2>4, <2>6 DEF FrameDropped, QueuesTyped
  <2>7. CASE Dialed(p)
    <3>1. \A op \in Op : <<Text(op)>> \in Seq(Frame)
      BY FrameTypes
    <3> QED
      BY <1>t, <2>7, <3>1 DEF Dialed, QueuesTyped
  <2>8. ASSUME toClient[p] # <<>>, toClient' = [toClient EXCEPT ![p] = Tail(@)]
        PROVE  /\ toClient' \in [Party -> Seq(Frame)]
               /\ \A x \in Party : Len(toClient'[x]) <= NetBuffer
    <3>1. /\ Tail(toClient[p]) \in Seq(Frame) /\ Len(toClient[p]) <= NetBuffer
          /\ Len(Tail(toClient[p])) = Len(toClient[p]) - 1 /\ Len(toClient[p]) \in Nat
      BY <1>t, <2>t, <2>8, SeqTail DEF QueuesTyped
    <3>2. Len(Tail(toClient[p])) <= NetBuffer
      BY <1>l, <3>1
    <3> QED
      BY <1>t, <1>l, <2>8, <3>1, <3>2, ReplaceQueue DEF QueuesTyped
  <2>9. CASE FrameLost(p)
    <3>1. CASE toClient' = [toClient EXCEPT ![p] = <<>>]
      <4>1. <<>> \in Seq(Frame) /\ Len(<<>>) <= NetBuffer
        BY <1>l
      <4>2. toClient' \in [Party -> Seq(Frame)] /\ \A x \in Party : Len(toClient'[x]) <= NetBuffer
        BY <1>t, <1>l, <3>1, <4>1, ReplaceQueue DEF QueuesTyped
      <4> QED
        BY <1>t, <2>9, <4>2 DEF FrameLost, QueuesTyped
    <3>2. CASE toClient[p] # <<>> /\ toClient' = [toClient EXCEPT ![p] = Tail(@)]
      BY <1>t, <2>8, <2>9, <3>2 DEF FrameLost, QueuesTyped
    <3> QED
      BY <2>9, <3>1, <3>2 DEF FrameLost
  <2>10. CASE FrameReceived(p)
    <3>1. Head(toClient[p]) \in BinaryFrames
      BY <2>t, <2>10, SeqTail, FrameTypes DEF FrameReceived
    <3>2. Append(rcvd[p], Head(toClient[p])) \in Seq(BinaryFrames)
      BY <2>t, <3>1, SeqAppend
    <3> QED
      BY <1>t, <2>8, <2>10, <3>2 DEF FrameReceived, QueuesTyped
  <2>11. CASE Send(p)
    <3>1. sent[p] + 1 \in 1 .. MaxFrames
      BY <1>t, <2>11, BufferAssumption DEF Send, ControlTypes
    <3>2. Binary(p, sent[p] + 1) \in Frame
      BY <3>1, FrameTypes
    <3>3. Append(toServer[p], Binary(p, sent[p] + 1)) \in Seq(Frame)
      BY <2>t, <3>2, SeqAppend
    <3> QED
      BY <1>t, <2>11, <3>3 DEF Send, QueuesTyped
  <2>12. CASE QueuesKept
    BY <1>t, <2>12 DEF QueuesKept, QueuesTyped
  <2> QED
    BY <1>3, <2>1, <2>2, <2>3, <2>5, <2>6, <2>7, <2>9, <2>10, <2>11, <2>12 DEF QueueStep
<1>4. ASSUME QueuesKept PROVE QueuesTyped'
  BY <1>t, <1>4 DEF QueuesKept, QueuesTyped
<1>5. QueuesTyped'
  <2>1. QueuesKept \/ \E p \in Party : QueueStep(p)
    BY QueueSteps
  <2> QED
    BY <1>3, <1>4, <2>1
<1> QED
  BY <1>1, <1>2, <1>5 DEF ServerTypeOK, ControlTypes, QueuesTyped

-----------------------------------------------------------------------------
(* A Link has a session behind it.                                          *)

\* A session, a joined guest and a consumed registration are not taken back.
LEMMA SessionsStay ==
  ASSUME RelayInv, [RelayNext]_relayVars
  PROVE  /\ \A h \in Host : session[h] # None => session'[h] = session[h]
         /\ \A g \in Guest : join[g] = "joined" => join'[g] = "joined"
         /\ \A g \in Guest : picked[g] # None => picked'[g] = picked[g]
<1>t. TypeOK /\ QueuedOnce /\ ConsumedByOne
  BY DEF RelayInv
<1>1. \A h \in Host : session[h] # None => session'[h] = session[h]
  <2>1. ASSUME NEW h \in Host, TakeSession(h)
        PROVE  session[h] = None /\ \A k \in Host : k # h => session'[k] = session[k]
    BY <1>t, <2>1 DEF TakeSession, QueuedOnce, TypeOK
  <2> QED
    BY <2>1 DEF RelayNext, Register, JoinLookup, JoinDeliver, JoinGenFails, Cancel, Pending,
       Tick, relayVars
<1>2. \A g \in Guest : /\ join[g] = "joined" => join'[g] = "joined"
                       /\ picked[g] # None => picked'[g] = picked[g]
  <2>1. ASSUME NEW g \in Guest, NEW c \in Code, JoinLookup(g, c)
        PROVE  /\ join[g] = "idle" /\ picked[g] = None
               /\ \A k \in Guest : k # g => join'[k] = join[k] /\ picked'[k] = picked[k]
    BY <1>t, <2>1 DEF JoinLookup, ConsumedByOne, TypeOK
  <2>2. ASSUME NEW g \in Guest, JoinDeliver(g) \/ JoinGenFails(g)
        PROVE  /\ join[g] = "lookedup" /\ picked' = picked
               /\ \A k \in Guest : k # g => join'[k] = join[k]
    BY <1>t, <2>2 DEF JoinDeliver, JoinGenFails, TypeOK
  <2> QED
    BY <2>1, <2>2 DEF RelayNext, Register, TakeSession, Cancel, Pending, Tick, relayVars
<1> QED
  BY <1>1, <1>2

LEMMA HandlersPairedStep ==
  ASSUME ServerTypeOK, RelayInv, HandlersPaired, [ServerNext]_vars
  PROVE  HandlersPaired'
<1>t. TypeOK /\ ControlTypes
  BY DEF ServerTypeOK, ControlTypes
<1>s. /\ \A h \in Host : session[h] # None => session'[h] # None
      /\ \A g \in Guest : join[g] = "joined" => join'[g] = "joined"
  BY ServerStepsRelay, SessionsStay
\* A handler that goes where no session is needed, or from where it had one.
<1>1. ASSUME NEW p \in Party, NEW next, Goto(p, next),
             p \in Host /\ next \in {"pairing", "forward"} => session'[p] # None,
             p \in Guest /\ next \in {"accepted", "forward"} => join'[p] = "joined"
      PROVE  HandlersPaired'
  <2>1. \A q \in Party : pc'[q] = IF q = p THEN next ELSE pc[q]
    BY <1>t, <1>1 DEF Goto, ControlTypes
  <2> QED
    BY <1>s, <1>1, <2>1 DEF HandlersPaired, Party
<1>2. CASE UNCHANGED pc
  BY <1>s, <1>2 DEF HandlersPaired
<1>3. ASSUME NEW p \in Party, Handler(p) PROVE HandlersPaired'
  <2>1. CASE ReadControl(p)
    <3>1. PICK next \in {"control", "registering", "joining"} : Goto(p, next)
      BY <2>1 DEF ReadControl
    <3> QED
      BY <1>1, <3>1
  <2>2. CASE ReadFails(p) \/ HandleHostExpired(p) \/ RefuseGuest(p) \/ ForwardFails(p)
    <3>1. Goto(p, "returned")
      BY <2>2 DEF ReadFails, HandleHostExpired, RefuseGuest, ForwardFails, Return
    <3> QED
      BY <1>1, <3>1
  <2>3. CASE ForwardQueued(p) \/ HandleGuestLookup(p)
    BY <1>2, <2>3 DEF ForwardQueued, HandleGuestLookup, serverVars
  <2>4. CASE HandleHostRegister(p)
    <3>1. Goto(p, "announcing") \/ Goto(p, "returned")
      BY <2>4 DEF HandleHostRegister, Return
    <3> QED
      BY <1>1, <3>1
  <2>5. CASE AnnounceCode(p) \/ HandleHostTimeout(p)
    <3>1. Goto(p, "waiting") \/ Goto(p, "expired")
      BY <2>5 DEF AnnounceCode, HandleHostTimeout
    <3> QED
      BY <1>1, <3>1
  <2>6. CASE p \in Host /\ HandleHostPaired(p)
    <3>1. TakeSession(p) /\ Goto(p, "pairing")
      BY <2>6 DEF HandleHostPaired
    <3>2. session'[p] \in Guest
      <4>1. paired[p] \in Seq(Guest) /\ paired[p] # <<>>
        BY <1>t, <2>6, <3>1 DEF TakeSession, TypeOK
      <4>2. Head(paired[p]) \in Guest
        BY <4>1, SeqTail
      <4> QED
        BY <1>t, <2>6, <3>1, <4>2 DEF TakeSession, TypeOK
    <3>3. session'[p] # None
      BY <3>2, NoneAssumption
    <3> QED
      BY <1>1, <2>6, <3>1, <3>3, RolesAssumption
  <2>7. CASE p \in Host /\ AnnouncePaired(p)
    <3>1. Goto(p, "forward") /\ session'[p] # None
      BY <1>s, <2>7 DEF AnnouncePaired, HandlersPaired
    <3> QED
      BY <1>1, <2>7, <3>1, RolesAssumption
  <2>8. CASE p \in Guest /\ HandleGuestDeliver(p)
    <3>1. \/ JoinDeliver(p) /\ Goto(p, "accepted")
          \/ Goto(p, "refused")
      BY <2>8 DEF HandleGuestDeliver
    <3>2. JoinDeliver(p) => join'[p] = "joined"
      BY <1>t, <2>8 DEF JoinDeliver, TypeOK
    <3> QED
      BY <1>1, <2>8, <3>1, <3>2, RolesAssumption
  <2>9. CASE p \in Guest /\ AnnounceJoined(p)
    <3>1. Goto(p, "forward") /\ join'[p] = "joined"
      BY <1>s, <2>9 DEF AnnounceJoined, HandlersPaired
    <3> QED
      BY <1>1, <2>9, <3>1, RolesAssumption
  <2> QED
    BY <1>3, <2>1, <2>2, <2>3, <2>4, <2>5, <2>6, <2>7, <2>8, <2>9 DEF Handler
<1>4. ASSUME NEW p \in Party, Pump(p) \/ Client(p) PROVE HandlersPaired'
  <2>1. CASE Dial(p)
    BY <1>1, <2>1 DEF Dial
  <2>2. CASE Pump(p) \/ ReadCtrl(p) \/ Send(p) \/ Recv(p) \/ Leave(p)
    BY <1>2, <2>2 DEF Pump, WritePump, WriteFails, ReadCtrl, Send, Recv, Leave
  <2> QED
    BY <1>4, <2>1, <2>2 DEF Client
<1>5. CASE ServerTick \/ UNCHANGED vars
  BY <1>2, <1>5 DEF ServerTick, vars, serverVars
<1> QED
  BY <1>3, <1>4, <1>5 DEF ServerNext

\* The coordinator leaves a session where the host finds it, until the host does.
LEMMA DeliveredStep ==
  ASSUME RelayInv, Delivered, [RelayNext]_relayVars
  PROVE  Delivered'
<1>t. /\ TypeOK /\ QueuedOnce /\ ConsumedByOne /\ SingleUse /\ SameSession
  BY DEF RelayInv
<1>s. \A g \in Guest : join[g] = "joined" => picked'[g] = picked[g] /\ picked[g] \in Host
  BY <1>t, SessionsStay, NoneAssumption DEF ConsumedByOne, TypeOK
<1>1. ASSUME NEW g \in Guest, JoinDeliver(g) PROVE Delivered'
  <2>1. /\ picked[g] \in Host /\ paired[picked[g]] = <<>>
        /\ \A k \in Guest : k # g /\ join[k] = "joined" => picked[k] # picked[g]
    BY <1>t, <1>1 DEF JoinDeliver, TypeOK, ConsumedByOne, SingleUse, QueuedOnce
  <2>2. paired'[picked[g]] = <<g>> /\ \A h \in Host : h # picked[g] => paired'[h] = paired[h]
    BY <1>t, <1>1, <2>1 DEF JoinDeliver, TypeOK
  <2>3. /\ \A k \in Guest : k # g /\ join'[k] = "joined" => join[k] = "joined"
        /\ session' = session /\ picked' = picked
    BY <1>t, <1>1 DEF JoinDeliver, TypeOK
  <2> QED
    BY <1>s, <2>1, <2>2, <2>3 DEF Delivered
<1>2. ASSUME NEW h \in Host, TakeSession(h) PROVE Delivered'
  <2>1. PICK g \in Guest : paired[h] = <<g>> /\ join[g] = "joined" /\ picked[g] = h
    BY <1>t, <1>2 DEF TakeSession, QueuedOnce
  <2>2. session'[h] = g /\ \A k \in Host : k # h => session'[k] = session[k] /\ paired'[k] = paired[k]
    BY <1>t, <1>2, <2>1 DEF TakeSession, TypeOK
  <2>3. join' = join /\ picked' = picked
    BY <1>2 DEF TakeSession
  <2>4. \A k \in Guest : join[k] = "joined" /\ picked[k] = h => k = g
    BY <1>t, <2>1, NoneAssumption DEF SingleUse
  <2> QED
    BY <1>s, <2>1, <2>2, <2>3, <2>4 DEF Delivered
<1>3. ASSUME NEW g \in Guest, NEW c \in Code, JoinLookup(g, c) PROVE Delivered'
  <2>1. \A k \in Guest : join'[k] = "joined" => join[k] = "joined"
    BY <1>t, <1>3 DEF JoinLookup, TypeOK
  <2> QED
    BY <1>s, <1>3, <2>1 DEF Delivered, JoinLookup
<1>4. ASSUME NEW g \in Guest, JoinGenFails(g) PROVE Delivered'
  <2>1. \A k \in Guest : join'[k] = "joined" => join[k] = "joined"
    BY <1>t, <1>4 DEF JoinGenFails, TypeOK
  <2> QED
    BY <1>s, <1>4, <2>1 DEF Delivered, JoinGenFails
<1>5. CASE UNCHANGED <<join, picked, session, paired>>
  BY <1>5 DEF Delivered
<1> QED
  BY <1>1, <1>2, <1>3, <1>4, <1>5 DEF RelayNext, Register, Cancel, Pending, Tick, relayVars

\* A handler begins to run when its client dials.
LEMMA UndialedStep ==
  ASSUME ServerTypeOK, Undialed, [ServerNext]_vars
  PROVE  Undialed'
<1>t. cl \in [Party -> ClientState] /\ ControlTypes
  BY DEF ServerTypeOK, ControlTypes
<1>1. ASSUME NEW p \in Party, Handler(p) PROVE Undialed'
  <2>1. UNCHANGED cl
    BY <1>1 DEF Handler, ReadControl, ReadFails, ForwardQueued, ForwardFails, HandleHostRegister,
       AnnounceCode, HandleHostPaired, HandleHostTimeout, HandleHostExpired, AnnouncePaired,
       HandleGuestLookup, HandleGuestDeliver, AnnounceJoined, RefuseGuest, serverVars
  <2>2. pc[p] # "none"
    BY <1>1 DEF Handler, ReadControl, ReadFails, ForwardQueued, ForwardFails, HandleHostRegister,
       AnnounceCode, HandleHostPaired, HandleHostTimeout, HandleHostExpired, AnnouncePaired,
       HandleGuestLookup, HandleGuestDeliver, AnnounceJoined, RefuseGuest
  <2>3. UNCHANGED pc \/ \E next : Goto(p, next)
    BY <1>1 DEF Handler, ReadControl, ReadFails, ForwardQueued, ForwardFails, HandleHostRegister,
       AnnounceCode, HandleHostPaired, HandleHostTimeout, HandleHostExpired, AnnouncePaired,
       HandleGuestLookup, HandleGuestDeliver, AnnounceJoined, RefuseGuest, Return, serverVars
  <2>4. \A q \in Party : q # p => pc'[q] = pc[q]
    BY <1>t, <2>3 DEF Goto, ControlTypes
  <2> QED
    BY <2>1, <2>2, <2>4 DEF Undialed
<1>2. ASSUME NEW p \in Party, Pump(p) \/ Client(p) PROVE Undialed'
  <2>1. CASE Dial(p)
    BY <1>t, <2>1 DEF Dial, Goto, ControlTypes, Undialed
  <2>2. CASE Pump(p) \/ ReadCtrl(p) \/ Send(p) \/ Recv(p) \/ Leave(p)
    <3>1. UNCHANGED pc
      BY <2>2 DEF Pump, WritePump, WriteFails, ReadCtrl, Send, Recv, Leave
    <3>2. UNCHANGED cl \/ (cl[p] # "idle" /\ \A q \in Party : q # p => cl'[q] = cl[q])
      BY <1>t, <2>2 DEF Pump, WritePump, WriteFails, ReadCtrl, Send, Recv, Leave
    <3>3. UNCHANGED cl \/ cl'[p] # "idle"
      BY <1>t, <2>2 DEF Pump, WritePump, WriteFails, ReadCtrl, Send, Recv, Leave, Awaited
    <3> QED
      BY <3>1, <3>2, <3>3 DEF Undialed
  <2> QED
    BY <1>2, <2>1, <2>2 DEF Client
<1>3. CASE ServerTick \/ UNCHANGED vars
  BY <1>3 DEF ServerTick, vars, serverVars, Undialed
<1> QED
  BY <1>1, <1>2, <1>3 DEF ServerNext

\* A handler leaves the select with the session or when its timer is spent, and a
\* guest's goes on once its Join has returned.
LEMMA BothEndsStep ==
  ASSUME ServerTypeOK, RelayInv, HandlersPaired, BothEnds, [ServerNext]_vars
  PROVE  BothEnds'
<1>t. TypeOK /\ ControlTypes /\ GuestPastJoin /\ HostWaits
  BY DEF ServerTypeOK, ControlTypes, BothEnds
<1>d. Delivered' /\ Undialed'
  BY ServerStepsRelay, DeliveredStep, UndialedStep DEF BothEnds
<1> DEFINE Waits(h) == \/ pc'[h] \in {"announcing", "waiting"}
                       \/ pc'[h] \in {"expired", "returned"} /\ timer'[h] = TTL
           Past(g) == pc'[g] \in {"accepted", "forward", "returned"}
\* What a step has to show of the handlers it moves.
<1>1. ASSUME NEW p \in Party, NEW next, Goto(p, next), timer' = timer,
             \A h \in Host : h # p /\ code'[h] # None => code[h] # None,
             \A h \in Host : h # p /\ session'[h] = None => session[h] = None,
             \A g \in Guest : g # p /\ join'[g] = "joined" => join[g] = "joined",
             p \in Host /\ code'[p] # None /\ session'[p] = None => Waits(p),
             p \in Guest /\ join'[p] = "joined" => Past(p)
      PROVE  GuestPastJoin' /\ HostWaits'
  <2>1. \A q \in Party : q # p => pc'[q] = pc[q]
    BY <1>t, <1>1 DEF Goto, ControlTypes
  <2> QED
    BY <1>t, <1>1, <2>1 DEF GuestPastJoin, HostWaits, Party
<1>2. ASSUME UNCHANGED <<pc, code, session, join>>,
             \A h \in Host : timer[h] = TTL => timer'[h] = TTL
      PROVE  GuestPastJoin' /\ HostWaits'
  BY <1>t, <1>2 DEF GuestPastJoin, HostWaits
<1>3. ASSUME NEW p \in Party, Handler(p) PROVE GuestPastJoin' /\ HostWaits'
  <2>a. ASSUME NEW next, Goto(p, next) PROVE pc'[p] = next
    BY <1>t, <2>a DEF Goto, ControlTypes
  <2>1. CASE ReadControl(p)
    <3>1. PICK next : Goto(p, next) /\ pc[p] = "control" /\ UNCHANGED <<code, session, join, timer>>
      BY <2>1 DEF ReadControl, relayVars
    <3> QED
      BY <1>t, <1>1, <3>1 DEF GuestPastJoin, HostWaits
  <2>2. CASE ReadFails(p) \/ ForwardFails(p)
    <3>1. /\ Goto(p, "returned") /\ pc[p] \in {"control", "forward"}
          /\ UNCHANGED <<code, session, join, timer>>
      BY <2>2 DEF ReadFails, ForwardFails, Return, relayVars
    <3>2. p \in Host /\ code[p] # None => session[p] # None
      BY <1>t, <3>1 DEF HostWaits, HandlersPaired
    <3> QED
      BY <1>1, <2>a, <3>1, <3>2
  <2>3. CASE ForwardQueued(p)
    BY <1>2, <2>3 DEF ForwardQueued, relayVars
  <2>4. CASE p \in Host /\ HandleHostRegister(p)
    <3>1. CASE \E c \in Code : Register(p, c) /\ Goto(p, "announcing")
      <4>1. PICK c \in Code : Register(p, c)
        BY <3>1
      <4>2. /\ Goto(p, "announcing") /\ timer' = timer /\ session' = session /\ join' = join
            /\ \A h \in Host : h # p => code'[h] = code[h]
        BY <1>t, <2>4, <3>1, <4>1 DEF Register, HandleHostRegister, TypeOK
      <4> QED
        BY <1>1, <2>4, <2>a, <4>2, RolesAssumption
    <3>2. CASE Return(p) /\ UNCHANGED relayVars
      <4>1. /\ Goto(p, "returned") /\ pc[p] = "registering"
            /\ UNCHANGED <<code, session, join, timer>>
        BY <2>4, <3>2 DEF HandleHostRegister, Return, relayVars
      <4> QED
        BY <1>t, <1>1, <2>4, <2>a, <4>1, RolesAssumption DEF HostWaits
    <3> QED
      BY <2>4, <3>1, <3>2 DEF HandleHostRegister
  <2>5. CASE p \in Host /\ AnnounceCode(p)
    <3>1. Goto(p, "waiting") /\ UNCHANGED <<code, session, join, timer>>
      BY <2>5 DEF AnnounceCode, relayVars
    <3> QED
      BY <1>1, <2>5, <2>a, <3>1, RolesAssumption
  <2>6. CASE p \in Host /\ HandleHostTimeout(p)
    <3>1. /\ Goto(p, "expired") /\ timer[p] = TTL /\ UNCHANGED <<code, session, join, timer>>
      BY <2>6 DEF HandleHostTimeout, Cancel
    <3> QED
      BY <1>1, <2>6, <2>a, <3>1, RolesAssumption
  <2>7. CASE p \in Host /\ HandleHostExpired(p)
    <3>1. /\ Goto(p, "returned") /\ pc[p] = "expired" /\ UNCHANGED <<code, session, join, timer>>
      BY <2>7 DEF HandleHostExpired, Return, relayVars
    <3> QED
      BY <1>t, <1>1, <2>7, <2>a, <3>1, RolesAssumption DEF HostWaits
  <2>8. CASE p \in Host /\ HandleHostPaired(p)
    <3>1. TakeSession(p) /\ Goto(p, "pairing") /\ UNCHANGED <<code, join, timer>>
      BY <2>8 DEF HandleHostPaired, TakeSession
    <3>2. \A h \in Host : h # p => session'[h] = session[h]
      BY <1>t, <3>1 DEF TakeSession, TypeOK
    <3>3. session'[p] # None
      BY <2>8, HandlersPairedStep, <1>3, <2>a, <3>1 DEF HandlersPaired, ServerNext
    <3> QED
      BY <1>1, <2>8, <3>1, <3>2, <3>3, RolesAssumption
  <2>9. CASE p \in Host /\ AnnouncePaired(p)
    <3>1. /\ Goto(p, "forward") /\ session[p] # None /\ UNCHANGED <<code, session, join, timer>>
      BY <2>9 DEF AnnouncePaired, HandlersPaired, relayVars
    <3> QED
      BY <1>1, <2>9, <3>1, RolesAssumption
  <2>10. CASE p \in Guest /\ HandleGuestLookup(p)
    <3>1. PICK c \in Code : JoinLookup(p, c)
      BY <2>10 DEF HandleGuestLookup
    <3>2. /\ UNCHANGED <<pc, timer, code, session>>
          /\ \A g \in Guest : join'[g] = "joined" => join[g] = "joined"
      BY <1>t, <2>10, <3>1 DEF HandleGuestLookup, serverVars, JoinLookup, TypeOK
    <3> QED
      BY <1>t, <3>2 DEF GuestPastJoin, HostWaits
  <2>11. CASE p \in Guest /\ HandleGuestDeliver(p)
    <3>1. CASE JoinDeliver(p) /\ Goto(p, "accepted")
      <4>1. /\ timer' = timer /\ code' = code /\ session' = session
            /\ \A g \in Guest : g # p => join'[g] = join[g]
        BY <1>t, <2>11, <3>1 DEF HandleGuestDeliver, JoinDeliver, TypeOK
      <4> QED
        BY <1>1, <2>11, <2>a, <3>1, <4>1, RolesAssumption
    <3>2. CASE JoinGenFails(p) /\ Goto(p, "refused")
      <4>1. /\ timer' = timer /\ code' = code /\ session' = session
            /\ \A g \in Guest : join'[g] = IF g = p THEN "failed" ELSE join[g]
        BY <1>t, <2>11, <3>2 DEF HandleGuestDeliver, JoinGenFails, TypeOK
      <4> QED
        BY <1>1, <2>11, <3>2, <4>1, RolesAssumption
    <3> QED
      BY <2>11, <3>1, <3>2 DEF HandleGuestDeliver
  <2>12. CASE p \in Guest /\ (AnnounceJoined(p) \/ RefuseGuest(p))
    <3>1. /\ Goto(p, "forward") \/ Goto(p, "returned")
          /\ UNCHANGED <<code, session, join, timer>>
      BY <2>12 DEF AnnounceJoined, RefuseGuest, Return, relayVars
    <3> QED
      BY <1>1, <2>12, <2>a, <3>1, RolesAssumption
  <2> QED
    BY <1>3, <2>1, <2>2, <2>3, <2>4, <2>5, <2>6, <2>7, <2>8, <2>9, <2>10, <2>11, <2>12 DEF Handler
<1>4. ASSUME NEW p \in Party, Pump(p) \/ Client(p) PROVE GuestPastJoin' /\ HostWaits'
  <2>1. CASE Dial(p)
    <3>1. Goto(p, "control") /\ pc[p] = "none" /\ UNCHANGED <<code, session, join, timer>>
      BY <2>1 DEF Dial, relayVars, BothEnds, Undialed
    <3> QED
      BY <1>t, <1>1, <3>1 DEF GuestPastJoin, HostWaits
  <2>2. CASE Pump(p) \/ ReadCtrl(p) \/ Send(p) \/ Recv(p) \/ Leave(p)
    BY <1>2, <2>2 DEF Pump, WritePump, WriteFails, ReadCtrl, Send, Recv, Leave, relayVars
  <2> QED
    BY <1>4, <2>1, <2>2 DEF Client
<1>5. ASSUME ServerTick PROVE GuestPastJoin' /\ HostWaits'
  <2>1. UNCHANGED <<pc, code, session, join>>
    BY <1>5 DEF ServerTick, Tick, relayVars
  <2>2. \A h \in Host : timer[h] = TTL => timer'[h] = TTL
    BY <1>5, TTLAssumption DEF ServerTick
  <2> QED
    BY <1>2, <2>1, <2>2
<1>6. ASSUME UNCHANGED vars PROVE GuestPastJoin' /\ HostWaits'
  BY <1>2, <1>6 DEF vars, serverVars, relayVars
<1> QED
  BY <1>d, <1>3, <1>4, <1>5, <1>6 DEF ServerNext, BothEnds

\* What a control frame on its way to a client says stays true.
LEMMA AnswersTrueStep ==
  ASSUME ServerTypeOK, RelayInv, HandlersPaired, AnswersTrue, [ServerNext]_vars
  PROVE  AnswersTrue'
<1>t. sendq \in [Party -> Seq(Frame)] /\ toClient \in [Party -> Seq(Frame)]
  BY DEF ServerTypeOK
<1>s. /\ \A h \in Host : session[h] # None => session'[h] # None
      /\ \A g \in Guest : join[g] = "joined" => join'[g] = "joined"
  BY ServerStepsRelay, SessionsStay
<1> DEFINE StillTrue(f, p) == /\ f.op = "paired" /\ p \in Host => session'[p] # None
                              /\ f.op = "joined" /\ p \in Guest => join'[p] = "joined"
<1>1. \A p \in Party : /\ \A i \in 1 .. Len(sendq[p]) : StillTrue(sendq[p][i], p)
                       /\ \A i \in 1 .. Len(toClient[p]) : StillTrue(toClient[p][i], p)
  BY <1>s DEF AnswersTrue, AllTrue, IsTrue
<1> HIDE DEF StillTrue
\* It is enough that every frame of the new queues is a frame of the old ones, or true.
<1>2. ASSUME \A p \in Party :
                /\ \A i \in 1 .. Len(sendq'[p]) : StillTrue(sendq'[p][i], p)
                /\ \A i \in 1 .. Len(toClient'[p]) : StillTrue(toClient'[p][i], p)
      PROVE  AnswersTrue'
  BY <1>2 DEF AnswersTrue, AllTrue, IsTrue, StillTrue
<1>3. ASSUME NEW p \in Party, NEW s \in Seq(Frame), s # <<>>,
             \A i \in 1 .. Len(s) : StillTrue(s[i], p)
      PROVE  /\ \A i \in 1 .. Len(Tail(s)) : StillTrue(Tail(s)[i], p)
             /\ StillTrue(Head(s), p) /\ Head(s) \in Frame
  BY <1>3, SeqTail
<1>4. ASSUME NEW p \in Party, NEW s \in Seq(Frame), NEW f \in Frame, StillTrue(f, p),
             \A i \in 1 .. Len(s) : StillTrue(s[i], p)
      PROVE  \A i \in 1 .. Len(Append(s, f)) : StillTrue(Append(s, f)[i], p)
  <2>1. /\ Len(Append(s, f)) = Len(s) + 1
        /\ \A i \in 1 .. Len(s) : Append(s, f)[i] = s[i]
        /\ Append(s, f)[Len(s) + 1] = f
        /\ \A i \in 1 .. Len(s) + 1 : i \in 1 .. Len(s) \/ i = Len(s) + 1
    BY SeqAppend
  <2> QED
    BY <1>4, <2>1
<1>5. ASSUME NEW p \in Party, QueueStep(p) PROVE AnswersTrue'
  <2>t. sendq[p] \in Seq(Frame) /\ toClient[p] \in Seq(Frame)
    BY <1>t
  <2>1. CASE FrameTaken(p) \/ Dialed(p) \/ Send(p) \/ QueuesKept
    BY <1>1, <1>2, <2>1 DEF FrameTaken, Dialed, Send, QueuesKept
  <2>2. CASE ControlQueued(p)
    <3>1. PICK op \in Op : /\ SendControl(p, op)
                           /\ op = "paired" => pc[p] = "pairing"
                           /\ op = "joined" => pc[p] = "accepted"
      BY <2>2 DEF ControlQueued
    <3>2. StillTrue(Text(op), p) /\ Text(op) \in Frame
      <4>1. Text(op).op = op /\ Text(op) \in Frame
        BY FrameTypes
      <4> QED
        BY <1>s, <3>1, <4>1 DEF HandlersPaired, StillTrue
    <3>3. /\ \A q \in Party : q # p => sendq'[q] = sendq[q]
          /\ sendq'[p] = sendq[p] \/ sendq'[p] = Append(sendq[p], Text(op))
      BY <3>1, SendControlStep
    <3>4. \A i \in 1 .. Len(sendq'[p]) : StillTrue(sendq'[p][i], p)
      BY <1>1, <1>4, <2>t, <3>2, <3>3
    <3>5. toClient' = toClient
      BY <2>2 DEF ControlQueued
    <3>6. ASSUME NEW q \in Party
          PROVE  /\ \A i \in 1 .. Len(sendq'[q]) : StillTrue(sendq'[q][i], q)
                 /\ \A i \in 1 .. Len(toClient'[q]) : StillTrue(toClient'[q][i], q)
      BY <1>1, <3>3, <3>4, <3>5
    <3> QED
      BY <1>2, <3>6
  <2>3. CASE FrameForwarded(p)
    <3> DEFINE f == Head(toServer[p])
    <3> DEFINE q == Partner(p)
    <3>1. q \in Party /\ f \in Frame /\ f.op # "paired" /\ f.op # "joined"
      <4>1. f \in Frame
        BY <2>3, QueueTypes, SeqTail DEF FrameForwarded
      <4>2. f.op = "binary"
        BY <2>3 DEF FrameForwarded, IsText
      <4>3. q \in Party
        BY <2>3, PartnerIsPeer DEF FrameForwarded
      <4> QED
        BY <4>1, <4>2, <4>3
    <3>2. sendq' = [sendq EXCEPT ![q] = Append(@, f)] /\ toClient' = toClient
      BY <2>3 DEF FrameForwarded
    <3> HIDE DEF f, q
    <3>3. StillTrue(f, q)
      BY <3>1 DEF StillTrue
    <3>4. /\ sendq'[q] = Append(sendq[q], f)
          /\ \A x \in Party : x # q => sendq'[x] = sendq[x]
      BY <1>t, <3>1, <3>2
    <3>5. \A i \in 1 .. Len(sendq'[q]) : StillTrue(sendq'[q][i], q)
      BY <1>1, <1>4, <1>t, <3>1, <3>3, <3>4
    <3>6. ASSUME NEW x \in Party
          PROVE  /\ \A i \in 1 .. Len(sendq'[x]) : StillTrue(sendq'[x][i], x)
                 /\ \A i \in 1 .. Len(toClient'[x]) : StillTrue(toClient'[x][i], x)
      BY <1>1, <3>2, <3>4, <3>5
    <3> QED
      BY <1>2, <3>6
  <2>4. CASE FrameWritten(p)
    <3>1. /\ sendq'[p] = Tail(sendq[p]) /\ sendq[p] # <<>>
          /\ toClient'[p] = Append(toClient[p], Head(sendq[p]))
          /\ \A q \in Party : q # p => sendq'[q] = sendq[q] /\ toClient'[q] = toClient[q]
      BY <1>t, <2>4 DEF FrameWritten
    <3>2. /\ \A i \in 1 .. Len(sendq'[p]) : StillTrue(sendq'[p][i], p)
          /\ StillTrue(Head(sendq[p]), p) /\ Head(sendq[p]) \in Frame
      BY <1>1, <1>3, <2>t, <3>1
    <3>3. \A i \in 1 .. Len(toClient'[p]) : StillTrue(toClient'[p][i], p)
      BY <1>1, <1>4, <2>t, <3>1, <3>2
    <3>4. ASSUME NEW q \in Party
          PROVE  /\ \A i \in 1 .. Len(sendq'[q]) : StillTrue(sendq'[q][i], q)
                 /\ \A i \in 1 .. Len(toClient'[q]) : StillTrue(toClient'[q][i], q)
      BY <1>1, <3>1, <3>2, <3>3
    <3> QED
      BY <1>2, <3>4
  <2>5. CASE FrameDropped(p)
    <3>1. /\ sendq'[p] = Tail(sendq[p]) /\ sendq[p] # <<>> /\ toClient' = toClient
          /\ \A q \in Party : q # p => sendq'[q] = sendq[q]
      BY <1>t, <2>5 DEF FrameDropped
    <3>2. \A i \in 1 .. Len(sendq'[p]) : StillTrue(sendq'[p][i], p)
      BY <1>1, <1>3, <2>t, <3>1
    <3>3. ASSUME NEW q \in Party
          PROVE  /\ \A i \in 1 .. Len(sendq'[q]) : StillTrue(sendq'[q][i], q)
                 /\ \A i \in 1 .. Len(toClient'[q]) : StillTrue(toClient'[q][i], q)
      BY <1>1, <3>1, <3>2
    <3> QED
      BY <1>2, <3>3
  <2>6. CASE FrameLost(p) \/ FrameReceived(p)
    <3>1. /\ sendq' = sendq
          /\ \A q \in Party : q # p => toClient'[q] = toClient[q]
          /\ \/ toClient[p] # <<>> /\ toClient'[p] = Tail(toClient[p])
             \/ toClient'[p] = <<>>
      BY <1>t, <2>6 DEF FrameLost, FrameReceived
    <3>2. \A i \in 1 .. Len(toClient'[p]) : StillTrue(toClient'[p][i], p)
      <4>1. CASE toClient[p] # <<>> /\ toClient'[p] = Tail(toClient[p])
        BY <1>1, <1>3, <2>t, <4>1
      <4>2. CASE toClient'[p] = <<>>
        BY <4>2
      <4> QED
        BY <3>1, <4>1, <4>2
    <3>3. ASSUME NEW q \in Party
          PROVE  /\ \A i \in 1 .. Len(sendq'[q]) : StillTrue(sendq'[q][i], q)
                 /\ \A i \in 1 .. Len(toClient'[q]) : StillTrue(toClient'[q][i], q)
      BY <1>1, <3>1, <3>2
    <3> QED
      BY <1>2, <3>3
  <2> QED
    BY <1>5, <2>1, <2>2, <2>3, <2>4, <2>5, <2>6 DEF QueueStep
<1> QED
  <2>1. (UNCHANGED <<sendq, toClient>>) => AnswersTrue'
    BY <1>1, <1>2
  <2>2. QueuesKept \/ \E p \in Party : QueueStep(p)
    BY QueueSteps
  <2> QED
    BY <1>5, <2>1, <2>2 DEF QueuesKept

\* A client gets its Link from the relay's answer, and what it receives from its Link.
LEMMA LinkedStep ==
  ASSUME ServerTypeOK, RelayInv, RelayInv', PairedInv, BothEnds', [ServerNext]_vars
  PROVE  LinkedMeansPaired' /\ RecvLinked'
<1>t. /\ cl \in [Party -> ClientState] /\ toClient \in [Party -> Seq(Frame)]
      /\ rcvd \in [Party -> Seq(BinaryFrames)]
  BY DEF ServerTypeOK
<1>s. /\ \A h \in Host : session[h] # None => session'[h] # None
      /\ \A g \in Guest : join[g] = "joined" => join'[g] = "joined"
  BY ServerStepsRelay, SessionsStay
<1>1. /\ \A h \in Host : cl[h] = "linked" => session[h] # None
      /\ \A g \in Guest : cl[g] = "linked" => join[g] = "joined"
  BY DEF PairedInv, LinkedMeansPaired
<1>2. /\ \A h \in Host : cl'[h] = "linked" => session'[h] # None
      /\ \A g \in Guest : cl'[g] = "linked" => join'[g] = "joined"
  <2>1. ASSUME NEW p \in Party, ReadCtrl(p), cl'[p] = "linked"
        PROVE  /\ p \in Host => session[p] # None
               /\ p \in Guest => join[p] = "joined"
    <3>1. /\ toClient[p] # <<>> /\ cl[p] # "linked"
          /\ Awaited(p)[2] = "linked" /\ Head(toClient[p]).op = Awaited(p)[1]
      <4> DEFINE f == Head(toClient[p])
      <4> DEFINE a == Awaited(p)
      <4> DEFINE bad == IsText(f) /\ f.op # a[1]
      <4>1. /\ cl[p] \in {"dialed", "registered"} /\ toClient[p] # <<>>
            /\ cl' = [cl EXCEPT ![p] = CASE bad        -> "gone"
                                         [] ~IsText(f) -> @
                                         [] OTHER      -> a[2]]
        BY <2>1 DEF ReadCtrl
      <4> HIDE DEF f, a, bad
      <4>2. cl'[p] = CASE bad -> "gone" [] ~IsText(f) -> cl[p] [] OTHER -> a[2]
        BY <1>t, <4>1
      <4>3. bad = (IsText(f) /\ f.op # a[1])
        BY DEF bad
      <4>4. a[2] = "linked" /\ f.op = a[1]
        <5>1. bad => cl'[p] = "gone"
          BY <4>2, <4>3, Zenon
        <5>2. ~IsText(f) => cl'[p] = cl[p]
          BY <4>2, <4>3, Zenon
        <5>3. ~bad /\ IsText(f) => cl'[p] = a[2]
          BY <4>2, Zenon
        <5> QED
          BY <2>1, <4>1, <4>3, <5>1, <5>2, <5>3
      <4> QED
        BY <4>1, <4>4 DEF f, a
    <3>2. Head(toClient[p]) = toClient[p][1] /\ 1 \in 1 .. Len(toClient[p])
      BY <1>t, <3>1, SeqTail
    <3>3. IsTrue(Head(toClient[p]), p)
      BY <3>2 DEF PairedInv, AnswersTrue, AllTrue
    <3>4. /\ p \in Guest => Head(toClient[p]).op = "joined"
          /\ p \in Host => Head(toClient[p]).op = "paired"
      BY <3>1, RolesAssumption DEF Awaited
    <3> QED
      BY <3>3, <3>4 DEF IsTrue
  <2>2. ASSUME NEW p \in Party, ReadCtrl(p) \/ Dial(p) \/ Leave(p),
               NEW q \in Party, cl'[q] = "linked"
        PROVE  cl[q] = "linked" \/ (q = p /\ ReadCtrl(p))
    BY <1>t, <2>2 DEF ReadCtrl, Dial, Leave
  <2>3. CASE UNCHANGED cl
    BY <1>1, <1>s, <2>3
  <2>4. UNCHANGED cl \/ \E p \in Party : ReadCtrl(p) \/ Dial(p) \/ Leave(p)
    BY DEF ServerNext, Handler, ReadControl, ReadFails, ForwardQueued, ForwardFails,
       HandleHostRegister, AnnounceCode, HandleHostPaired, HandleHostTimeout,
       HandleHostExpired, AnnouncePaired, HandleGuestLookup, HandleGuestDeliver,
       AnnounceJoined, RefuseGuest, Pump, WritePump, WriteFails, Client, Send, Recv,
       ServerTick, vars, serverVars
  <2> QED
    BY <1>1, <1>s, <2>1, <2>2, <2>3, <2>4 DEF Party
<1>3. LinkedMeansPaired'
  <2>1. \A h \in Host : session'[h] # None =>
           session'[h] \in Guest /\ join'[session'[h]] = "joined" /\ picked'[session'[h]] = h
    BY DEF RelayInv, SameSession, TypeOK
  <2>2. ASSUME NEW g \in Guest, join'[g] = "joined" PROVE HostSide(g, picked[g])'
    <3>1. picked'[g] \in Host /\ code'[picked'[g]] # None
      BY <2>2 DEF RelayInv, ConsumedByOne, TypeOK
    <3>2. session'[picked'[g]] = g \/ paired'[picked'[g]] = <<g>>
      BY <2>2 DEF BothEnds, Delivered
    <3>3. paired'[picked'[g]] = <<g>> => session'[picked'[g]] = None
      BY <3>1 DEF RelayInv, QueuedOnce
    <3> QED
      BY <3>1, <3>2, <3>3 DEF HostSide, BothEnds, HostWaits
  <2> QED
    BY <1>2, <2>1, <2>2 DEF LinkedMeansPaired, BothEnds, GuestPastJoin
<1>4. RecvLinked'
  <2>1. ASSUME NEW p \in Party, QueueStep(p), NEW h \in Host, rcvd'[h] # <<>>
        PROVE  rcvd[h] # <<>> \/ cl[h] = "linked"
    <3>1. FrameReceived(p) => cl[p] = "linked" /\ \A q \in Party : q # p => rcvd'[q] = rcvd[q]
      BY <1>t DEF FrameReceived
    <3>2. rcvd' = rcvd \/ FrameReceived(p)
      BY <2>1 DEF QueueStep, FrameTaken, ControlQueued, FrameForwarded, FrameWritten,
         FrameDropped, Dialed, FrameLost, Send, QueuesKept
    <3> QED
      BY <2>1, <3>1, <3>2 DEF Party
  <2>2. QueuesKept \/ \E p \in Party : QueueStep(p)
    BY QueueSteps
  <2> QED
    BY <1>1, <1>s, <2>1, <2>2 DEF RecvLinked, PairedInv, QueuesKept
<1> QED
  BY <1>3, <1>4

-----------------------------------------------------------------------------
(* Frames keep their sender's order.                                        *)

\* A party has one peer, and keeps it.
LEMMA OnePeer ==
  ASSUME RelayInv, NEW p \in Party, NEW q \in Party, NEW r \in Party, Peer(q, p), Peer(r, p)
  PROVE  q = r
<1>1. SingleUse
  BY DEF RelayInv
<1>2. CASE p \in Host
  <2>1. /\ q \in Guest /\ picked[q] = p /\ r \in Guest /\ picked[r] = p /\ p # None
    BY <1>2, RolesAssumption, NoneAssumption DEF Peer
  <2> QED
    BY <1>1, <2>1 DEF SingleUse
<1>3. CASE p \in Guest
  BY <1>3, RolesAssumption DEF Peer
<1> QED
  BY <1>2, <1>3 DEF Party

LEMMA PeersStay ==
  ASSUME RelayInv, [RelayNext]_relayVars, NEW p \in Party, NEW q \in Party, Peer(q, p)
  PROVE  Peer(q, p)'
<1>1. \A g \in Guest : picked[g] \in Host => picked'[g] = picked[g]
  BY SessionsStay, NoneAssumption
<1> QED
  BY <1>1 DEF Peer

LEMMA FramesStep ==
  ASSUME ServerTypeOK, RelayInv, RelayInv', HandlersPaired,
         FramesOwned, FramesSorted, PeersSorted, [ServerNext]_vars
  PROVE  FramesOwned' /\ FramesSorted' /\ PeersSorted'
<1> DEFINE PeerN(q, p) == \/ p \in Host /\ q \in Guest /\ picked'[q] = p
                          \/ p \in Guest /\ q \in Host /\ picked'[p] = q
<1> DEFINE S(p) == Carried(toServer[p])
<1> DEFINE Q(p) == Carried(sendq[p])
<1> DEFINE C(p) == Carried(toClient[p])
<1> DEFINE R(p) == Carried(rcvd[p])
<1> DEFINE SN(p) == Carried(toServer'[p])
<1> DEFINE QN(p) == Carried(sendq'[p])
<1> DEFINE CN(p) == Carried(toClient'[p])
<1> DEFINE RN(p) == Carried(rcvd'[p])
\* The peers of the next state are unique, and the frames that are there already
\* are in order with respect to them: a party that had no peer has no frames.
<1>1. ASSUME NEW p \in Party, NEW q \in Party, Peer(q, p)
      PROVE  PeerN(q, p)
  <2>1. Peer(q, p)'
    BY <1>1, ServerStepsRelay, PeersStay
  <2> QED
    BY <2>1 DEF Peer
<1>2. ASSUME NEW p \in Party, NEW q \in Party, NEW r \in Party, PeerN(q, p), PeerN(r, p)
      PROVE  q = r
  <2>1. SingleUse'
    BY DEF RelayInv
  <2>2. CASE p \in Host
    <3>1. /\ q \in Guest /\ picked'[q] = p /\ r \in Guest /\ picked'[r] = p /\ p # None
      BY <1>2, <2>2, RolesAssumption, NoneAssumption
    <3> QED
      BY <2>1, <3>1 DEF SingleUse
  <2>3. CASE p \in Guest
    BY <1>2, <2>3, RolesAssumption
  <2> QED
    BY <2>2, <2>3 DEF Party
<1>3. \A p, q \in Party : PeerN(q, p) = PeerN(p, q)
  BY RolesAssumption
<1>4. \A p \in Party : \A f \in S(p) \cup Q(p) \cup C(p) \cup R(p) :
         f \in BinaryFrames /\ f.from \in Party /\ f.n \in Nat
  <2> SUFFICES ASSUME NEW p \in Party, NEW s \in Seq(Frame), NEW f \in Carried(s)
               PROVE  f \in BinaryFrames /\ f.from \in Party /\ f.n \in Nat
    BY QueueTypes
  <2>1. f \in Frame /\ ~IsText(f)
    BY DEF Carried
  <2> QED
    BY <2>1, FrameTypes
<1>5. /\ \A p \in Party : \A f \in S(p) : f.from = p /\ f.n <= sent[p]
      /\ \A p \in Party : \A f \in Q(p) \cup C(p) \cup R(p) :
            PeerN(f.from, p) /\ f.n <= sent[f.from]
  <2>1. \A p \in Party : \A f \in S(p) : f.from = p /\ f.n <= sent[p]
    BY DEF FramesOwned
  <2>2. ASSUME NEW p \in Party, NEW f \in Q(p) \cup C(p) \cup R(p)
        PROVE  Peer(f.from, p) /\ PeerN(f.from, p) /\ f.n <= sent[f.from]
    <3>1. Peer(f.from, p) /\ f.n <= sent[f.from]
      BY DEF FramesOwned
    <3> QED
      BY <1>1, <1>4, <3>1
  <2> QED
    BY <2>1, <2>2
<1>6. \A p \in Party : /\ \A f \in C(p), g \in Q(p) : f.n < g.n
                       /\ \A f \in R(p), g \in Q(p) : f.n < g.n
                       /\ \A f \in R(p), g \in C(p) : f.n < g.n
  BY DEF FramesSorted, Before
<1>7. ASSUME NEW p \in Party, NEW q \in Party, PeerN(q, p),
             NEW f \in Q(p) \cup C(p) \cup R(p), NEW g \in S(q)
      PROVE  f.n < g.n
  <2>1. f.from = q
    BY <1>2, <1>4, <1>5, <1>7
  <2>2. Peer(q, p)
    BY <2>1 DEF FramesOwned
  <2> QED
    BY <1>7, <2>2 DEF PeersSorted, Before
\* It is enough to show the same of the new queues.
<1>8. ASSUME \A p \in Party : \A f \in SN(p) : f.from = p /\ f.n <= sent'[p],
             \A p \in Party : \A f \in QN(p) \cup CN(p) \cup RN(p) :
                PeerN(f.from, p) /\ f.n <= sent'[f.from],
             \A p \in Party : /\ Sorted(toServer'[p]) /\ Sorted(sendq'[p])
                              /\ Sorted(toClient'[p]) /\ Sorted(rcvd'[p]),
             \A p \in Party : /\ \A f \in CN(p), g \in QN(p) : f.n < g.n
                              /\ \A f \in RN(p), g \in QN(p) : f.n < g.n
                              /\ \A f \in RN(p), g \in CN(p) : f.n < g.n,
             \A p, q \in Party : PeerN(q, p) =>
                \A f \in QN(p) \cup CN(p) \cup RN(p), g \in SN(q) : f.n < g.n
      PROVE  FramesOwned' /\ FramesSorted' /\ PeersSorted'
  <2>1. FramesOwned'
    BY <1>8 DEF FramesOwned, Peer
  <2>2. FramesSorted'
    BY <1>8 DEF FramesSorted, Before
  <2>3. PeersSorted'
    BY <1>8 DEF PeersSorted, Peer, Before
  <2> QED
    BY <2>1, <2>2, <2>3
<1>9. \A p \in Party : /\ toServer[p] \in Seq(Frame) /\ sendq[p] \in Seq(Frame)
                       /\ toClient[p] \in Seq(Frame) /\ rcvd[p] \in Seq(Frame)
                       /\ Sorted(toServer[p]) /\ Sorted(sendq[p])
                       /\ Sorted(toClient[p]) /\ Sorted(rcvd[p])
  BY QueueTypes DEF FramesSorted
<1>10. sent \in [Party -> 0 .. MaxFrames] /\ \A p \in Party : sent[p] \in Nat
  BY BufferAssumption DEF ServerTypeOK
<1>11. /\ sendq \in [Party -> Seq(Frame)] /\ toServer \in [Party -> Seq(Frame)]
       /\ toClient \in [Party -> Seq(Frame)] /\ rcvd \in [Party -> Seq(BinaryFrames)]
  BY DEF ServerTypeOK
<1>12. \A s \in Seq(Frame) : s # <<>> =>
          /\ Carried(Tail(s)) \subseteq Carried(s) /\ Head(s) \in Frame
          /\ Sorted(s) => Sorted(Tail(s))
          /\ ~IsText(Head(s)) => Head(s) \in Carried(s)
          /\ ~IsText(Head(s)) /\ Sorted(s) => \A f \in Carried(Tail(s)) : Head(s).n < f.n
  BY CarriedTail, SortedTail, SeqTail
<1>13. ASSUME NEW s \in Seq(Frame), NEW f \in Frame, NEW t, t = Append(s, f), Sorted(s),
              ~IsText(f) => \A g \in Carried(s) : g.n < f.n
       PROVE  /\ IsText(f) => Carried(t) = Carried(s)
              /\ ~IsText(f) => Carried(t) = Carried(s) \cup {f}
              /\ Sorted(t)
  BY <1>13, CarriedAppend, SortedAppend
<1>14. \A p \in Party : SN(p) = Carried(toServer'[p]) /\ QN(p) = Carried(sendq'[p])
                     /\ CN(p) = Carried(toClient'[p]) /\ RN(p) = Carried(rcvd'[p])
                     /\ S(p) = Carried(toServer[p]) /\ Q(p) = Carried(sendq[p])
                     /\ C(p) = Carried(toClient[p]) /\ R(p) = Carried(rcvd[p])
  OBVIOUS
<1> HIDE DEF PeerN, S, Q, C, R, SN, QN, CN, RN
\* A step that only loses frames.
<1>15. ASSUME \A p \in Party : SN(p) \subseteq S(p) /\ QN(p) \subseteq Q(p)
                            /\ CN(p) \subseteq C(p) /\ RN(p) \subseteq R(p),
              \A p \in Party : /\ Sorted(toServer'[p]) /\ Sorted(sendq'[p])
                               /\ Sorted(toClient'[p]) /\ Sorted(rcvd'[p]),
              sent' = sent
       PROVE  FramesOwned' /\ FramesSorted' /\ PeersSorted'
  <2>1. \A p \in Party : \A f \in SN(p) : f.from = p /\ f.n <= sent'[p]
    BY <1>5, <1>15
  <2>2. \A p \in Party : \A f \in QN(p) \cup CN(p) \cup RN(p) :
           PeerN(f.from, p) /\ f.n <= sent'[f.from]
    BY <1>5, <1>15
  <2>3. \A p \in Party : /\ \A f \in CN(p), g \in QN(p) : f.n < g.n
                         /\ \A f \in RN(p), g \in QN(p) : f.n < g.n
                         /\ \A f \in RN(p), g \in CN(p) : f.n < g.n
    BY <1>6, <1>15
  <2>4. \A p, q \in Party : PeerN(q, p) =>
           \A f \in QN(p) \cup CN(p) \cup RN(p), g \in SN(q) : f.n < g.n
    BY <1>7, <1>15
  <2> QED
    BY <1>8, <1>15, <2>1, <2>2, <2>3, <2>4
<1>16. CASE QueuesKept
  <2>1. \A p \in Party : SN(p) = S(p) /\ QN(p) = Q(p) /\ CN(p) = C(p) /\ RN(p) = R(p)
    BY <1>14, <1>16 DEF QueuesKept
  <2> QED
    BY <1>9, <1>15, <1>16, <2>1 DEF QueuesKept
<1>17. ASSUME NEW p \in Party, FrameTaken(p) \/ Dialed(p)
       PROVE  FramesOwned' /\ FramesSorted' /\ PeersSorted'
  <2>1. UNCHANGED <<sendq, toClient, rcvd, sent>>
    BY <1>17 DEF FrameTaken, Dialed
  <2>2. \A q \in Party : q # p => toServer'[q] = toServer[q]
    BY <1>11, <1>17 DEF FrameTaken, Dialed
  <2>3. Carried(toServer'[p]) \subseteq Carried(toServer[p]) /\ Sorted(toServer'[p])
    <3>1. CASE FrameTaken(p)
      <4>1. toServer'[p] = Tail(toServer[p]) /\ toServer[p] # <<>>
        BY <1>11, <3>1 DEF FrameTaken
      <4> QED
        BY <1>9, <1>12, <4>1
    <3>2. CASE Dialed(p)
      <4>1. PICK op \in Op : toServer'[p] = <<Text(op)>>
        BY <1>11, <3>2 DEF Dialed
      <4>2. IsText(Text(op))
        BY FrameTypes
      <4> DEFINE s == <<Text(op)>>
      <4>3. \A i \in 1 .. Len(s) : IsText(s[i])
        BY <4>2
      <4> HIDE DEF s
      <4>4. Carried(s) = {} /\ Sorted(s)
        BY <4>3 DEF Carried, Sorted
      <4> QED
        BY <4>1, <4>4 DEF s
    <3> QED
      BY <1>17, <3>1, <3>2
  <2>4. \A q \in Party : SN(q) \subseteq S(q) /\ QN(q) = Q(q) /\ CN(q) = C(q) /\ RN(q) = R(q)
    BY <1>14, <2>1, <2>2, <2>3
  <2>5. \A q \in Party : Sorted(toServer'[q])
    BY <1>9, <2>2, <2>3
  <2> QED
    BY <1>9, <1>15, <2>1, <2>4, <2>5
<1>18. ASSUME NEW p \in Party, ControlQueued(p) \/ FrameDropped(p)
       PROVE  FramesOwned' /\ FramesSorted' /\ PeersSorted'
  <2>1. UNCHANGED <<toServer, toClient, rcvd, sent>>
    BY <1>18 DEF ControlQueued, FrameDropped
  <2>2. /\ \A q \in Party : q # p => sendq'[q] = sendq[q]
        /\ Carried(sendq'[p]) \subseteq Carried(sendq[p]) /\ Sorted(sendq'[p])
    <3>1. CASE FrameDropped(p)
      <4>1. /\ sendq'[p] = Tail(sendq[p]) /\ sendq[p] # <<>>
            /\ \A q \in Party : q # p => sendq'[q] = sendq[q]
        BY <1>11, <3>1 DEF FrameDropped
      <4> QED
        BY <1>9, <1>12, <4>1
    <3>2. CASE ControlQueued(p)
      <4>1. PICK op \in Op : SendControl(p, op)
        BY <3>2 DEF ControlQueued
      <4>2. /\ \A q \in Party : q # p => sendq'[q] = sendq[q]
            /\ sendq'[p] = sendq[p] \/ sendq'[p] = Append(sendq[p], Text(op))
        BY <4>1, SendControlStep
      <4>3. Text(op) \in Frame /\ IsText(Text(op))
        BY FrameTypes
      <4> QED
        BY <1>9, <1>13, <4>2, <4>3
    <3> QED
      BY <1>18, <3>1, <3>2
  <2>4. \A q \in Party : SN(q) = S(q) /\ QN(q) \subseteq Q(q) /\ CN(q) = C(q) /\ RN(q) = R(q)
    BY <1>14, <2>1, <2>2
  <2>5. \A q \in Party : Sorted(sendq'[q])
    BY <1>9, <2>2
  <2> QED
    BY <1>9, <1>15, <2>1, <2>4, <2>5
<1>19. ASSUME NEW p \in Party, FrameLost(p)
       PROVE  FramesOwned' /\ FramesSorted' /\ PeersSorted'
  <2>1. /\ UNCHANGED <<toServer, sendq, rcvd, sent>>
        /\ \A q \in Party : q # p => toClient'[q] = toClient[q]
        /\ \/ toClient[p] # <<>> /\ toClient'[p] = Tail(toClient[p])
           \/ toClient'[p] = <<>>
    BY <1>11, <1>19 DEF FrameLost
  <2>2. Carried(toClient'[p]) \subseteq Carried(toClient[p]) /\ Sorted(toClient'[p])
    BY <1>9, <1>12, <2>1, CarriedEmpty
  <2>4. \A q \in Party : SN(q) = S(q) /\ QN(q) = Q(q) /\ CN(q) \subseteq C(q) /\ RN(q) = R(q)
    BY <1>14, <2>1, <2>2
  <2>5. \A q \in Party : Sorted(toClient'[q])
    BY <1>9, <2>1, <2>2
  <2> QED
    BY <1>9, <1>15, <2>1, <2>4, <2>5
\* The relay moves a frame from its sender's connection to the peer's queue.
<1>20. ASSUME NEW p \in Party, FrameForwarded(p)
       PROVE  FramesOwned' /\ FramesSorted' /\ PeersSorted'
  <2> DEFINE q == Partner(p)
  <2> DEFINE f == Head(toServer[p])
  <2>1. q \in Party /\ PeerN(p, q)
    BY <1>1, <1>20, PartnerIsPeer DEF FrameForwarded
  <2>2. /\ toServer[p] # <<>> /\ ~IsText(f) /\ toServer'[p] = Tail(toServer[p])
        /\ \A x \in Party : x # p => toServer'[x] = toServer[x]
    BY <1>11, <1>20 DEF FrameForwarded
  <2>3. /\ sendq'[q] = Append(sendq[q], f)
        /\ \A x \in Party : x # q => sendq'[x] = sendq[x]
    BY <1>11, <1>20, <2>1 DEF FrameForwarded
  <2>4. UNCHANGED <<toClient, rcvd, sent>>
    BY <1>20 DEF FrameForwarded
  <2> HIDE DEF q, f
  <2>5. /\ f \in Frame /\ f \in S(p) /\ SN(p) \subseteq S(p) /\ Sorted(toServer'[p])
        /\ \A g \in SN(p) : f.n < g.n
    BY <1>9, <1>12, <1>14, <2>2 DEF f
  <2>6. \A g \in Q(q) \cup C(q) \cup R(q) : g.n < f.n
    BY <1>7, <2>1, <2>5
  <2>7. QN(q) = Q(q) \cup {f} /\ Sorted(sendq'[q])
    <3>1. /\ sendq[q] \in Seq(Frame) /\ Sorted(sendq[q])
          /\ Q(q) = Carried(sendq[q]) /\ QN(q) = Carried(sendq'[q])
      BY <1>9, <1>14, <2>1
    <3>2. \A g \in Carried(sendq[q]) : g.n < f.n
      BY <2>6, <3>1
    <3> QED
      BY <1>13, <2>2, <2>3, <2>5, <3>1, <3>2
  <2>8. \A x \in Party : /\ SN(x) \subseteq S(x) /\ CN(x) = C(x) /\ RN(x) = R(x)
                         /\ x # q => QN(x) = Q(x)
    BY <1>14, <2>2, <2>3, <2>4, <2>5
  <2>9. \A x \in Party : \A g \in SN(x) : g.from = x /\ g.n <= sent'[x]
    BY <1>5, <2>4, <2>8
  <2>10. \A x \in Party : \A g \in QN(x) \cup CN(x) \cup RN(x) :
            PeerN(g.from, x) /\ g.n <= sent'[g.from]
    <3>1. PeerN(f.from, q) /\ f.n <= sent[f.from]
      BY <1>5, <2>1, <2>5
    <3> QED
      BY <1>5, <2>4, <2>7, <2>8, <3>1
  <2>11. \A x \in Party : /\ Sorted(toServer'[x]) /\ Sorted(sendq'[x])
                          /\ Sorted(toClient'[x]) /\ Sorted(rcvd'[x])
    BY <1>9, <2>2, <2>3, <2>4, <2>5, <2>7
  <2>12. \A x \in Party : /\ \A a \in CN(x), g \in QN(x) : a.n < g.n
                          /\ \A a \in RN(x), g \in QN(x) : a.n < g.n
                          /\ \A a \in RN(x), g \in CN(x) : a.n < g.n
    BY <1>6, <2>6, <2>7, <2>8
  <2>13. ASSUME NEW x \in Party, NEW y \in Party, PeerN(y, x),
                NEW a \in QN(x) \cup CN(x) \cup RN(x), NEW g \in SN(y)
         PROVE  a.n < g.n
    <3>1. CASE a \in Q(x) \cup C(x) \cup R(x)
      BY <1>7, <2>8, <2>13, <3>1
    <3>2. CASE x = q /\ a = f
      <4>1. y = p
        BY <1>2, <2>1, <2>13, <3>2
      <4> QED
        BY <2>5, <2>13, <3>2, <4>1
    <3> QED
      BY <2>7, <2>8, <3>1, <3>2
  <2> QED
    BY <1>8, <2>9, <2>10, <2>11, <2>12, <2>13
\* The write pump moves a frame to the client's connection.
<1>21. ASSUME NEW p \in Party, FrameWritten(p)
       PROVE  FramesOwned' /\ FramesSorted' /\ PeersSorted'
  <2> DEFINE f == Head(sendq[p])
  <2>1. /\ sendq[p] # <<>> /\ sendq'[p] = Tail(sendq[p])
        /\ \A x \in Party : x # p => sendq'[x] = sendq[x]
    BY <1>11, <1>21 DEF FrameWritten
  <2>2. /\ toClient'[p] = Append(toClient[p], f)
        /\ \A x \in Party : x # p => toClient'[x] = toClient[x]
    BY <1>11, <1>21 DEF FrameWritten
  <2>3. UNCHANGED <<toServer, rcvd, sent>>
    BY <1>21 DEF FrameWritten
  <2> HIDE DEF f
  <2>4. /\ f \in Frame /\ QN(p) \subseteq Q(p) /\ Sorted(sendq'[p])
        /\ ~IsText(f) => f \in Q(p) /\ \A g \in QN(p) : f.n < g.n
    BY <1>9, <1>12, <1>14, <2>1 DEF f
  <2>5. ~IsText(f) => \A g \in C(p) \cup R(p) : g.n < f.n
    BY <1>6, <2>4
  <2>6. /\ IsText(f) => CN(p) = C(p)
        /\ ~IsText(f) => CN(p) = C(p) \cup {f}
        /\ Sorted(toClient'[p])
    <3>1. /\ toClient[p] \in Seq(Frame) /\ Sorted(toClient[p])
          /\ C(p) = Carried(toClient[p]) /\ CN(p) = Carried(toClient'[p])
      BY <1>9, <1>14
    <3>2. ~IsText(f) => \A g \in Carried(toClient[p]) : g.n < f.n
      BY <2>5, <3>1
    <3> QED
      <4>1. /\ IsText(f) => Carried(toClient'[p]) = Carried(toClient[p])
            /\ ~IsText(f) => Carried(toClient'[p]) = Carried(toClient[p]) \cup {f}
            /\ Sorted(toClient'[p])
        BY <1>13, <2>2, <2>4, <3>1, <3>2
      <4> QED
        BY <3>1, <4>1
  <2>7. \A x \in Party : /\ SN(x) = S(x) /\ QN(x) \subseteq Q(x) /\ RN(x) = R(x)
                         /\ x # p => CN(x) = C(x)
                         /\ CN(x) \subseteq Q(x) \cup C(x)
    BY <1>14, <2>1, <2>2, <2>3, <2>4, <2>6
  <2>8. \A x \in Party : \A g \in SN(x) : g.from = x /\ g.n <= sent'[x]
    BY <1>5, <2>3, <2>7
  <2>9. \A x \in Party : \A g \in QN(x) \cup CN(x) \cup RN(x) :
            PeerN(g.from, x) /\ g.n <= sent'[g.from]
    BY <1>5, <2>3, <2>7
  <2>10. \A x \in Party : /\ Sorted(toServer'[x]) /\ Sorted(sendq'[x])
                          /\ Sorted(toClient'[x]) /\ Sorted(rcvd'[x])
    BY <1>9, <2>1, <2>2, <2>3, <2>4, <2>6
  <2>11. ASSUME NEW x \in Party
         PROVE  /\ \A a \in CN(x), g \in QN(x) : a.n < g.n
                /\ \A a \in RN(x), g \in QN(x) : a.n < g.n
                /\ \A a \in RN(x), g \in CN(x) : a.n < g.n
    <3>1. CASE x # p
      BY <1>6, <2>7, <3>1
    <3>2. CASE x = p
      BY <1>6, <2>4, <2>5, <2>6, <2>7, <3>2
    <3> QED
      BY <3>1, <3>2
  <2>12. \A x, y \in Party : PeerN(y, x) =>
            \A a \in QN(x) \cup CN(x) \cup RN(x), g \in SN(y) : a.n < g.n
    BY <1>7, <2>7
  <2> QED
    BY <1>8, <2>8, <2>9, <2>10, <2>11, <2>12
\* The client receives a frame.
<1>22. ASSUME NEW p \in Party, FrameReceived(p)
       PROVE  FramesOwned' /\ FramesSorted' /\ PeersSorted'
  <2> DEFINE f == Head(toClient[p])
  <2>1. /\ toClient[p] # <<>> /\ toClient'[p] = Tail(toClient[p]) /\ ~IsText(f)
        /\ \A x \in Party : x # p => toClient'[x] = toClient[x]
    BY <1>11, <1>22 DEF FrameReceived
  <2>2. /\ rcvd'[p] = Append(rcvd[p], f)
        /\ \A x \in Party : x # p => rcvd'[x] = rcvd[x]
    BY <1>11, <1>22 DEF FrameReceived
  <2>3. UNCHANGED <<toServer, sendq, sent>>
    BY <1>22 DEF FrameReceived
  <2> HIDE DEF f
  <2>4. /\ f \in Frame /\ CN(p) \subseteq C(p) /\ Sorted(toClient'[p])
        /\ f \in C(p) /\ \A g \in CN(p) : f.n < g.n
    BY <1>9, <1>12, <1>14, <2>1 DEF f
  <2>5. \A g \in R(p) : g.n < f.n
    BY <1>6, <2>4
  <2>6. RN(p) = R(p) \cup {f} /\ Sorted(rcvd'[p])
    <3>1. /\ rcvd[p] \in Seq(Frame) /\ Sorted(rcvd[p])
          /\ R(p) = Carried(rcvd[p]) /\ RN(p) = Carried(rcvd'[p])
      BY <1>9, <1>14
    <3>2. \A g \in Carried(rcvd[p]) : g.n < f.n
      BY <2>5, <3>1
    <3> QED
      BY <1>13, <2>1, <2>2, <2>4, <3>1, <3>2
  <2>7. \A x \in Party : /\ SN(x) = S(x) /\ CN(x) \subseteq C(x) /\ QN(x) = Q(x)
                         /\ x # p => RN(x) = R(x)
                         /\ RN(x) \subseteq R(x) \cup C(x)
    BY <1>14, <2>1, <2>2, <2>3, <2>4, <2>6
  <2>8. \A x \in Party : \A g \in SN(x) : g.from = x /\ g.n <= sent'[x]
    BY <1>5, <2>3, <2>7
  <2>9. \A x \in Party : \A g \in QN(x) \cup CN(x) \cup RN(x) :
            PeerN(g.from, x) /\ g.n <= sent'[g.from]
    BY <1>5, <2>3, <2>7
  <2>10. \A x \in Party : /\ Sorted(toServer'[x]) /\ Sorted(sendq'[x])
                          /\ Sorted(toClient'[x]) /\ Sorted(rcvd'[x])
    BY <1>9, <2>1, <2>2, <2>3, <2>4, <2>6
  <2>11. ASSUME NEW x \in Party
         PROVE  /\ \A a \in CN(x), g \in QN(x) : a.n < g.n
                /\ \A a \in RN(x), g \in QN(x) : a.n < g.n
                /\ \A a \in RN(x), g \in CN(x) : a.n < g.n
    <3>1. CASE x # p
      BY <1>6, <2>7, <3>1
    <3>2. CASE x = p
      BY <1>6, <2>4, <2>5, <2>6, <2>7, <3>2
    <3> QED
      BY <3>1, <3>2
  <2>12. \A x, y \in Party : PeerN(y, x) =>
            \A a \in QN(x) \cup CN(x) \cup RN(x), g \in SN(y) : a.n < g.n
    BY <1>7, <2>7
  <2> QED
    BY <1>8, <2>8, <2>9, <2>10, <2>11, <2>12
\* A client sends: its number is higher than any before it.
<1>23. ASSUME NEW p \in Party, Send(p)
       PROVE  FramesOwned' /\ FramesSorted' /\ PeersSorted'
  <2> DEFINE f == Binary(p, sent[p] + 1)
  <2>1. /\ toServer'[p] = Append(toServer[p], f)
        /\ \A x \in Party : x # p => toServer'[x] = toServer[x]
    BY <1>11, <1>23 DEF Send
  <2>2. /\ sent'[p] = sent[p] + 1
        /\ \A x \in Party : x # p => sent'[x] = sent[x]
    BY <1>10, <1>23 DEF Send
  <2>3. UNCHANGED <<sendq, toClient, rcvd>>
    BY <1>23 DEF Send
  <2>4. f \in Frame /\ ~IsText(f) /\ f.from = p /\ f.n = sent[p] + 1
    <3>1. sent[p] + 1 \in 1 .. MaxFrames
      <4>1. sent[p] \in Nat /\ sent[p] < MaxFrames
        BY <1>10, <1>23 DEF Send
      <4> QED
        BY <4>1, BufferAssumption
    <3> QED
      BY <3>1, FrameTypes
  <2> HIDE DEF f
  <2>5. \A g \in S(p) : g.n < f.n
    BY <1>4, <1>5, <1>10, <2>4
  <2>6. SN(p) = S(p) \cup {f} /\ Sorted(toServer'[p])
    <3>1. /\ toServer[p] \in Seq(Frame) /\ Sorted(toServer[p])
          /\ S(p) = Carried(toServer[p]) /\ SN(p) = Carried(toServer'[p])
      BY <1>9, <1>14
    <3>2. \A g \in Carried(toServer[p]) : g.n < f.n
      BY <2>5, <3>1
    <3> QED
      BY <1>13, <2>1, <2>4, <3>1, <3>2
  <2>7. \A x \in Party : /\ QN(x) = Q(x) /\ CN(x) = C(x) /\ RN(x) = R(x)
                         /\ x # p => SN(x) = S(x)
    BY <1>14, <2>1, <2>3
  <2>8. \A x \in Party, n \in Nat : n <= sent[x] => n <= sent'[x]
    BY <1>10, <2>2
  <2>9. \A x \in Party : \A g \in SN(x) : g.from = x /\ g.n <= sent'[x]
    <3>1. f.from = p /\ f.n <= sent'[p]
      BY <1>10, <2>2, <2>4
    <3>2. \A x \in Party : \A g \in S(x) : g.from = x /\ g.n <= sent'[x]
      BY <1>4, <1>5, <2>8
    <3> QED
      BY <2>6, <2>7, <3>1, <3>2
  <2>10. \A x \in Party : \A g \in QN(x) \cup CN(x) \cup RN(x) :
            PeerN(g.from, x) /\ g.n <= sent'[g.from]
    BY <1>4, <1>5, <2>7, <2>8
  <2>11. \A x \in Party : /\ Sorted(toServer'[x]) /\ Sorted(sendq'[x])
                          /\ Sorted(toClient'[x]) /\ Sorted(rcvd'[x])
    BY <1>9, <2>1, <2>3, <2>6
  <2>12. \A x \in Party : /\ \A a \in CN(x), g \in QN(x) : a.n < g.n
                          /\ \A a \in RN(x), g \in QN(x) : a.n < g.n
                          /\ \A a \in RN(x), g \in CN(x) : a.n < g.n
    BY <1>6, <2>7
  <2>13. ASSUME NEW x \in Party, NEW y \in Party, PeerN(y, x),
                NEW a \in Q(x) \cup C(x) \cup R(x), NEW g \in SN(y)
         PROVE  a.n < g.n
    <3>1. CASE g \in S(y)
      BY <1>7, <2>13, <3>1
    <3>2. CASE y = p /\ g = f
      <4>1. a.from = p
        BY <1>2, <1>4, <1>5, <2>13, <3>2
      <4>2. a.n \in Nat /\ a.n <= sent[p]
        BY <1>4, <1>5, <4>1
      <4> QED
        BY <1>10, <2>4, <3>2, <4>2
    <3> QED
      BY <2>6, <2>7, <3>1, <3>2
  <2>14. \A x, y \in Party : PeerN(y, x) =>
            \A a \in QN(x) \cup CN(x) \cup RN(x), g \in SN(y) : a.n < g.n
    BY <2>7, <2>13
  <2> QED
    BY <1>8, <2>9, <2>10, <2>11, <2>12, <2>14
<1> QED
  <2>1. QueuesKept \/ \E p \in Party : QueueStep(p)
    BY QueueSteps
  <2> QED
    BY <1>16, <1>17, <1>18, <1>19, <1>20, <1>21, <1>22, <1>23, <2>1 DEF QueueStep

-----------------------------------------------------------------------------
(* The invariant, and what follows from it.                                 *)

LEMMA LinkInit == ServerInit => LinkInv
<1> SUFFICES ASSUME ServerInit PROVE LinkInv
  OBVIOUS
<1>1. RelayInv
  BY RelayInit DEF ServerInit
<1>2. ServerTypeOK
  <2>1. ControlTypes
    <3>1. 0 \in 0 .. TTL /\ 0 \in 0 .. MaxFrames
      BY TTLAssumption, BufferAssumption
    <3> QED
      BY <3>1 DEF ServerInit, ControlTypes, HandlerState, ClientState
  <2>2. QueuesTyped
    BY BufferAssumption DEF ServerInit, QueuesTyped
  <2> QED
    BY <1>1, <2>1, <2>2 DEF RelayInv, ServerTypeOK, ControlTypes, QueuesTyped
<1>3. \A p \in Party : /\ toServer[p] = <<>> /\ sendq[p] = <<>> /\ toClient[p] = <<>>
                       /\ rcvd[p] = <<>> /\ pc[p] = "none" /\ cl[p] = "idle"
  BY DEF ServerInit
<1>b. BothEnds
  BY <1>3 DEF ServerInit, Init, BothEnds, GuestPastJoin, Delivered, HostWaits, Undialed
<1>4. PairedInv
  BY <1>3, <1>b DEF PairedInv, HandlersPaired, AnswersTrue, AllTrue, LinkedMeansPaired, RecvLinked, Party
<1>5. FramesOwned
  BY <1>3, CarriedEmpty DEF FramesOwned
<1>6. FramesSorted /\ PeersSorted
  BY <1>3, CarriedEmpty DEF FramesSorted, PeersSorted, Before
<1> QED
  BY <1>1, <1>2, <1>4, <1>5, <1>6 DEF LinkInv

LEMMA LinkStep == LinkInv /\ [ServerNext]_vars => LinkInv'
<1> SUFFICES ASSUME LinkInv, [ServerNext]_vars PROVE LinkInv'
  OBVIOUS
<1>1. RelayInv'
  BY ServerStepsRelay, RelayStep DEF LinkInv
<1>2. ServerTypeOK' /\ HandlersPaired' /\ BothEnds' /\ AnswersTrue'
  BY ServerTypeStep, HandlersPairedStep, BothEndsStep, AnswersTrueStep DEF LinkInv, PairedInv
<1>3. LinkedMeansPaired' /\ RecvLinked'
  BY <1>1, <1>2, LinkedStep DEF LinkInv
<1>4. FramesOwned' /\ FramesSorted' /\ PeersSorted'
  BY <1>1, FramesStep DEF LinkInv, PairedInv
<1> QED
  BY <1>1, <1>2, <1>3, <1>4 DEF LinkInv, PairedInv

\* The inductive invariant of the relay server with its clients: the types, the
\* coordinator's invariant, that every answer on its way is true, and that the
\* frames along every stretch of the way are the peer's, in order.
THEOREM LinkInvariant == ServerSpec => []LinkInv
<1>1. ServerInit => LinkInv
  BY LinkInit
<1>2. LinkInv /\ [ServerNext]_vars => LinkInv'
  BY LinkStep
<1> QED
  BY <1>1, <1>2, PTL DEF ServerSpec

\* No handler, pump or client takes a variable out of its range; in particular
\* peer.send never holds more than its capacity.
THEOREM ServerTypeCorrect == ServerSpec => []ServerTypeOK
<1>1. LinkInv => ServerTypeOK
  BY DEF LinkInv
<1> QED
  BY <1>1, LinkInvariant, PTL

\* A client that RegisterAsHost or JoinAsGuest handed a Link has a session behind
\* it: the host's with a guest whose handler is past Join of this host, the guest's
\* with a host that took or will take the same session, or whose wait expired.
THEOREM LinksHaveSessions == ServerSpec => []LinkedMeansPaired
<1>1. LinkInv => LinkedMeansPaired
  BY DEF LinkInv, PairedInv
<1> QED
  BY <1>1, LinkInvariant, PTL

\* Whatever Link.Recv returned was sent by the other end of the session, in the
\* order of its Link.Send calls and each frame once, with any number of hosts and
\* guests, buffers of any size, and peers that hang up or stop reading at any time.
THEOREM FramesArriveInOrder == ServerSpec => []FramesInOrder
<1>1. LinkInv => FramesInOrder
  <2> SUFFICES ASSUME LinkInv, NEW p \in Party, NEW i \in 1 .. Len(rcvd[p])
               PROVE  /\ rcvd[p][i].from = Partner(p)
                      /\ rcvd[p][i].n <= sent[Partner(p)]
                      /\ i > 1 => rcvd[p][i - 1].n < rcvd[p][i].n
    BY DEF FramesInOrder
  <2>t. ServerTypeOK /\ RelayInv /\ RecvLinked /\ FramesOwned /\ FramesSorted
    BY DEF LinkInv, PairedInv
  <2>1. rcvd[p] \in Seq(BinaryFrames) /\ Len(rcvd[p]) \in Nat
    BY <2>t, QueueTypes
  <2>2. \A j \in 1 .. Len(rcvd[p]) : rcvd[p][j] \in BinaryFrames /\ ~IsText(rcvd[p][j])
    BY <2>1, FrameTypes
  <2> DEFINE f == rcvd[p][i]
  <2>3. f \in Carried(rcvd[p])
    BY <2>2 DEF Carried
  <2>4. f.from \in Party /\ Peer(f.from, p) /\ f.n <= sent[f.from]
    BY <2>2, <2>3, <2>t, FrameTypes DEF FramesOwned
  <2>5. Peer(Partner(p), p) /\ Partner(p) \in Party
    <3>1. CASE p \in Host
      <4>1. rcvd[p] # <<>>
        BY <2>1
      <4>2. session[p] # None /\ session[p] \in Guest /\ picked[session[p]] = p
        BY <2>t, <3>1, <4>1 DEF RecvLinked, RelayInv, TypeOK, SameSession
      <4> QED
        BY <3>1, <4>2 DEF Partner, Peer, Party
    <3>2. CASE p \in Guest
      BY <2>4, <3>2, RolesAssumption DEF Partner, Peer, Party
    <3> QED
      BY <3>1, <3>2 DEF Party
  <2>6. f.from = Partner(p)
    BY <2>t, <2>4, <2>5, OnePeer
  <2>7. i > 1 => rcvd[p][i - 1].n < rcvd[p][i].n
    <3> SUFFICES ASSUME i > 1 PROVE rcvd[p][i - 1].n < rcvd[p][i].n
      OBVIOUS
    <3>1. i - 1 \in 1 .. Len(rcvd[p]) /\ i - 1 < i
      BY <2>1
    <3> QED
      BY <2>t, <2>2, <3>1 DEF FramesSorted, Sorted
  <2> QED
    BY <2>4, <2>6, <2>7
<1> QED
  BY <1>1, LinkInvariant, PTL

\* The handlers and the pumps use the coordinator as RelaySpec says, so what is
\* proved of it holds of the server: with RelayImplementsPairing, the server
\* matches hosts and guests as Pairing promises.
THEOREM ServerImplementsRelay == ServerSpec => RelaySpec
<1>1. ServerInit => Init
  BY DEF ServerInit
<1>2. [ServerNext]_vars => [RelayNext]_relayVars
  BY ServerStepsRelay
<1> QED
  BY <1>1, <1>2, PTL DEF ServerSpec, RelaySpec
=============================================================================
