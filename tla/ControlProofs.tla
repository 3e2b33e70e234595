--------------------------- MODULE ControlProofs ---------------------------
(***************************************************************************)
(* Proofs about Control for any set of calls and any capacities.            *)
(***************************************************************************)
EXTENDS Control, TLAPS

USE BoundsAssumption, NoneAssumption

\* What Append and Tail do to the elements of a sequence.
LEMMA AppendElements ==
  ASSUME NEW S, NEW s \in Seq(S), NEW e \in S
  PROVE  /\ Append(s, e) \in Seq(S)
         /\ Len(Append(s, e)) = Len(s) + 1
         /\ \A i \in 1 .. Len(s) : Append(s, e)[i] = s[i]
         /\ Append(s, e)[Len(s) + 1] = e
OBVIOUS

LEMMA TailElements ==
  ASSUME NEW S, NEW s \in Seq(S), s # <<>>
  PROVE  /\ Tail(s) \in Seq(S)
         /\ Head(s) = s[1] /\ Head(s) \in S
         /\ Len(s) \in Nat /\ Len(s) >= 1
         /\ Len(Tail(s)) = Len(s) - 1
         /\ \A i \in 1 .. Len(Tail(s)) : Tail(s)[i] = s[i + 1] /\ i + 1 \in 1 .. Len(s)
OBVIOUS

\* The states of readLoop are records of the declared kinds.
LEMMA ReadLoopStates ==
  /\ [st |-> "recv"] \in Reading \cup Sending
  /\ [st |-> "closed"] \in Reading \cup Sending
  /\ \A f \in Frame, c \in Call :
        [st |-> "deliver", frame |-> f, to |-> c] \in Reading \cup Sending
BY DEF Reading, Sending

LEMMA ControlInit == Init => ControlInv
<1> SUFFICES ASSUME Init PROVE ControlInv
  OBVIOUS
<1>1. TypeOK
  <2>1. rl \in Reading \cup Sending
    BY ReadLoopStates DEF Init
  <2>2. <<>> \in Seq(Frame) /\ <<>> \in Seq(0 .. MaxEvents)
    OBVIOUS
  <2> QED
    <3>1. 0 \in 0 .. MaxId + 1 /\ 0 \in 0 .. MaxEvents
      OBVIOUS
    <3> QED
      BY <2>1, <2>2, <3>1 DEF Init, TypeOK, Outcome
<1>2. UniqueIds /\ FiledUnderOwnId /\ FramesTagged /\ OwnFrames
  BY DEF Init, UniqueIds, FiledUnderOwnId, FramesTagged, OwnFrames, Id
<1> QED
  BY <1>1, <1>2 DEF ControlInv

\* The frame a request or a reply is sent as.
LEMMA FrameType ==
  ASSUME NEW i \in Id, NEW c \in Call, NEW n \in 0 .. MaxEvents,
         NEW kind \in {"req", "event", "res", "err"}
  PROVE  [id |-> i, kind |-> kind, call |-> c, n |-> n] \in Frame
BY DEF Frame

\* Every step preserves the types, given that a request is only sent with an id.
LEMMA ControlTypeStep ==
  ControlInv /\ [Next]_vars => TypeOK'
<1> SUFFICES ASSUME ControlInv, [Next]_vars PROVE TypeOK'
  OBVIOUS
<1>t. TypeOK
  BY DEF ControlInv
<1>1. ASSUME NEW c \in Call, Begin(c) PROVE TypeOK'
  <2>1. CASE closed
    BY <1>t, <1>1, <2>1 DEF Begin, TypeOK, Outcome
  <2>2. CASE ~closed
    <3>1. nextID \in Id /\ nextID + 1 \in 0 .. MaxId + 1
      BY <1>t, <1>1, <2>2 DEF Begin, TypeOK, Id
    <3>2. /\ id' = [id EXCEPT ![c] = nextID] /\ nextID' = nextID + 1
          /\ pending' = [pending EXCEPT ![nextID] = c]
          /\ cst' = [cst EXCEPT ![c] = "sending"]
          /\ UNCHANGED <<closed, outcome, chan, chClosed, seen, rl, up, toServer, toClient,
                         srv, emitted>>
      BY <1>1, <2>2 DEF Begin
    <3>3. /\ id' \in [Call -> Id \cup {None}]
          /\ pending' \in [Id -> Call \cup {None}]
          /\ cst' \in [Call -> {"idle", "sending", "waiting", "returning", "returned"}]
      BY <1>t, <3>1, <3>2 DEF TypeOK
    <3> QED
      BY <1>t, <3>1, <3>2, <3>3 DEF TypeOK
  <2> QED
    BY <2>1, <2>2
<1>2. ASSUME NEW c \in Call, SendRequest(c) PROVE TypeOK'
  <2>1. id[c] \in Id
    BY <1>t, <1>2 DEF SendRequest, ControlInv, FramesTagged, TypeOK
  <2>2. [id |-> id[c], kind |-> "req", call |-> c, n |-> 0] \in Frame
    <3>1. 0 \in 0 .. MaxEvents
      BY BoundsAssumption
    <3> QED
      BY <2>1, <3>1, FrameType
  <2>3. toServer' \in Seq(Frame)
    <3>1. Append(toServer, [id |-> id[c], kind |-> "req", call |-> c, n |-> 0]) \in Seq(Frame)
      BY <1>t, <2>2, AppendElements DEF TypeOK
    <3> QED
      BY <1>t, <1>2, <3>1 DEF SendRequest, TypeOK
  <2> QED
    BY <1>t, <1>2, <2>3 DEF SendRequest, End, TypeOK, Outcome
<1>3. ASSUME NEW c \in Call, Receive(c) PROVE TypeOK'
  <2>1. chan[c] \in Seq(Frame) /\ chan[c] # <<>>
    BY <1>t, <1>3 DEF Receive, TypeOK
  <2>2. Tail(chan[c]) \in Seq(Frame) /\ Head(chan[c]) \in Frame
    BY <2>1, TailElements
  <2>3. Append(seen[c], Head(chan[c]).n) \in Seq(0 .. MaxEvents)
    BY <1>t, <2>2, AppendElements DEF TypeOK, Frame
  <2>4. chan' \in [Call -> Seq(Frame)]
    BY <1>t, <1>3, <2>2 DEF Receive, TypeOK
  <2>5. seen' \in [Call -> Seq(0 .. MaxEvents)]
    BY <1>t, <1>3, <2>3 DEF Receive, TypeOK
  <2>6. cst' \in [Call -> {"idle", "sending", "waiting", "returning", "returned"}]
    BY <1>t, <1>3 DEF Receive, End, TypeOK
  <2>7. outcome' \in [Call -> Outcome]
    BY <1>t, <1>3 DEF Receive, End, TypeOK, Outcome
  <2> QED
    BY <1>t, <1>3, <2>4, <2>5, <2>6, <2>7 DEF Receive, TypeOK
<1>4. ASSUME NEW c \in Call, ReceiveClosed(c) PROVE TypeOK'
  BY <1>t, <1>4 DEF ReceiveClosed, End, TypeOK, Outcome
<1>5. ASSUME NEW c \in Call, ContextDone(c) PROVE TypeOK'
  BY <1>t, <1>5 DEF ContextDone, End, TypeOK, Outcome
<1>6. ASSUME NEW c \in Call, Reclaim(c) PROVE TypeOK'
  BY <1>t, <1>6 DEF Reclaim, TypeOK
<1>7. CASE Lookup
  <2>1. Tail(toClient) \in Seq(Frame) /\ Head(toClient) \in Frame
    BY <1>t, <1>7, TailElements DEF Lookup, TypeOK
  <2>2. pending[Head(toClient).id] \in Call \cup {None}
    BY <1>t, <2>1 DEF TypeOK, Frame
  <2>3. rl' \in Reading \cup Sending
    BY <1>7, <2>1, <2>2, ReadLoopStates DEF Lookup
  <2> QED
    BY <1>t, <1>7, <2>1, <2>3 DEF Lookup, clientVars, TypeOK
<1>8. CASE DeliverFrame
  <2>1. rl.frame \in Frame /\ rl.to \in Call
    BY <1>t, <1>8 DEF DeliverFrame, TypeOK, Reading, Sending
  <2>2. Append(chan[rl.to], rl.frame) \in Seq(Frame)
    BY <1>t, <2>1, AppendElements DEF TypeOK
  <2>3. chan' \in [Call -> Seq(Frame)]
    BY <1>t, <1>8, <2>1, <2>2 DEF DeliverFrame, TypeOK
  <2>4. rl' \in Reading \cup Sending
    BY <1>8, ReadLoopStates DEF DeliverFrame
  <2> QED
    BY <1>t, <1>8, <2>3, <2>4 DEF DeliverFrame, TypeOK
<1>9. CASE CloseAll
  <2>1. rl' \in Reading \cup Sending
    BY <1>9, ReadLoopStates DEF CloseAll
  <2>2. chClosed' \in [Call -> BOOLEAN]
    BY <1>9 DEF CloseAll
  <2> QED
    BY <1>t, <1>9, <2>1, <2>2 DEF CloseAll, TypeOK
<1>10. CASE ServeRequest
  <2>1. Tail(toServer) \in Seq(Frame) /\ Head(toServer) \in Frame
    BY <1>t, <1>10, TailElements DEF ServeRequest, TypeOK
  <2> QED
    BY <1>t, <1>10, <2>1 DEF ServeRequest, clientVars, TypeOK
<1>11. ASSUME NEW c \in Call, srv[c] = "running", NEW kind \in {"event", "res", "err"},
              NEW n \in 0 .. MaxEvents, Reply(c, kind, n)
       PROVE  toClient' \in Seq(Frame)
  <2>1. id[c] \in Id
    BY <1>t, <1>11 DEF ControlInv, FramesTagged, TypeOK
  <2>2. [id |-> id[c], kind |-> kind, call |-> c, n |-> n] \in Frame
    BY <2>1, FrameType
  <2> QED
    <3>1. Append(toClient, [id |-> id[c], kind |-> kind, call |-> c, n |-> n]) \in Seq(Frame)
      BY <1>t, <2>2, AppendElements DEF TypeOK
    <3> QED
      BY <1>t, <1>11, <3>1 DEF Reply, TypeOK
<1>12. ASSUME NEW c \in Call, Emit(c) PROVE TypeOK'
  <2>1. emitted[c] + 1 \in 0 .. MaxEvents
    BY <1>t, <1>12 DEF Emit, TypeOK
  <2>2. toClient' \in Seq(Frame)
    BY <1>11, <1>12, <2>1 DEF Emit
  <2> QED
    BY <1>t, <1>12, <2>1, <2>2 DEF Emit, clientVars, TypeOK
<1>13. ASSUME NEW c \in Call, Answer(c) PROVE TypeOK'
  <2>1. toClient' \in Seq(Frame)
    BY <1>11, <1>13 DEF Answer
  <2> QED
    BY <1>t, <1>13, <2>1 DEF Answer, clientVars, TypeOK
<1>14. CASE Disconnect
  BY <1>t, <1>14 DEF Disconnect, clientVars, TypeOK
<1>15. CASE UNCHANGED vars
  BY <1>t, <1>15 DEF vars, clientVars, TypeOK
<1> QED
  BY <1>1, <1>2, <1>3, <1>4, <1>5, <1>6, <1>7, <1>8, <1>9, <1>10, <1>12, <1>13, <1>14,
     <1>15 DEF Next, Do, ReadLoop, ServeOne


\* Every step preserves the inductive invariant.
LEMMA ControlInvStep == ControlInv /\ [Next]_vars => ControlInv'
<1> SUFFICES ASSUME ControlInv, [Next]_vars PROVE ControlInv'
  OBVIOUS
<1>t. TypeOK /\ TypeOK'
  BY ControlTypeStep DEF ControlInv
<1>u. UniqueIds /\ FiledUnderOwnId /\ FramesTagged /\ OwnFrames
  BY DEF ControlInv
<1>1. ASSUME NEW c \in Call, Begin(c) PROVE ControlInv'
  <2>1. CASE closed
    <3>1. UNCHANGED <<nextID, pending, id, chan, rl, toServer, toClient, srv>>
      BY <1>1, <2>1 DEF Begin
    <3>2. cst' = [cst EXCEPT ![c] = "returned"]
      BY <1>1, <2>1 DEF Begin
    <3>3. FramesTagged'
      BY <1>t, <1>u, <3>1, <3>2 DEF FramesTagged, Tagged, TypeOK
    <3> QED
      BY <1>t, <1>u, <3>1, <3>3 DEF ControlInv, UniqueIds, FiledUnderOwnId, OwnFrames
  <2>2. CASE ~closed
    <3>1. /\ nextID' = nextID + 1 /\ nextID \in Id
          /\ id' = [id EXCEPT ![c] = nextID] /\ id[c] = None
          /\ pending' = [pending EXCEPT ![nextID] = c]
          /\ cst' = [cst EXCEPT ![c] = "sending"]
          /\ UNCHANGED <<chan, rl, toServer, toClient, srv>>
      <4>1. nextID <= MaxId /\ cst[c] = "idle"
        BY <1>1, <2>2 DEF Begin
      <4>2. nextID \in Id
        BY <1>t, <4>1 DEF TypeOK, Id
      <4>3. id[c] = None
        BY <1>u, <4>1 DEF FramesTagged
      <4> QED
        BY <1>1, <2>2, <4>2, <4>3 DEF Begin
    <3>2. UniqueIds'
      <4>1. \A d \in Call : id[d] # None => id[d] \in Nat /\ id[d] < nextID
        BY <1>t, <1>u DEF UniqueIds, TypeOK, Id
      <4>2. nextID \in Nat /\ id'[c] = nextID /\ \A d \in Call : d # c => id'[d] = id[d]
        BY <1>t, <3>1 DEF TypeOK, Id
      <4>3. ASSUME NEW d \in Call, id'[d] # None PROVE id'[d] < nextID'
        BY <3>1, <4>1, <4>2, <4>3
      <4>4. ASSUME NEW d \in Call, NEW e \in Call, id'[d] # None, id'[d] = id'[e]
            PROVE  d = e
        <5>1. CASE d = c \/ e = c
          BY <4>1, <4>2, <4>4, <5>1
        <5>2. CASE d # c /\ e # c
          BY <1>u, <4>2, <4>4, <5>2 DEF UniqueIds
        <5> QED
          BY <5>1, <5>2
      <4> QED
        BY <4>3, <4>4 DEF UniqueIds
    <3>3. FiledUnderOwnId'
      <4> SUFFICES ASSUME NEW i \in Id, pending'[i] # None PROVE id'[pending'[i]] = i
        BY DEF FiledUnderOwnId
      <4>1. CASE i = nextID
        BY <1>t, <3>1, <4>1 DEF TypeOK
      <4>2. CASE i # nextID
        <5>1. pending'[i] = pending[i] /\ pending[i] \in Call /\ id[pending[i]] = i
          BY <1>t, <1>u, <3>1, <4>2 DEF TypeOK, FiledUnderOwnId
        <5>2. i # None
          BY DEF Id
        <5> QED
          BY <1>t, <3>1, <5>1, <5>2 DEF TypeOK
      <4> QED
        BY <4>1, <4>2
    <3>4. ASSUME NEW f \in Frame, Tagged(f) PROVE f.id = id'[f.call]
      <4>1. f.call \in Call /\ f.id \in Id /\ f.id # None
        BY DEF Frame, Id
      <4> QED
        BY <1>t, <3>1, <3>4, <4>1 DEF Tagged, TypeOK
    <3>5. FramesTagged'
      <4>1. ASSUME NEW i \in 1 .. Len(toServer) PROVE toServer[i].id = id'[toServer[i].call]
        BY <1>t, <1>u, <3>4 DEF FramesTagged, TypeOK
      <4>2. ASSUME NEW i \in 1 .. Len(toClient) PROVE toClient[i].id = id'[toClient[i].call]
        BY <1>t, <1>u, <3>4 DEF FramesTagged, TypeOK
      <4>3. nextID # None
        BY <3>1 DEF Id
      <4>4. \A d \in Call : srv'[d] # "none" \/ cst'[d] = "sending" => id'[d] # None
        BY <1>t, <1>u, <3>1, <4>3 DEF FramesTagged, TypeOK
      <4>5. \A d \in Call : cst'[d] = "idle" => id'[d] = None
        BY <1>t, <1>u, <3>1 DEF FramesTagged, TypeOK
      <4> QED
        BY <3>1, <4>1, <4>2, <4>4, <4>5 DEF FramesTagged, Tagged
    <3>6. OwnFrames'
      BY <1>u, <3>1 DEF OwnFrames
    <3> QED
      BY <1>t, <3>2, <3>3, <3>5, <3>6 DEF ControlInv
  <2> QED
    BY <2>1, <2>2
<1>2. ASSUME NEW c \in Call, SendRequest(c) PROVE ControlInv'
  <2>1. /\ UNCHANGED <<nextID, pending, id, chan, rl, toClient, srv>>
        /\ cst[c] = "sending" /\ id[c] \in Id
    BY <1>t, <1>u, <1>2 DEF SendRequest, FramesTagged, TypeOK
  <2>2. \A d \in Call : cst'[d] = cst[d] \/ cst'[d] \in {"waiting", "returning"}
    BY <1>t, <1>2 DEF SendRequest, End, TypeOK
  <2>3. \A i \in 1 .. Len(toServer') : toServer'[i].id = id[toServer'[i].call]
    <3> DEFINE f == [id |-> id[c], kind |-> "req", call |-> c, n |-> 0]
    <3>1. CASE toServer' = toServer
      BY <1>u, <3>1 DEF FramesTagged, Tagged
    <3>2. CASE toServer' = Append(toServer, f)
      <4>1. f \in Frame
        <5>1. 0 \in 0 .. MaxEvents
          BY BoundsAssumption
        <5> QED
          BY <2>1, <5>1, FrameType
      <4>2. f.id = id[f.call]
        OBVIOUS
      <4>3. toServer \in Seq(Frame)
        BY <1>t DEF TypeOK
      <4> HIDE DEF f
      <4>4. /\ Len(toServer') = Len(toServer) + 1
            /\ \A i \in 1 .. Len(toServer) : toServer'[i] = toServer[i]
            /\ toServer'[Len(toServer) + 1] = f
        BY <3>2, <4>1, <4>3, AppendElements
      <4>5. Len(toServer) \in Nat
        BY <4>3
      <4>6. \A i \in 1 .. Len(toServer') : i \in 1 .. Len(toServer) \/ i = Len(toServer) + 1
        BY <4>4, <4>5
      <4> QED
        BY <1>u, <4>2, <4>4, <4>6 DEF FramesTagged, Tagged
    <3> QED
      BY <1>2, <3>1, <3>2 DEF SendRequest
  <2>4. FramesTagged'
    BY <1>t, <1>u, <2>1, <2>2, <2>3 DEF FramesTagged, Tagged
  <2> QED
    BY <1>t, <1>u, <2>1, <2>4 DEF ControlInv, UniqueIds, FiledUnderOwnId, OwnFrames
<1>3. ASSUME NEW c \in Call, Receive(c) PROVE ControlInv'
  <2>1. /\ UNCHANGED <<nextID, pending, id, rl, toServer, toClient, srv>>
        /\ \A d \in Call : d # c => chan'[d] = chan[d]
        /\ chan'[c] = Tail(chan[c]) /\ chan[c] # <<>>
    BY <1>t, <1>3 DEF Receive, TypeOK
  <2>2. \A d \in Call : cst'[d] = cst[d] \/ cst'[d] = "returning"
    BY <1>t, <1>3 DEF Receive, End, TypeOK
  <2>3. OwnFrames'
    <3>1. ASSUME NEW i \in 1 .. Len(Tail(chan[c])) PROVE Tail(chan[c])[i].call = c
      <4>1. chan[c] \in Seq(Frame)
        BY <1>t DEF TypeOK
      <4>2. Tail(chan[c])[i] = chan[c][i + 1] /\ i + 1 \in 1 .. Len(chan[c])
        BY <2>1, <3>1, <4>1, TailElements
      <4> QED
        BY <1>u, <4>2 DEF OwnFrames
    <3> QED
      BY <1>u, <2>1, <3>1 DEF OwnFrames
  <2>4. FramesTagged'
    BY <1>t, <1>u, <2>1, <2>2 DEF FramesTagged, Tagged
  <2> QED
    BY <1>t, <1>u, <2>1, <2>3, <2>4 DEF ControlInv, UniqueIds, FiledUnderOwnId
<1>4. ASSUME NEW c \in Call, ReceiveClosed(c) \/ ContextDone(c) PROVE ControlInv'
  <2>1. UNCHANGED <<nextID, pending, id, chan, rl, toServer, toClient, srv>>
    BY <1>4 DEF ReceiveClosed, ContextDone
  <2>2. \A d \in Call : cst'[d] = cst[d] \/ cst'[d] = "returning"
    BY <1>t, <1>4 DEF ReceiveClosed, ContextDone, End, TypeOK
  <2>3. FramesTagged'
    BY <1>t, <1>u, <2>1, <2>2 DEF FramesTagged, Tagged
  <2> QED
    BY <1>t, <1>u, <2>1, <2>3 DEF ControlInv, UniqueIds, FiledUnderOwnId, OwnFrames
<1>5. ASSUME NEW c \in Call, Reclaim(c) PROVE ControlInv'
  <2>1. /\ UNCHANGED <<nextID, id, chan, rl, toServer, toClient, srv>>
        /\ \A i \in Id : pending'[i] \in {pending[i], None}
    BY <1>t, <1>5 DEF Reclaim, TypeOK
  <2>2. \A d \in Call : cst'[d] = cst[d] \/ cst'[d] = "returned"
    BY <1>t, <1>5 DEF Reclaim, TypeOK
  <2>3. FramesTagged'
    BY <1>t, <1>u, <2>1, <2>2 DEF FramesTagged, Tagged
  <2>4. FiledUnderOwnId'
    BY <1>u, <2>1 DEF FiledUnderOwnId
  <2> QED
    BY <1>t, <1>u, <2>1, <2>3, <2>4 DEF ControlInv, UniqueIds, OwnFrames
<1>6. CASE Lookup
  <2> DEFINE f == Head(toClient)
  <2>1. UNCHANGED <<nextID, pending, id, cst, chan, toServer, srv>>
    BY <1>6 DEF Lookup, clientVars
  <2>2. /\ toClient' = Tail(toClient) /\ f = toClient[1] /\ f \in Frame
        /\ \A i \in 1 .. Len(toClient') : toClient'[i] = toClient[i + 1] /\ i + 1 \in 1 .. Len(toClient)
        /\ 1 \in 1 .. Len(toClient)
    BY <1>t, <1>6, TailElements DEF Lookup, TypeOK
  <2>3. FramesTagged'
    BY <1>u, <2>1, <2>2 DEF FramesTagged, Tagged
  <2>4. OwnFrames'
    <3>1. CASE pending[f.id] = None
      <4>1. rl' = [st |-> "recv"]
        BY <1>6, <3>1 DEF Lookup
      <4>2. rl'.st # "deliver"
        BY <4>1
      <4> QED
        BY <1>u, <2>1, <4>2 DEF OwnFrames
    <3>2. CASE pending[f.id] # None
      <4>1. rl'.frame = f /\ rl'.to = pending[f.id]
        BY <1>6, <3>2 DEF Lookup
      <4>2. f.id \in Id /\ f.call \in Call /\ pending[f.id] \in Call
        <5>1. f.id \in Id /\ f.call \in Call
          BY <2>2 DEF Frame
        <5>2. pending \in [Id -> Call \cup {None}]
          BY <1>t DEF TypeOK
        <5> HIDE DEF f
        <5> QED
          BY <3>2, <5>1, <5>2
      <4>3. id[pending[f.id]] = f.id
        BY <1>u, <3>2, <4>2 DEF FiledUnderOwnId
      <4>4. id[f.call] = f.id
        BY <1>u, <2>2 DEF FramesTagged, Tagged
      <4>5. f.id # None
        BY <4>2 DEF Id
      <4>6. pending[f.id] = f.call
        BY <1>u, <4>2, <4>3, <4>4, <4>5 DEF UniqueIds
      <4> QED
        BY <1>u, <2>1, <4>1, <4>6 DEF OwnFrames
    <3> QED
      BY <3>1, <3>2
  <2> QED
    BY <1>t, <1>u, <2>1, <2>3, <2>4 DEF ControlInv, UniqueIds, FiledUnderOwnId
<1>7. CASE DeliverFrame
  <2>1. /\ UNCHANGED <<nextID, pending, id, cst, toServer, toClient, srv>>
        /\ rl' = [st |-> "recv"]
    BY <1>7 DEF DeliverFrame
  <2>2. rl.frame \in Frame /\ rl.to \in Call /\ rl.frame.call = rl.to
    BY <1>t, <1>u, <1>7 DEF DeliverFrame, TypeOK, Reading, Sending, OwnFrames
  <2>3. /\ chan'[rl.to] = Append(chan[rl.to], rl.frame)
        /\ \A d \in Call : d # rl.to => chan'[d] = chan[d]
    BY <1>t, <1>7, <2>2 DEF DeliverFrame, TypeOK
  <2>4. \A i \in 1 .. Len(chan'[rl.to]) : chan'[rl.to][i].call = rl.to
    <3>1. chan[rl.to] \in Seq(Frame) /\ Len(chan[rl.to]) \in Nat
      BY <1>t, <2>2 DEF TypeOK
    <3>2. /\ Len(chan'[rl.to]) = Len(chan[rl.to]) + 1
          /\ \A i \in 1 .. Len(chan[rl.to]) : chan'[rl.to][i] = chan[rl.to][i]
          /\ chan'[rl.to][Len(chan[rl.to]) + 1] = rl.frame
      BY <2>2, <2>3, <3>1, AppendElements
    <3>3. \A i \in 1 .. Len(chan'[rl.to]) :
             i \in 1 .. Len(chan[rl.to]) \/ i = Len(chan[rl.to]) + 1
      BY <3>1, <3>2
    <3> QED
      BY <1>u, <2>2, <3>2, <3>3 DEF OwnFrames
  <2>5. rl'.st # "deliver"
    BY <2>1
  <2>6. OwnFrames'
    BY <1>u, <2>3, <2>4, <2>5 DEF OwnFrames
  <2>7. FramesTagged'
    BY <1>u, <2>1 DEF FramesTagged, Tagged
  <2> QED
    BY <1>t, <1>u, <2>1, <2>6, <2>7 DEF ControlInv, UniqueIds, FiledUnderOwnId
<1>8. CASE CloseAll
  <2>1. /\ UNCHANGED <<nextID, id, cst, chan, toServer, toClient, srv>>
        /\ rl' = [st |-> "closed"] /\ pending' = [i \in Id |-> None]
    BY <1>8 DEF CloseAll
  <2>2. rl'.st # "deliver"
    BY <2>1
  <2>3. OwnFrames'
    BY <1>u, <2>1, <2>2 DEF OwnFrames
  <2>4. FramesTagged' /\ FiledUnderOwnId'
    BY <1>u, <2>1 DEF FramesTagged, Tagged, FiledUnderOwnId
  <2> QED
    BY <1>t, <1>u, <2>1, <2>3, <2>4 DEF ControlInv, UniqueIds
<1>9. CASE ServeRequest
  <2> DEFINE f == Head(toServer)
  <2>1. UNCHANGED <<nextID, pending, id, cst, chan, rl, toClient>>
    BY <1>9 DEF ServeRequest, clientVars
  <2>2. /\ toServer' = Tail(toServer) /\ f = toServer[1] /\ f \in Frame
        /\ \A i \in 1 .. Len(toServer') : toServer'[i] = toServer[i + 1] /\ i + 1 \in 1 .. Len(toServer)
        /\ 1 \in 1 .. Len(toServer)
    BY <1>t, <1>9, TailElements DEF ServeRequest, TypeOK
  <2>3. f.call \in Call /\ id[f.call] # None
    BY <1>u, <2>2 DEF FramesTagged, Tagged, Frame, Id
  <2>4. \A d \in Call : d # f.call => srv'[d] = srv[d]
    BY <1>t, <1>9 DEF ServeRequest, TypeOK
  <2>5. FramesTagged'
    BY <1>u, <2>1, <2>2, <2>3, <2>4 DEF FramesTagged, Tagged
  <2> QED
    BY <1>t, <1>u, <2>1, <2>5 DEF ControlInv, UniqueIds, FiledUnderOwnId, OwnFrames
<1>10. ASSUME NEW c \in Call, srv[c] = "running", NEW kind \in {"event", "res", "err"},
              NEW n \in 0 .. MaxEvents, Reply(c, kind, n)
       PROVE  \A i \in 1 .. Len(toClient') : toClient'[i].id = id[toClient'[i].call]
  <2> DEFINE f == [id |-> id[c], kind |-> kind, call |-> c, n |-> n]
  <2>1. CASE toClient' = toClient
    BY <1>u, <2>1 DEF FramesTagged, Tagged
  <2>2. CASE toClient' = Append(toClient, f)
    <3>1. id[c] \in Id
      BY <1>t, <1>u, <1>10 DEF FramesTagged, TypeOK
    <3>2. f \in Frame /\ f.id = id[f.call]
      BY <3>1, FrameType
    <3>3. toClient \in Seq(Frame) /\ Len(toClient) \in Nat
      BY <1>t DEF TypeOK
    <3> HIDE DEF f
    <3>4. /\ Len(toClient') = Len(toClient) + 1
          /\ \A i \in 1 .. Len(toClient) : toClient'[i] = toClient[i]
          /\ toClient'[Len(toClient) + 1] = f
      BY <2>2, <3>2, <3>3, AppendElements
    <3>5. \A i \in 1 .. Len(toClient') : i \in 1 .. Len(toClient) \/ i = Len(toClient) + 1
      BY <3>3, <3>4
    <3> QED
      BY <1>u, <3>2, <3>4, <3>5 DEF FramesTagged, Tagged
  <2> QED
    BY <1>10, <2>1, <2>2 DEF Reply
<1>11. ASSUME NEW c \in Call, Emit(c) \/ Answer(c) PROVE ControlInv'
  <2>1. \A i \in 1 .. Len(toClient') : toClient'[i].id = id[toClient'[i].call]
    <3>1. CASE Emit(c)
      <4>1. emitted[c] + 1 \in 0 .. MaxEvents
        BY <1>t, <3>1 DEF Emit, TypeOK
      <4> QED
        BY <1>10, <3>1, <4>1 DEF Emit
    <3>2. CASE Answer(c)
      BY <1>10, <3>2 DEF Answer
    <3> QED
      BY <1>11, <3>1, <3>2
  <2>2. /\ UNCHANGED <<nextID, pending, id, cst, chan, rl, toServer>>
        /\ \A d \in Call : srv'[d] # "none" => srv[d] # "none"
    BY <1>t, <1>11 DEF Emit, Answer, clientVars, TypeOK
  <2>3. FramesTagged'
    BY <1>u, <2>1, <2>2 DEF FramesTagged, Tagged
  <2> QED
    BY <1>t, <1>u, <2>2, <2>3 DEF ControlInv, UniqueIds, FiledUnderOwnId, OwnFrames
<1>12. CASE Disconnect \/ UNCHANGED vars
  <2>1. UNCHANGED <<nextID, pending, id, cst, chan, rl, toServer, toClient, srv>>
    BY <1>12 DEF Disconnect, vars, clientVars
  <2> QED
    BY <1>t, <1>u, <2>1 DEF ControlInv, UniqueIds, FiledUnderOwnId, FramesTagged, Tagged, OwnFrames
<1> QED
  BY <1>1, <1>2, <1>3, <1>4, <1>5, <1>6, <1>7, <1>8, <1>9, <1>11, <1>12
     DEF Next, Do, ReadLoop, ServeOne

\* The inductive invariant holds in every reachable state.
THEOREM ControlInvariant == Spec => []ControlInv
BY ControlInit, ControlInvStep, PTL DEF Spec

\* Type correctness of the protocol.
THEOREM ControlTypeCorrect == Spec => []TypeOK
<1>1. ControlInv => TypeOK
  BY DEF ControlInv
<1> QED
  BY <1>1, ControlInvariant, PTL

\* No reply crosses to another call: every frame in a call's channel, and the
\* one readLoop is about to put there, answers that call's own request.
THEOREM NoCrossDelivery == Spec => []OwnFrames
<1>1. ControlInv => OwnFrames
  BY DEF ControlInv
<1> QED
  BY <1>1, ControlInvariant, PTL

-----------------------------------------------------------------------------
(* A call that is over is not in the table.                                 *)

\* A call that has returned was filed under its own id only, and took that
\* entry out of the table on the way.
LEMMA NothingPendingStep == ControlInv /\ NothingPending /\ [Next]_vars => NothingPending'
<1> SUFFICES ASSUME ControlInv, NothingPending, [Next]_vars,
                    NEW c \in Call, cst'[c] = "returned", NEW i \in Id
             PROVE  pending'[i] # c
  BY DEF NothingPending
<1>t. TypeOK /\ FiledUnderOwnId /\ FramesTagged /\ c # None /\ i # None
  BY DEF ControlInv, Id
<1>1. ASSUME NEW d \in Call, Begin(d) PROVE pending'[i] # c
  <2>1. CASE closed
    <3>1. pending' = pending /\ (c = d => id[c] = None) /\ (c # d => cst[c] = "returned")
      BY <1>t, <1>1, <2>1 DEF Begin, TypeOK, FramesTagged
    <3> QED
      BY <1>t, <3>1 DEF FiledUnderOwnId, NothingPending
  <2>2. CASE ~closed
    <3>1. c # d /\ cst[c] = "returned" /\ pending'[i] \in {pending[i], d}
      BY <1>t, <1>1, <2>2 DEF Begin, TypeOK
    <3> QED
      BY <3>1 DEF NothingPending
  <2> QED
    BY <2>1, <2>2
<1>2. ASSUME NEW d \in Call, Reclaim(d) PROVE pending'[i] # c
  <2>1. /\ c # d => cst[c] = "returned"
        /\ pending'[i] = IF i = id[d] THEN None ELSE pending[i]
    BY <1>t, <1>2 DEF Reclaim, TypeOK
  <2> QED
    BY <1>t, <2>1 DEF FiledUnderOwnId, NothingPending
<1>3. CASE CloseAll
  BY <1>t, <1>3 DEF CloseAll
<1>4. CASE \/ \E d \in Call : \/ SendRequest(d) \/ Receive(d) \/ ReceiveClosed(d)
                              \/ ContextDone(d) \/ ServeOne(d)
           \/ Lookup \/ DeliverFrame \/ ServeRequest \/ Disconnect \/ UNCHANGED vars
  <2>1. pending' = pending /\ cst[c] = "returned"
    BY <1>t, <1>4 DEF SendRequest, Receive, ReceiveClosed, ContextDone, End, ServeOne, Emit,
       Answer, Lookup, DeliverFrame, ServeRequest, Disconnect, vars, clientVars, TypeOK
  <2> QED
    BY <2>1 DEF NothingPending
<1> QED
  BY <1>1, <1>2, <1>3, <1>4 DEF Next, Do, ReadLoop

\* do leaves nothing behind: however a call ended, its entry in the pending
\* table is gone once it has returned.
THEOREM NoEntryLeaks == Spec => []NothingPending
<1>1. Init => NothingPending
  BY DEF Init, NothingPending
<1> QED
  BY <1>1, NothingPendingStep, ControlInvariant, PTL DEF Spec

-----------------------------------------------------------------------------
(* The replies to a call reach onEvent complete and in order.               *)

\* A call whose do still reads its channel, or will.
Attending(c) == cst[c] \in {"idle", "sending", "waiting"}

\* The place of a reply among those of its handler, given the events e the handlers
\* have emitted: event n is the n-th, and the terminal frame follows the last.
Pos(f, e) == IF f.kind = "event" THEN f.n ELSE e[f.call] + 1

\* How many replies to c have left the connection.
Base(c) == Len(seen[c]) + Len(chan[c])
             + (IF rl.st = "deliver" /\ rl.to = c THEN 1 ELSE 0)

\* The client files a call for as long as it is in flight and the table lives.
Filed ==
    /\ closed => rl.st = "closed"
    /\ ~closed => \A c \in Call :
          cst[c] \in {"sending", "waiting", "returning"} =>
              id[c] # None /\ pending[id[c]] = c

\* A call makes one request, and nothing is emitted for it before it is served.
OneRequest ==
    /\ \A i \in 1 .. Len(toServer) :
          /\ srv[toServer[i].call] = "none"
          /\ cst[toServer[i].call] \notin {"idle", "sending"}
    /\ \A i, j \in 1 .. Len(toServer) : toServer[i].call = toServer[j].call => i = j
    /\ \A c \in Call : cst[c] \in {"idle", "sending"} => srv[c] = "none"
    /\ \A c \in Call : srv[c] = "none" => emitted[c] = 0 /\ seen[c] = <<>>

\* A frame on its way to a call: an event its handler has emitted, or the answer
\* of a handler that is done.
IsReply(f) ==
    /\ srv[f.call] # "none" /\ f.kind # "req"
    /\ f.kind = "event" => f.n \in 1 .. emitted[f.call]
    /\ f.kind # "event" => srv[f.call] = "done"

Replies ==
    /\ \A c \in Call : \A j \in 1 .. Len(chan[c]) : IsReply(chan[c][j])
    /\ rl.st = "deliver" => IsReply(rl.frame)
    /\ \A i \in 1 .. Len(toClient) : IsReply(toClient[i])

\* The replies to c that have left the connection continue what onEvent has seen.
ChannelOrder(c) ==
    /\ \A j \in 1 .. Len(chan[c]) : Pos(chan[c][j], emitted) = Len(seen[c]) + j
    /\ rl.st = "deliver" /\ rl.to = c =>
          Pos(rl.frame, emitted) = Len(seen[c]) + Len(chan[c]) + 1

\* Those on the connection come after them, in order and without a gap.
WireOrder(c) ==
    \A i \in 1 .. Len(toClient) : toClient[i].call = c =>
        /\ Pos(toClient[i], emitted) > Base(c)
        /\ \A h \in 1 .. i - 1 : toClient[h].call = c =>
              Pos(toClient[h], emitted) < Pos(toClient[i], emitted)
        /\ \/ Pos(toClient[i], emitted) = Base(c) + 1
           \/ \E h \in 1 .. i - 1 : /\ toClient[h].call = c
                                    /\ Pos(toClient[h], emitted) = Pos(toClient[i], emitted) - 1

\* While the connection is open the last event emitted is on it, or has left it.
NothingLost(c) ==
    up /\ srv[c] = "running" =>
        \/ emitted[c] = Base(c)
        \/ \E i \in 1 .. Len(toClient) : /\ toClient[i].call = c
                                         /\ Pos(toClient[i], emitted) = emitted[c]

InOrder == \A c \in Call : Attending(c) =>
    ChannelOrder(c) /\ WireOrder(c) /\ NothingLost(c)

\* A call that ended with the terminal frame has a handler that is done.
Answered == \A c \in Call : outcome[c] \in {"res", "err"} =>
    /\ srv[c] = "done" /\ cst[c] \in {"returning", "returned"}

StreamInv == Filed /\ OneRequest /\ Replies /\ InOrder /\ Answered /\ EventsComplete

\* The types of the frames in the three places they can be.
LEMMA InFlightTypes ==
  ASSUME TypeOK
  PROVE  /\ toServer \in Seq(Frame) /\ Len(toServer) \in Nat
         /\ \A i \in 1 .. Len(toServer) : toServer[i] \in Frame /\ toServer[i].call \in Call
         /\ toClient \in Seq(Frame) /\ Len(toClient) \in Nat
         /\ \A i \in 1 .. Len(toClient) : toClient[i] \in Frame /\ toClient[i].call \in Call
         /\ \A c \in Call : /\ chan[c] \in Seq(Frame) /\ Len(chan[c]) \in Nat
                            /\ \A i \in 1 .. Len(chan[c]) : chan[c][i] \in Frame
                            /\ seen[c] \in Seq(0 .. MaxEvents) /\ Len(seen[c]) \in Nat
         /\ rl.st = "deliver" => rl.frame \in Frame /\ rl.to \in Call
<1>1. \A f \in Frame : f.call \in Call
  BY DEF Frame
<1>2. rl.st = "deliver" => rl.frame \in Frame /\ rl.to \in Call
  BY DEF TypeOK, Reading, Sending
<1>3. /\ toServer \in Seq(Frame) /\ toClient \in Seq(Frame)
      /\ \A c \in Call : chan[c] \in Seq(Frame) /\ seen[c] \in Seq(0 .. MaxEvents)
  BY DEF TypeOK
<1> QED
  BY <1>1, <1>2, <1>3

LEMMA StreamInit == Init => StreamInv
<1> SUFFICES ASSUME Init PROVE StreamInv
  OBVIOUS
<1>1. rl.st = "recv"
  BY DEF Init
<1>2. Filed /\ OneRequest /\ Replies
  BY <1>1 DEF Init, Filed, OneRequest, Replies
<1>3. Answered /\ EventsComplete
  BY DEF Init, Answered, EventsComplete
<1>4. ASSUME NEW c \in Call
      PROVE  Len(seen[c]) = 0 /\ Len(chan[c]) = 0 /\ emitted[c] = 0 /\ Base(c) = 0
  <2>1. seen[c] = <<>> /\ chan[c] = <<>> /\ emitted[c] = 0
    BY DEF Init
  <2> QED
    BY <1>1, <2>1 DEF Base
<1>5. Len(toClient) = 0
  BY DEF Init
<1>6. InOrder
  BY <1>1, <1>4, <1>5 DEF InOrder, ChannelOrder, WireOrder, NothingLost
<1> QED
  BY <1>2, <1>3, <1>6 DEF StreamInv

\* The table: a new id is nobody else's, and the deferred delete takes out the
\* entry of its own call only.
LEMMA FiledStep == ControlInv /\ Filed /\ [Next]_vars => Filed'
<1> SUFFICES ASSUME ControlInv, Filed, [Next]_vars PROVE Filed'
  OBVIOUS
<1>t. TypeOK /\ UniqueIds
  BY DEF ControlInv
<1>1. ASSUME NEW c \in Call, Begin(c) PROVE Filed'
  <2>1. CASE closed
    BY <1>t, <1>1, <2>1 DEF Begin, Filed, TypeOK
  <2>2. CASE ~closed
    <3>0. nextID \in Id
      BY <1>t, <1>1, <2>2 DEF Begin, TypeOK, Id
    <3>1. /\ nextID # None /\ UNCHANGED <<closed, rl>>
          /\ id'[c] = nextID /\ pending'[nextID] = c
          /\ \A d \in Call : d # c => id'[d] = id[d] /\ cst'[d] = cst[d]
          /\ \A i \in Id : i # nextID => pending'[i] = pending[i]
      <4>1. nextID # None
        BY <3>0 DEF Id
      <4> QED
        BY <1>t, <1>1, <2>2, <3>0, <4>1 DEF Begin, TypeOK
    <3>2. \A d \in Call : id[d] # None => id[d] \in Id /\ id[d] # nextID
      BY <1>t DEF UniqueIds, TypeOK
    <3> QED
      BY <2>2, <3>1, <3>2 DEF Filed
  <2> QED
    BY <2>1, <2>2
<1>2. ASSUME NEW c \in Call, Reclaim(c) PROVE Filed'
  <2>1. /\ UNCHANGED <<closed, rl, id>> /\ cst'[c] = "returned"
        /\ \A d \in Call : d # c => cst'[d] = cst[d]
        /\ \A i \in Id : i # id[c] => pending'[i] = pending[i]
        /\ \A d \in Call : id[d] # None => id[d] \in Id
    BY <1>t, <1>2 DEF Reclaim, TypeOK
  <2>2. \A d \in Call : d # c /\ id[d] # None => id[d] # id[c]
    BY <1>t DEF UniqueIds
  <2> QED
    BY <2>1, <2>2 DEF Filed
<1>3. CASE CloseAll
  BY <1>3 DEF CloseAll, Filed
<1>4. ASSUME NEW c \in Call, \/ SendRequest(c) \/ Receive(c) \/ ReceiveClosed(c)
                             \/ ContextDone(c)
      PROVE Filed'
  <2>1. /\ UNCHANGED <<closed, rl, id, pending>> /\ cst[c] \in {"sending", "waiting"}
        /\ \A d \in Call : d # c => cst'[d] = cst[d]
    BY <1>t, <1>4 DEF SendRequest, Receive, ReceiveClosed, ContextDone, End, TypeOK
  <2> QED
    BY <2>1 DEF Filed
<1>5. CASE Lookup \/ DeliverFrame
  <2>1. rl.st # "closed" /\ UNCHANGED <<closed, id, pending, cst>>
    BY <1>5 DEF Lookup, DeliverFrame, clientVars
  <2> QED
    BY <2>1 DEF Filed
<1>6. CASE (\E c \in Call : ServeOne(c)) \/ ServeRequest \/ Disconnect \/ UNCHANGED vars
  <2>1. UNCHANGED <<closed, rl, id, pending, cst>>
    BY <1>6 DEF ServeOne, Emit, Answer, ServeRequest, Disconnect, vars, clientVars
  <2> QED
    BY <2>1 DEF Filed
<1> QED
  BY <1>1, <1>2, <1>3, <1>4, <1>5, <1>6 DEF Next, Do, ReadLoop

\* The requests: a call puts one on the connection, after which its handler
\* runs once.
LEMMA OneRequestStep == ControlInv /\ OneRequest /\ Replies /\ [Next]_vars => OneRequest'
<1> SUFFICES ASSUME ControlInv, OneRequest, Replies, [Next]_vars PROVE OneRequest'
  OBVIOUS
<1>t. TypeOK
  BY DEF ControlInv
<1>f. \A i \in 1 .. Len(toServer) : toServer[i] \in Frame /\ toServer[i].call \in Call
  BY <1>t, InFlightTypes
<1>1. ASSUME NEW c \in Call, SendRequest(c) PROVE OneRequest'
  <2>1. /\ UNCHANGED <<srv, emitted, seen>> /\ cst[c] = "sending" /\ srv[c] = "none"
        /\ cst'[c] \in {"waiting", "returning"}
        /\ \A d \in Call : d # c => cst'[d] = cst[d]
    BY <1>t, <1>1 DEF SendRequest, End, TypeOK, OneRequest
  <2>2. \A i \in 1 .. Len(toServer) : toServer[i].call \in Call /\ toServer[i].call # c
    BY <1>f, <2>1 DEF OneRequest
  <2>3. CASE toServer' = toServer
    BY <2>1, <2>2, <2>3 DEF OneRequest
  <2>4. CASE toServer' # toServer
    <3> DEFINE f == [id |-> id[c], kind |-> "req", call |-> c, n |-> 0]
    <3>1. toServer' = Append(toServer, f) /\ cst'[c] = "waiting"
      BY <1>t, <1>1, <2>4 DEF SendRequest, TypeOK
    <3>2. f \in Frame /\ toServer \in Seq(Frame) /\ Len(toServer) \in Nat
      <4>1. id[c] \in Id
        BY <1>t, <2>1 DEF ControlInv, FramesTagged, TypeOK
      <4>2. 0 \in 0 .. MaxEvents
        BY BoundsAssumption
      <4> QED
        BY <1>t, <4>1, <4>2, FrameType, InFlightTypes
    <3>5. f.call = c
      OBVIOUS
    <3> HIDE DEF f
    <3>3. /\ Len(toServer') = Len(toServer) + 1
          /\ \A i \in 1 .. Len(toServer) : toServer'[i] = toServer[i]
          /\ toServer'[Len(toServer) + 1] = f
      BY <3>1, <3>2, AppendElements
    <3>4. \A i \in 1 .. Len(toServer') : i \in 1 .. Len(toServer) \/ i = Len(toServer) + 1
      BY <3>2, <3>3
    <3> QED
      BY <2>1, <2>2, <3>1, <3>3, <3>4, <3>5 DEF OneRequest
  <2> QED
    BY <2>3, <2>4
<1>2. CASE ServeRequest
  <2> DEFINE f == Head(toServer)
  <2>1. /\ UNCHANGED <<cst, emitted, seen>>
        /\ toServer' = Tail(toServer) /\ f = toServer[1] /\ f \in Frame
        /\ \A i \in 1 .. Len(toServer') :
              toServer'[i] = toServer[i + 1] /\ i + 1 \in 1 .. Len(toServer) /\ i + 1 # 1
        /\ 1 \in 1 .. Len(toServer)
    BY <1>t, <1>2, TailElements DEF ServeRequest, clientVars, TypeOK
  <2>2. f.call \in Call /\ cst[f.call] \notin {"idle", "sending"}
    BY <2>1 DEF OneRequest, Frame
  <2>3. /\ \A d \in Call : d # f.call => srv'[d] = srv[d]
        /\ srv'[f.call] = "running"
    BY <1>t, <1>2, <2>2 DEF ServeRequest, TypeOK
  <2>4. \A i \in 1 .. Len(toServer') : toServer'[i].call # f.call /\ toServer'[i].call \in Call
    BY <1>f, <2>1 DEF OneRequest
  <2>5. \A i, j \in 1 .. Len(toServer') : toServer'[i].call = toServer'[j].call => i = j
    BY <2>1 DEF OneRequest
  <2> HIDE DEF f
  <2> QED
    BY <2>1, <2>2, <2>3, <2>4, <2>5 DEF OneRequest
<1>3. ASSUME NEW c \in Call, ServeOne(c) PROVE OneRequest'
  <2>1. /\ UNCHANGED <<cst, toServer, seen>> /\ srv[c] = "running" /\ srv'[c] # "none"
        /\ \A d \in Call : d # c => srv'[d] = srv[d] /\ emitted'[d] = emitted[d]
    BY <1>t, <1>3 DEF ServeOne, Emit, Answer, clientVars, TypeOK
  <2>2. \A i \in 1 .. Len(toServer) : toServer[i].call \in Call /\ toServer[i].call # c
    BY <1>f, <2>1 DEF OneRequest
  <2> QED
    BY <2>1, <2>2 DEF OneRequest
<1>4. ASSUME NEW c \in Call, Receive(c) PROVE OneRequest'
  <2>1. /\ UNCHANGED <<srv, toServer, emitted>> /\ cst[c] = "waiting"
        /\ cst'[c] \in {"waiting", "returning"}
        /\ \A d \in Call : d # c => cst'[d] = cst[d] /\ seen'[d] = seen[d]
        /\ chan[c] # <<>>
    BY <1>t, <1>4 DEF Receive, End, TypeOK
  <2>2. srv[c] # "none"
    <3>1. 1 \in 1 .. Len(chan[c]) /\ chan[c][1].call = c
      <4>1. chan[c] \in Seq(Frame)
        BY <1>t, InFlightTypes
      <4> QED
        BY <2>1, <4>1, TailElements DEF ControlInv, OwnFrames
    <3> QED
      BY <3>1 DEF Replies, IsReply
  <2> QED
    BY <1>f, <2>1, <2>2 DEF OneRequest
<1>5. ASSUME NEW c \in Call, Begin(c) PROVE OneRequest'
  <2>1. /\ UNCHANGED <<srv, toServer, emitted, seen>> /\ cst[c] = "idle"
        /\ cst'[c] \in {"sending", "returned"}
        /\ \A d \in Call : d # c => cst'[d] = cst[d]
    BY <1>t, <1>5 DEF Begin, TypeOK
  <2>2. \A i \in 1 .. Len(toServer) : toServer[i].call \in Call /\ toServer[i].call # c
    BY <1>f, <2>1 DEF OneRequest
  <2> QED
    BY <2>1, <2>2 DEF OneRequest
<1>6. ASSUME NEW c \in Call, ReceiveClosed(c) \/ ContextDone(c) \/ Reclaim(c) PROVE OneRequest'
  <2>1. /\ UNCHANGED <<srv, toServer, emitted, seen>> /\ cst[c] \in {"waiting", "returning"}
        /\ cst'[c] \in {"returning", "returned"}
        /\ \A d \in Call : d # c => cst'[d] = cst[d]
    BY <1>t, <1>6 DEF ReceiveClosed, ContextDone, Reclaim, End, TypeOK
  <2>2. \A i \in 1 .. Len(toServer) : toServer[i].call \in Call
    BY <1>f
  <2> QED
    BY <2>1, <2>2 DEF OneRequest
<1>7. CASE ReadLoop \/ Disconnect \/ UNCHANGED vars
  <2>1. UNCHANGED <<srv, toServer, cst, emitted, seen>>
    BY <1>7 DEF ReadLoop, Lookup, DeliverFrame, CloseAll, Disconnect, vars, clientVars
  <2> QED
    BY <2>1 DEF OneRequest
<1> QED
  BY <1>1, <1>2, <1>3, <1>4, <1>5, <1>6, <1>7 DEF Next, Do

\* The frame a handler puts on the connection, when it does.
LEMMA ReplySent ==
  ASSUME ControlInv, NEW c \in Call, ServeOne(c)
  PROVE  \/ ~up /\ toClient' = toClient
         \/ \E f \in Frame :
               /\ up /\ toClient' = Append(toClient, f) /\ f.call = c
               /\ \/ Emit(c) /\ f.kind = "event" /\ f.n = emitted[c] + 1
                  \/ Answer(c) /\ f.kind \in {"res", "err"}
<1> SUFFICES ASSUME up \/ toClient' # toClient
             PROVE  \E f \in Frame :
                       /\ up /\ toClient' = Append(toClient, f) /\ f.call = c
                       /\ \/ Emit(c) /\ f.kind = "event" /\ f.n = emitted[c] + 1
                          \/ Answer(c) /\ f.kind \in {"res", "err"}
  OBVIOUS
<1>1. id[c] \in Id /\ emitted[c] \in 0 .. MaxEvents
  BY DEF ControlInv, TypeOK, FramesTagged, ServeOne, Emit, Answer
<1>2. CASE Emit(c)
  <2> DEFINE f == [id |-> id[c], kind |-> "event", call |-> c, n |-> emitted[c] + 1]
  <2>1. toClient' = Append(toClient, f) /\ up /\ emitted[c] + 1 \in 0 .. MaxEvents
    <3>1. emitted[c] < MaxEvents
      BY <1>2 DEF Emit
    <3>2. emitted[c] + 1 \in 0 .. MaxEvents
      BY <1>1, <3>1
    <3> QED
      BY <1>2, <3>2 DEF Emit, Reply
  <2>2. f \in Frame
    BY <1>1, <2>1, FrameType
  <2>3. f.call = c /\ f.kind = "event" /\ f.n = emitted[c] + 1
    OBVIOUS
  <2> HIDE DEF f
  <2> QED
    BY <1>2, <2>1, <2>2, <2>3
<1>3. CASE Answer(c)
  <2>1. PICK kind \in {"res", "err"} : Reply(c, kind, 0)
    BY <1>3 DEF Answer
  <2> DEFINE f == [id |-> id[c], kind |-> kind, call |-> c, n |-> 0]
  <2>2. toClient' = Append(toClient, f) /\ up
    BY <2>1 DEF Reply
  <2>3. f \in Frame
    <3>1. 0 \in 0 .. MaxEvents
      BY BoundsAssumption
    <3> QED
      BY <1>1, <3>1, FrameType
  <2>4. f.call = c /\ f.kind \in {"res", "err"}
    OBVIOUS
  <2> HIDE DEF f
  <2> QED
    BY <1>3, <2>2, <2>3, <2>4
<1> QED
  BY <1>2, <1>3 DEF ServeOne

\* The replies: what is on its way stays a reply, for a handler that has started
\* does not start again and emits nothing once it is done.
LEMMA RepliesStep ==
  ControlInv /\ OneRequest /\ Replies /\ [Next]_vars => Replies'
<1> SUFFICES ASSUME ControlInv, OneRequest, Replies, [Next]_vars PROVE Replies'
  OBVIOUS
<1>t. TypeOK
  BY DEF ControlInv
<1> DEFINE ReplyAfter(f) == /\ srv'[f.call] # "none" /\ f.kind # "req"
                            /\ f.kind = "event" => f.n \in 1 .. emitted'[f.call]
                            /\ f.kind # "event" => srv'[f.call] = "done"
\* What is a reply before the step is one after it.
<1>1. ASSUME NEW f \in Frame, IsReply(f) PROVE ReplyAfter(f)
  <2>1. f.call \in Call /\ (f.kind = "event" => f.n \in 0 .. MaxEvents)
    BY DEF Frame
  <2>2. CASE ServeRequest
    <3>1. Head(toServer) = toServer[1] /\ 1 \in 1 .. Len(toServer)
      BY <1>t, <2>2, TailElements DEF ServeRequest, TypeOK
    <3>2. Head(toServer).call # f.call
      BY <1>1, <3>1 DEF OneRequest, IsReply
    <3>3. srv'[f.call] = srv[f.call] /\ emitted' = emitted
      BY <1>t, <2>1, <2>2, <3>2 DEF ServeRequest, TypeOK
    <3> QED
      BY <1>1, <3>3 DEF IsReply
  <2>3. ASSUME NEW c \in Call, ServeOne(c) PROVE ReplyAfter(f)
    <3>1. CASE f.call # c
      <4>1. srv'[f.call] = srv[f.call] /\ emitted'[f.call] = emitted[f.call]
        BY <1>t, <2>1, <2>3, <3>1 DEF ServeOne, Emit, Answer, TypeOK
      <4> QED
        BY <1>1, <4>1 DEF IsReply
    <3>2. CASE f.call = c
      <4>1. /\ srv[c] = "running" /\ srv'[c] # "none"
            /\ emitted'[c] \in Nat /\ emitted[c] \in Nat /\ emitted'[c] >= emitted[c]
        BY <1>t, <2>3 DEF ServeOne, Emit, Answer, TypeOK
      <4> QED
        BY <1>1, <2>1, <3>2, <4>1 DEF IsReply
    <3> QED
      BY <3>1, <3>2
  <2>4. CASE UNCHANGED <<srv, emitted>>
    BY <1>1, <2>4 DEF IsReply
  <2> QED
    BY <2>2, <2>3, <2>4 DEF Next, Do, ReadLoop, Begin, SendRequest, Receive, ReceiveClosed,
       ContextDone, Reclaim, Lookup, DeliverFrame, CloseAll, Disconnect, vars
<1> HIDE DEF ReplyAfter
\* Where the frames of the three places come from.
<1>2. ASSUME NEW c \in Call, NEW j \in 1 .. Len(chan'[c]) PROVE ReplyAfter(chan'[c][j])
  <2>1. CASE chan' = chan
    BY <1>t, <1>1, <1>2, <2>1, InFlightTypes DEF Replies
  <2>2. CASE \E d \in Call : Receive(d)
    <3>1. PICK d \in Call : Receive(d)
      BY <2>2
    <3>2. chan[c] \in Seq(Frame) /\ chan'[c] = IF c = d THEN Tail(chan[c]) ELSE chan[c]
      BY <1>t, <3>1 DEF Receive, TypeOK
    <3>3. chan[d] # <<>>
      BY <3>1 DEF Receive
    <3>4. \E i \in 1 .. Len(chan[c]) : chan'[c][j] = chan[c][i]
      BY <1>2, <3>2, <3>3, TailElements
    <3> QED
      BY <1>t, <1>1, <3>4, InFlightTypes DEF Replies
  <2>3. CASE DeliverFrame
    <3>1. rl.st = "deliver" /\ rl.frame \in Frame /\ rl.to \in Call
      BY <1>t, <2>3 DEF DeliverFrame, TypeOK, Reading, Sending
    <3>2. /\ chan[c] \in Seq(Frame) /\ Len(chan[c]) \in Nat
          /\ chan'[c] = IF c = rl.to THEN Append(chan[c], rl.frame) ELSE chan[c]
      BY <1>t, <2>3, <3>1 DEF DeliverFrame, TypeOK
    <3>3. chan'[c][j] = rl.frame \/ \E i \in 1 .. Len(chan[c]) : chan'[c][j] = chan[c][i]
      BY <1>2, <3>1, <3>2, AppendElements
    <3> QED
      BY <1>t, <1>1, <3>1, <3>3, InFlightTypes DEF Replies
  <2> QED
    BY <2>1, <2>2, <2>3 DEF Next, Do, ReadLoop, Begin, SendRequest, ReceiveClosed,
       ContextDone, Reclaim, Lookup, CloseAll, ServeOne, Emit, Answer, ServeRequest,
       Disconnect, vars, clientVars
<1>3. ASSUME rl'.st = "deliver" PROVE ReplyAfter(rl'.frame)
  <2>1. CASE Lookup
    <3>1. toClient # <<>> /\ toClient \in Seq(Frame)
      BY <1>t, <2>1 DEF Lookup, TypeOK
    <3>2. Head(toClient) = toClient[1] /\ 1 \in 1 .. Len(toClient) /\ Head(toClient) \in Frame
      BY <3>1, TailElements
    <3>3. rl'.frame = Head(toClient)
      BY <1>3, <2>1 DEF Lookup
    <3> QED
      BY <1>1, <3>2, <3>3 DEF Replies
  <2>2. CASE DeliverFrame \/ CloseAll
    BY <1>3, <2>2 DEF DeliverFrame, CloseAll
  <2>3. CASE rl' = rl
    BY <1>t, <1>1, <1>3, <2>3, InFlightTypes DEF Replies
  <2> QED
    BY <2>1, <2>2, <2>3 DEF Next, Do, ReadLoop, Begin, SendRequest, Receive, ReceiveClosed,
       ContextDone, Reclaim, ServeOne, Emit, Answer, ServeRequest, Disconnect, vars
<1>4. ASSUME NEW i \in 1 .. Len(toClient') PROVE ReplyAfter(toClient'[i])
  <2>1. CASE toClient' = toClient
    BY <1>t, <1>1, <1>4, <2>1, InFlightTypes DEF Replies
  <2>2. CASE Lookup
    <3>1. toClient # <<>> /\ toClient \in Seq(Frame) /\ toClient' = Tail(toClient)
      BY <1>t, <2>2 DEF Lookup, TypeOK
    <3>2. toClient'[i] = toClient[i + 1] /\ i + 1 \in 1 .. Len(toClient)
      BY <1>4, <3>1, TailElements
    <3> QED
      BY <1>t, <1>1, <3>2, InFlightTypes DEF Replies
  <2>3. ASSUME NEW c \in Call, ServeOne(c), toClient' # toClient PROVE ReplyAfter(toClient'[i])
    <3>1. PICK f \in Frame : /\ toClient' = Append(toClient, f) /\ f.call = c
                             /\ \/ Emit(c) /\ f.kind = "event" /\ f.n = emitted[c] + 1
                                \/ Answer(c) /\ f.kind \in {"res", "err"}
      BY <2>3, ReplySent
    <3>2. ReplyAfter(f)
      <4>1. /\ Emit(c) => srv'[c] = "running" /\ emitted'[c] = emitted[c] + 1 /\ emitted[c] \in Nat
            /\ Answer(c) => srv'[c] = "done"
        BY <1>t DEF Emit, Answer, TypeOK
      <4> QED
        BY <3>1, <4>1 DEF ReplyAfter
    <3>3. toClient \in Seq(Frame) /\ Len(toClient) \in Nat
      BY <1>t DEF TypeOK
    <3>4. toClient'[i] = f \/ (i \in 1 .. Len(toClient) /\ toClient'[i] = toClient[i])
      BY <1>4, <3>1, <3>3, AppendElements
    <3> QED
      BY <1>t, <1>1, <3>2, <3>4, InFlightTypes DEF Replies
  <2> QED
    BY <2>1, <2>2, <2>3 DEF Next, Do, ReadLoop, Begin, SendRequest, Receive, ReceiveClosed,
       ContextDone, Reclaim, DeliverFrame, CloseAll, ServeRequest, Disconnect, vars
<1> QED
  BY <1>2, <1>3, <1>4 DEF Replies, IsReply, ReplyAfter

\* A call that is served had no reply on the way.
LEMMA NothingBeforeService ==
  ASSUME ControlInv, OneRequest, Replies, NEW c \in Call, srv[c] = "none"
  PROVE  emitted[c] = 0 /\ Base(c) = 0
<1>t. TypeOK
  BY DEF ControlInv
<1>1. emitted[c] = 0 /\ Len(seen[c]) = 0
  BY DEF OneRequest
<1>2. Len(chan[c]) = 0
  <2>1. Len(chan[c]) \in Nat
    BY <1>t, InFlightTypes
  <2>2. ~ (1 \in 1 .. Len(chan[c]))
    BY DEF ControlInv, OwnFrames, Replies, IsReply
  <2> QED
    BY <2>1, <2>2
<1>3. ~ (rl.st = "deliver" /\ rl.to = c)
  BY DEF ControlInv, OwnFrames, Replies, IsReply
<1> QED
  BY <1>1, <1>2, <1>3 DEF Base

LEMMA PlaceTypes ==
  ASSUME TypeOK
  PROVE  /\ \A c \in Call : Base(c) \in Nat /\ emitted[c] \in Nat
         /\ \A f \in Frame : Pos(f, emitted) \in Nat
<1>1. \A c \in Call : emitted[c] \in Nat
  BY DEF TypeOK
<1>2. \A f \in Frame : f.n \in 0 .. MaxEvents /\ f.call \in Call
  BY DEF Frame
<1>3. \A f \in Frame : Pos(f, emitted) \in Nat
  BY <1>1, <1>2 DEF Pos
<1>4. \A c \in Call : Len(seen[c]) \in Nat /\ Len(chan[c]) \in Nat
  BY InFlightTypes
<1>5. ASSUME NEW c \in Call PROVE Base(c) \in Nat
  <2>1. PICK m \in Nat, n \in Nat : m = Len(seen[c]) /\ n = Len(chan[c])
    BY <1>4
  <2>2. Base(c) = m + n + (IF rl.st = "deliver" /\ rl.to = c THEN 1 ELSE 0)
    BY <2>1 DEF Base
  <2> QED
    BY <2>2
<1> QED
  BY <1>1, <1>3, <1>5

\* A step that leaves the replies to a call where they are.
LEMMA QuietStep ==
  ASSUME NEW c \in Call, Attending(c), InOrder,
         seen'[c] = seen[c], chan'[c] = chan[c], emitted' = emitted,
         toClient' = toClient, srv'[c] = srv[c], up' => up,
         \/ rl' = rl
         \/ ~ (rl.st = "deliver" /\ rl.to = c) /\ ~ (rl'.st = "deliver" /\ rl'.to = c)
  PROVE  ChannelOrder(c)' /\ WireOrder(c)' /\ NothingLost(c)'
<1>1. ChannelOrder(c) /\ WireOrder(c) /\ NothingLost(c)
  BY DEF InOrder
<1>2. Base(c)' = Base(c)
  BY DEF Base
<1>3. ChannelOrder(c)'
  BY <1>1 DEF ChannelOrder
<1>4. WireOrder(c)' /\ NothingLost(c)'
  BY <1>1, <1>2 DEF WireOrder, NothingLost
<1> QED
  BY <1>3, <1>4

\* The loop moves a frame from the connection to its call, which files it, or the
\* call no longer reads.
LEMMA LookupInOrder ==
  ASSUME ControlInv, StreamInv, Lookup
  PROVE  InOrder'
<1> DEFINE f == Head(toClient)
<1>t. TypeOK /\ Filed /\ OneRequest /\ Replies /\ InOrder
  BY DEF ControlInv, StreamInv
<1>1. /\ UNCHANGED <<cst, seen, chan, emitted, srv, up, pending, id>>
      /\ rl.st = "recv" /\ toClient' = Tail(toClient) /\ toClient # <<>>
  BY DEF Lookup, clientVars
<1>2. /\ f = toClient[1] /\ 1 \in 1 .. Len(toClient) /\ f \in Frame
      /\ f.call \in Call /\ f.id \in Id /\ f.id # None
  <2>1. f = toClient[1] /\ 1 \in 1 .. Len(toClient) /\ f \in Frame
    BY <1>t, <1>1, InFlightTypes, TailElements
  <2> HIDE DEF f
  <2> QED
    BY <2>1 DEF Frame, Id
<1>3. /\ Len(toClient) \in Nat /\ Len(toClient') = Len(toClient) - 1
      /\ \A i \in 1 .. Len(toClient') : /\ toClient'[i] = toClient[i + 1]
                                        /\ i + 1 \in 1 .. Len(toClient)
  BY <1>t, <1>1, InFlightTypes, TailElements
<1>4. f.id = id[f.call]
  BY <1>2 DEF ControlInv, FramesTagged, Tagged
<1>5. \A i \in 1 .. Len(toClient) : Pos(toClient[i], emitted) \in Nat
  BY <1>t, PlaceTypes, InFlightTypes
<1>6. rl' = IF pending[f.id] = None THEN [st |-> "recv"]
            ELSE [st |-> "deliver", frame |-> f, to |-> pending[f.id]]
  BY DEF Lookup
<1> HIDE DEF f
\* The frame goes to the call it answers, or to nobody.
<1>7. ASSUME rl'.st = "deliver" PROVE rl'.to = f.call /\ rl'.frame = f
  <2>1. pending[f.id] # None /\ rl'.frame = f /\ rl'.to = pending[f.id]
    BY <1>6, <1>7
  <2>2. pending[f.id] \in Call /\ id[pending[f.id]] = f.id
    BY <1>t, <1>2, <2>1 DEF TypeOK, ControlInv, FiledUnderOwnId
  <2>3. pending[f.id] = f.call
    BY <1>2, <1>4, <2>2 DEF ControlInv, UniqueIds
  <2> QED
    BY <2>1, <2>3
<1> SUFFICES ASSUME NEW d \in Call, Attending(d)'
             PROVE  ChannelOrder(d)' /\ WireOrder(d)' /\ NothingLost(d)'
  BY DEF InOrder
<1>8. Attending(d) /\ ChannelOrder(d) /\ WireOrder(d) /\ NothingLost(d) /\ Base(d) \in Nat
  BY <1>t, <1>1, PlaceTypes DEF Attending, InOrder
<1>9. CASE f.call # d
  <2>1. ~ (rl'.st = "deliver" /\ rl'.to = d) /\ ~ (rl.st = "deliver" /\ rl.to = d)
    BY <1>1, <1>7, <1>9
  <2>2. Base(d)' = Base(d)
    BY <1>1, <2>1 DEF Base
  <2>3. ChannelOrder(d)'
    BY <1>1, <1>8, <2>1 DEF ChannelOrder
  <2>4. WireOrder(d)'
    <3> SUFFICES ASSUME NEW i \in 1 .. Len(toClient'), toClient'[i].call = d
                 PROVE  /\ Pos(toClient'[i], emitted) > Base(d)
                        /\ \A h \in 1 .. i - 1 : toClient'[h].call = d =>
                              Pos(toClient'[h], emitted) < Pos(toClient'[i], emitted)
                        /\ \/ Pos(toClient'[i], emitted) = Base(d) + 1
                           \/ \E h \in 1 .. i - 1 :
                                 /\ toClient'[h].call = d
                                 /\ Pos(toClient'[h], emitted) = Pos(toClient'[i], emitted) - 1
      BY <1>1, <2>2 DEF WireOrder
    <3>1. toClient'[i] = toClient[i + 1] /\ i + 1 \in 1 .. Len(toClient)
      BY <1>3
    <3>2. ASSUME NEW h \in 1 .. i - 1
          PROVE  toClient'[h] = toClient[h + 1] /\ h + 1 \in 1 .. (i + 1) - 1
      BY <1>3
    <3>3. ASSUME NEW h \in 1 .. (i + 1) - 1, toClient[h].call = d
          PROVE  h - 1 \in 1 .. i - 1 /\ toClient[h] = toClient'[h - 1]
      <4>1. h # 1
        BY <1>2, <1>9, <3>3
      <4>2. h - 1 \in 1 .. i - 1 /\ (h - 1) + 1 = h
        BY <4>1
      <4> QED
        BY <3>2, <4>2
    <3>4. Pos(toClient'[i], emitted) > Base(d)
      BY <1>8, <3>1 DEF WireOrder
    <3>5. \A h \in 1 .. i - 1 : toClient'[h].call = d =>
             Pos(toClient'[h], emitted) < Pos(toClient'[i], emitted)
      BY <1>8, <3>1, <3>2 DEF WireOrder
    <3>6. \/ Pos(toClient[i + 1], emitted) = Base(d) + 1
          \/ \E h \in 1 .. (i + 1) - 1 :
                toClient[h].call = d /\ Pos(toClient[h], emitted) = Pos(toClient[i + 1], emitted) - 1
      BY <1>8, <3>1 DEF WireOrder
    <3> QED
      BY <3>1, <3>3, <3>4, <3>5, <3>6
  <2>5. NothingLost(d)'
    <3>1. ASSUME NEW i \in 1 .. Len(toClient), toClient[i].call = d
          PROVE  i - 1 \in 1 .. Len(toClient') /\ toClient[i] = toClient'[i - 1]
      <4>1. i # 1
        BY <1>2, <1>9, <3>1
      <4>2. i - 1 \in 1 .. Len(toClient') /\ (i - 1) + 1 = i
        BY <1>3, <4>1
      <4> QED
        BY <1>3, <4>2
    <3> QED
      BY <1>1, <1>8, <2>2, <3>1 DEF NothingLost
  <2> QED
    BY <2>3, <2>4, <2>5
<1>10. CASE f.call = d
  <2>1. srv[d] # "none" /\ (f.kind = "event" => f.n <= emitted[d]) /\ (srv[d] = "running" => f.kind = "event")
    BY <1>t, <1>2, <1>10, PlaceTypes DEF Replies, IsReply
  <2>2. cst[d] = "waiting"
    BY <1>t, <1>8, <2>1 DEF OneRequest, Attending
  <2>3. pending[f.id] = d /\ d # None
    BY <1>t, <1>1, <1>4, <1>10, <2>2 DEF Filed
  <2>4. rl'.st = "deliver" /\ rl'.to = d /\ rl'.frame = f
    BY <1>6, <2>3
  <2>5. Base(d) = Len(seen[d]) + Len(chan[d])
    BY <1>1 DEF Base
  <2>6. Base(d)' = Base(d) + 1
    BY <1>1, <2>4, <2>5 DEF Base
  <2>7. Pos(f, emitted) = Base(d) + 1
    <3>1. ~ \E h \in 1 .. 1 - 1 : TRUE
      OBVIOUS
    <3> QED
      BY <1>2, <1>8, <1>10, <3>1 DEF WireOrder
  <2>8. ChannelOrder(d)'
    BY <1>1, <1>8, <2>4, <2>5, <2>7 DEF ChannelOrder
  <2>9. WireOrder(d)'
    <3> SUFFICES ASSUME NEW i \in 1 .. Len(toClient'), toClient'[i].call = d
                 PROVE  /\ Pos(toClient'[i], emitted) > Base(d) + 1
                        /\ \A h \in 1 .. i - 1 : toClient'[h].call = d =>
                              Pos(toClient'[h], emitted) < Pos(toClient'[i], emitted)
                        /\ \/ Pos(toClient'[i], emitted) = Base(d) + 2
                           \/ \E h \in 1 .. i - 1 :
                                 /\ toClient'[h].call = d
                                 /\ Pos(toClient'[h], emitted) = Pos(toClient'[i], emitted) - 1
      BY <1>1, <1>8, <2>6 DEF WireOrder
    <3>1. toClient'[i] = toClient[i + 1] /\ i + 1 \in 1 .. Len(toClient)
      BY <1>3
    <3>2. ASSUME NEW h \in 1 .. i - 1
          PROVE  toClient'[h] = toClient[h + 1] /\ h + 1 \in 1 .. (i + 1) - 1
      BY <1>3
    <3>3. ASSUME NEW h \in 1 .. (i + 1) - 1, h # 1
          PROVE  h - 1 \in 1 .. i - 1 /\ toClient[h] = toClient'[h - 1]
      <4>1. h - 1 \in 1 .. i - 1 /\ (h - 1) + 1 = h
        BY <3>3
      <4> QED
        BY <3>2, <4>1
    <3>4. Pos(toClient'[i], emitted) > Base(d) + 1
      <4>1. 1 \in 1 .. (i + 1) - 1
        OBVIOUS
      <4> QED
        BY <1>2, <1>8, <1>10, <2>7, <3>1, <4>1 DEF WireOrder
    <3>5. \A h \in 1 .. i - 1 : toClient'[h].call = d =>
             Pos(toClient'[h], emitted) < Pos(toClient'[i], emitted)
      BY <1>8, <3>1, <3>2 DEF WireOrder
    <3>6. PICK h \in 1 .. (i + 1) - 1 : /\ toClient[h].call = d
                                       /\ Pos(toClient[h], emitted) = Pos(toClient[i + 1], emitted) - 1
      BY <1>8, <3>1, <3>4 DEF WireOrder
    <3>7. CASE h = 1
      <4>1. Pos(toClient'[i], emitted) = Base(d) + 2
        BY <1>2, <1>5, <1>8, <2>7, <3>1, <3>6, <3>7
      <4> QED
        BY <3>4, <3>5, <4>1
    <3>8. CASE h # 1
      BY <3>1, <3>3, <3>4, <3>5, <3>6, <3>8
    <3> QED
      BY <3>7, <3>8
  <2>10. NothingLost(d)'
    <3> SUFFICES ASSUME up, srv[d] = "running"
                 PROVE  \/ emitted[d] = Base(d) + 1
                        \/ \E i \in 1 .. Len(toClient') :
                              toClient'[i].call = d /\ Pos(toClient'[i], emitted) = emitted[d]
      BY <1>1, <2>6 DEF NothingLost
    <3>1. emitted[d] # Base(d)
      <4>1. f.kind = "event" /\ f.n <= emitted[d] /\ f.n = Base(d) + 1
        BY <2>1, <2>7 DEF Pos
      <4> QED
        BY <1>t, <1>8, <4>1, PlaceTypes
    <3>2. PICK i \in 1 .. Len(toClient) :
             toClient[i].call = d /\ Pos(toClient[i], emitted) = emitted[d]
      BY <1>8, <3>1 DEF NothingLost
    <3>3. CASE i = 1
      BY <1>2, <2>7, <3>2, <3>3
    <3>4. CASE i # 1
      <4>1. i - 1 \in 1 .. Len(toClient') /\ (i - 1) + 1 = i
        BY <1>3, <3>4
      <4> QED
        BY <1>3, <3>2, <4>1
    <3> QED
      BY <3>3, <3>4
  <2> QED
    BY <2>8, <2>9, <2>10
<1> QED
  BY <1>9, <1>10

\* The frame readLoop holds goes behind those already in the channel.
LEMMA DeliverInOrder ==
  ASSUME ControlInv, StreamInv, DeliverFrame
  PROVE  InOrder'
<1>t. TypeOK /\ InOrder
  BY DEF ControlInv, StreamInv
<1>1. /\ UNCHANGED <<cst, seen, toClient, emitted, srv, up>>
      /\ rl.st = "deliver" /\ rl.to \in Call /\ rl.frame \in Frame /\ rl'.st # "deliver"
  BY <1>t, InFlightTypes DEF DeliverFrame
<1>2. /\ chan'[rl.to] = Append(chan[rl.to], rl.frame)
      /\ \A d \in Call : d # rl.to => chan'[d] = chan[d]
  BY <1>t, <1>1 DEF DeliverFrame, TypeOK
<1> SUFFICES ASSUME NEW d \in Call, Attending(d)'
             PROVE  ChannelOrder(d)' /\ WireOrder(d)' /\ NothingLost(d)'
  BY DEF InOrder
<1>3. Attending(d) /\ ChannelOrder(d) /\ WireOrder(d) /\ NothingLost(d)
  BY <1>t, <1>1 DEF Attending, InOrder
<1>4. CASE d # rl.to
  BY <1>t, <1>1, <1>2, <1>3, <1>4, QuietStep
<1>5. CASE d = rl.to
  <2>1. /\ Len(chan'[d]) = Len(chan[d]) + 1 /\ Len(chan[d]) \in Nat /\ Len(seen[d]) \in Nat
        /\ \A i \in 1 .. Len(chan[d]) : chan'[d][i] = chan[d][i]
        /\ chan'[d][Len(chan[d]) + 1] = rl.frame
    BY <1>t, <1>1, <1>2, <1>5, InFlightTypes, AppendElements
  <2>m. PICK m \in Nat, n \in Nat :
           m = Len(seen[d]) /\ n = Len(chan[d]) /\ n + 1 = Len(chan'[d])
    BY <2>1
  <2>2. Base(d)' = Base(d)
    <3>1. Base(d) = m + n + 1
      BY <1>1, <1>5, <2>m DEF Base
    <3>2. Base(d)' = m + (n + 1) + 0
      BY <1>1, <2>m DEF Base
    <3> QED
      BY <3>1, <3>2
  <2>3. ChannelOrder(d)'
    <3>1. \A i \in 1 .. Len(chan'[d]) : i \in 1 .. Len(chan[d]) \/ i = Len(chan[d]) + 1
      BY <2>1
    <3>2. Pos(rl.frame, emitted) = m + n + 1
      BY <1>1, <1>3, <1>5, <2>m DEF ChannelOrder
    <3>4. m + (n + 1) = m + n + 1
      OBVIOUS
    <3>3. \A i \in 1 .. Len(chan'[d]) : Pos(chan'[d][i], emitted) = m + i
      BY <1>3, <2>1, <2>m, <3>1, <3>2, <3>4 DEF ChannelOrder
    <3> QED
      BY <1>1, <2>m, <3>3 DEF ChannelOrder
  <2>4. WireOrder(d)' /\ NothingLost(d)'
    BY <1>1, <1>3, <2>2 DEF WireOrder, NothingLost
  <2> QED
    BY <2>3, <2>4
<1> QED
  BY <1>4, <1>5

\* do hands the first frame of its channel to onEvent, or ends.
LEMMA ReceiveInOrder ==
  ASSUME ControlInv, StreamInv, NEW c \in Call, Receive(c)
  PROVE  InOrder'
<1>t. TypeOK /\ InOrder
  BY DEF ControlInv, StreamInv
<1>1. /\ UNCHANGED <<toClient, emitted, srv, up, rl>> /\ cst[c] = "waiting"
      /\ \A d \in Call : d # c => /\ chan'[d] = chan[d] /\ seen'[d] = seen[d]
                                  /\ cst'[d] = cst[d]
      /\ chan'[c] = Tail(chan[c]) /\ chan[c] # <<>>
  BY <1>t DEF Receive, End, TypeOK
<1> SUFFICES ASSUME NEW d \in Call, Attending(d)'
             PROVE  ChannelOrder(d)' /\ WireOrder(d)' /\ NothingLost(d)'
  BY DEF InOrder
<1>2. Attending(d)
  BY <1>1 DEF Attending
<1>3. CASE d # c
  BY <1>t, <1>1, <1>2, <1>3, QuietStep
<1>4. CASE d = c
  <2>1. seen'[d] = Append(seen[d], Head(chan[d]).n) /\ Head(chan[d]).n \in 0 .. MaxEvents
    <3>1. Head(chan[d]) \in Frame
      BY <1>t, <1>1, <1>4, InFlightTypes, TailElements
    <3>2. Head(chan[d]).n \in 0 .. MaxEvents
      BY <3>1 DEF Frame
    <3>3. cst'[d] # "returning"
      BY DEF Attending
    <3> QED
      BY <1>t, <1>4, <3>2, <3>3 DEF Receive, End, TypeOK
  <2>2. /\ Len(seen'[d]) = Len(seen[d]) + 1 /\ Len(seen[d]) \in Nat
        /\ Len(chan'[d]) = Len(chan[d]) - 1 /\ Len(chan[d]) \in Nat
        /\ \A i \in 1 .. Len(chan'[d]) :
              chan'[d][i] = chan[d][i + 1] /\ i + 1 \in 1 .. Len(chan[d])
    <3>1. /\ chan[d] \in Seq(Frame) /\ chan[d] # <<>>
          /\ seen[d] \in Seq(0 .. MaxEvents) /\ Len(seen[d]) \in Nat /\ Len(chan[d]) \in Nat
      BY <1>t, <1>1, <1>4, InFlightTypes
    <3>2. Len(seen'[d]) = Len(seen[d]) + 1
      BY <2>1, <3>1, AppendElements
    <3>3. chan'[d] = Tail(chan[d])
      BY <1>1, <1>4
    <3>4. /\ Len(chan'[d]) = Len(chan[d]) - 1
          /\ \A i \in 1 .. Len(chan'[d]) :
                chan'[d][i] = chan[d][i + 1] /\ i + 1 \in 1 .. Len(chan[d])
      BY <3>1, <3>3, TailElements
    <3> QED
      BY <3>1, <3>2, <3>4
  <2>m. PICK m \in Nat, n \in Nat :
           /\ m = Len(seen[d]) /\ m + 1 = Len(seen'[d])
           /\ n = Len(chan[d]) /\ n - 1 = Len(chan'[d])
    BY <2>2
  <2>3. Base(d)' = Base(d)
    <3> DEFINE here == IF rl.st = "deliver" /\ rl.to = d THEN 1 ELSE 0
    <3>1. Base(d) = m + n + here /\ Base(d)' = (m + 1) + (n - 1) + here
      BY <1>1, <2>m DEF Base
    <3>2. here \in Nat
      OBVIOUS
    <3> HIDE DEF here
    <3> QED
      BY <3>1, <3>2
  <2>4. ChannelOrder(d) /\ WireOrder(d) /\ NothingLost(d)
    BY <1>t, <1>2 DEF InOrder
  <2>5. ChannelOrder(d)'
    <3>1. ASSUME NEW i \in 1 .. Len(chan'[d]) PROVE Pos(chan'[d][i], emitted) = (m + 1) + i
      <4>1. Pos(chan[d][i + 1], emitted) = m + (i + 1)
        BY <2>2, <2>4, <2>m DEF ChannelOrder
      <4>2. chan'[d][i] = chan[d][i + 1]
        BY <2>2
      <4>3. m + (i + 1) = (m + 1) + i
        <5>1. i \in 1 .. n - 1
          BY <2>m
        <5> QED
          BY <5>1
      <4> QED
        BY <4>1, <4>2, <4>3
    <3>2. (m + 1) + (n - 1) + 1 = m + n + 1
      OBVIOUS
    <3> QED
      BY <1>1, <2>4, <2>m, <3>1, <3>2 DEF ChannelOrder
  <2>6. WireOrder(d)' /\ NothingLost(d)'
    BY <1>1, <2>3, <2>4 DEF WireOrder, NothingLost
  <2> QED
    BY <2>5, <2>6
<1> QED
  BY <1>3, <1>4

\* A call that ended with the terminal frame: its handler was done when it sent
\* that frame, and stays so.
LEMMA AnsweredStep ==
  ControlInv /\ OneRequest /\ Replies /\ Answered /\ [Next]_vars => Answered'
<1> SUFFICES ASSUME ControlInv, OneRequest, Replies, Answered, [Next]_vars PROVE Answered'
  OBVIOUS
<1>t. TypeOK
  BY DEF ControlInv
<1>1. ASSUME NEW c \in Call, Receive(c) PROVE Answered'
  <2>1. /\ UNCHANGED srv
        /\ \A d \in Call : d # c => outcome'[d] = outcome[d] /\ cst'[d] = cst[d]
    BY <1>t, <1>1 DEF Receive, End, TypeOK
  <2>2. chan[c] # <<>> /\ chan[c] \in Seq(Frame)
    BY <1>t, <1>1, InFlightTypes DEF Receive
  <2>3. 1 \in 1 .. Len(chan[c]) /\ Head(chan[c]) = chan[c][1]
    BY <2>2, TailElements
  <2>4. Head(chan[c]).call = c /\ (Head(chan[c]).kind # "event" => srv[c] = "done")
    BY <2>3 DEF ControlInv, OwnFrames, Replies, IsReply
  <2>5. \/ outcome'[c] = outcome[c] /\ outcome[c] \notin {"res", "err"}
        \/ outcome'[c] = "aborted"
        \/ srv[c] = "done" /\ cst'[c] = "returning"
    BY <1>t, <1>1, <2>4 DEF Receive, End, TypeOK, Answered
  <2> QED
    BY <2>1, <2>5 DEF Answered
<1>2. ASSUME NEW c \in Call, \/ Begin(c) \/ SendRequest(c) \/ ReceiveClosed(c)
                             \/ ContextDone(c) \/ Reclaim(c)
      PROVE Answered'
  <2>1. /\ UNCHANGED srv
        /\ \A d \in Call : d # c => outcome'[d] = outcome[d] /\ cst'[d] = cst[d]
    BY <1>t, <1>2 DEF Begin, SendRequest, ReceiveClosed, ContextDone, Reclaim, End, TypeOK
  <2>2. \/ outcome'[c] \in {"sendfailed", "connclosed", "cancelled"}
        \/ outcome'[c] = outcome[c] /\ cst[c] \in {"idle", "sending"}
        \/ outcome'[c] = outcome[c] /\ cst'[c] = "returned"
    BY <1>t, <1>2 DEF Begin, SendRequest, ReceiveClosed, ContextDone, Reclaim, End, TypeOK
  <2> QED
    BY <2>1, <2>2 DEF Answered
<1>3. CASE ServeRequest
  <2>1. Head(toServer) = toServer[1] /\ 1 \in 1 .. Len(toServer)
    BY <1>t, <1>3, TailElements, InFlightTypes DEF ServeRequest
  <2>2. srv[Head(toServer).call] = "none"
    BY <2>1 DEF OneRequest
  <2>3. /\ UNCHANGED <<outcome, cst>>
        /\ \A d \in Call : srv[d] = "done" => srv'[d] = "done"
    BY <1>t, <1>3, <2>2 DEF ServeRequest, clientVars, TypeOK
  <2> QED
    BY <2>3 DEF Answered
<1>4. CASE (\E c \in Call : ServeOne(c)) \/ ReadLoop \/ Disconnect \/ UNCHANGED vars
  <2>1. /\ UNCHANGED <<outcome, cst>>
        /\ \A d \in Call : srv[d] = "done" => srv'[d] = "done"
    BY <1>t, <1>4 DEF ServeOne, Emit, Answer, ReadLoop, Lookup, DeliverFrame, CloseAll,
       Disconnect, vars, clientVars, TypeOK
  <2> QED
    BY <2>1 DEF Answered
<1> QED
  BY <1>1, <1>2, <1>3, <1>4 DEF Next, Do

\* Receive takes the reply that follows those onEvent has seen.
LEMMA EventsStep ==
  ControlInv /\ Replies /\ InOrder /\ Answered /\ EventsComplete /\ [Next]_vars
    => EventsComplete'
<1> SUFFICES ASSUME ControlInv, Replies, InOrder, Answered, EventsComplete, [Next]_vars
             PROVE  EventsComplete'
  OBVIOUS
<1>t. TypeOK
  BY DEF ControlInv
<1>1. ASSUME NEW c \in Call, Receive(c) PROVE EventsComplete'
  <2> DEFINE f == Head(chan[c])
  <2>1. /\ UNCHANGED emitted
        /\ \A d \in Call : d # c => outcome'[d] = outcome[d] /\ seen'[d] = seen[d]
    BY <1>t, <1>1 DEF Receive, End, TypeOK
  <2>2. /\ cst[c] = "waiting" /\ chan[c] # <<>> /\ chan[c] \in Seq(Frame)
        /\ seen[c] \in Seq(0 .. MaxEvents) /\ Len(seen[c]) \in Nat
    BY <1>t, <1>1, InFlightTypes DEF Receive
  <2>3. 1 \in 1 .. Len(chan[c]) /\ f = chan[c][1] /\ f \in Frame
    BY <2>2, TailElements
  <2>4. f.call = c /\ f.n \in 0 .. MaxEvents
    BY <2>3 DEF ControlInv, OwnFrames, Frame
  <2>5. Pos(f, emitted) = Len(seen[c]) + 1
    BY <2>2, <2>3 DEF InOrder, Attending, ChannelOrder
  <2>6. outcome[c] \notin {"res", "err"}
    BY <2>2 DEF Answered
  <2> HIDE DEF f
  <2>7. CASE f.kind = "event" /\ seen'[c] = Append(seen[c], f.n)
    <3>1. f.n = Len(seen[c]) + 1
      BY <2>5, <2>7 DEF Pos
    <3>2. /\ Len(seen'[c]) = Len(seen[c]) + 1
          /\ \A i \in 1 .. Len(seen[c]) : seen'[c][i] = seen[c][i]
          /\ seen'[c][Len(seen[c]) + 1] = f.n
      BY <2>2, <2>4, <2>7, AppendElements
    <3>3. \A i \in 1 .. Len(seen'[c]) : seen'[c][i] = i
      <4>1. \A i \in 1 .. Len(seen'[c]) : i \in 1 .. Len(seen[c]) \/ i = Len(seen[c]) + 1
        BY <2>2, <3>2
      <4>2. \A i \in 1 .. Len(seen[c]) : seen[c][i] = i
        BY DEF EventsComplete
      <4> QED
        BY <3>1, <3>2, <4>1, <4>2
    <3>4. outcome'[c] = outcome[c]
      BY <1>t, <1>1, <2>2, <3>2 DEF Receive, TypeOK
    <3> QED
      BY <2>1, <2>6, <3>3, <3>4 DEF EventsComplete
  <2>8. CASE seen'[c] = seen[c] /\ outcome'[c] = "aborted"
    BY <2>1, <2>8 DEF EventsComplete
  <2>9. CASE seen'[c] = seen[c] /\ f.kind # "event"
    <3>1. emitted[c] = Len(seen[c])
      <4>1. emitted[c] \in Nat
        BY <1>t DEF TypeOK
      <4> QED
        BY <2>2, <2>4, <2>5, <2>9, <4>1 DEF Pos
    <3> QED
      BY <2>1, <2>9, <3>1 DEF EventsComplete
  <2> QED
    <3>1. \/ f.kind = "event" /\ seen'[c] = Append(seen[c], f.n)
          \/ seen'[c] = seen[c] /\ outcome'[c] = "aborted"
          \/ seen'[c] = seen[c] /\ f.kind # "event"
      BY <1>t, <1>1 DEF Receive, End, TypeOK, f
    <3> QED
      BY <2>7, <2>8, <2>9, <3>1
<1>2. ASSUME NEW c \in Call, Emit(c) PROVE EventsComplete'
  <2>1. /\ UNCHANGED <<outcome, seen>> /\ srv[c] = "running"
        /\ \A d \in Call : d # c => emitted'[d] = emitted[d]
    BY <1>t, <1>2 DEF Emit, clientVars, TypeOK
  <2> QED
    BY <2>1 DEF Answered, EventsComplete
<1>3. ASSUME NEW c \in Call, \/ Begin(c) \/ SendRequest(c) \/ ReceiveClosed(c)
                             \/ ContextDone(c) \/ Reclaim(c)
      PROVE EventsComplete'
  <2>1. /\ UNCHANGED <<seen, emitted>>
        /\ \A d \in Call : outcome'[d] \in {"res", "err"} => outcome[d] = outcome'[d]
    BY <1>t, <1>3 DEF Begin, SendRequest, ReceiveClosed, ContextDone, Reclaim, End, TypeOK
  <2> QED
    BY <2>1 DEF EventsComplete
<1>4. CASE (\E c \in Call : Answer(c)) \/ ServeRequest \/ ReadLoop \/ Disconnect \/ UNCHANGED vars
  <2>1. UNCHANGED <<outcome, seen, emitted>>
    BY <1>4 DEF Answer, ServeRequest, ReadLoop, Lookup, DeliverFrame, CloseAll, Disconnect,
       vars, clientVars
  <2> QED
    BY <2>1 DEF EventsComplete
<1> QED
  BY <1>1, <1>2, <1>3, <1>4 DEF Next, Do, ServeOne

\* A handler's reply goes behind those it has sent, and continues them.
LEMMA ServeInOrder ==
  ASSUME ControlInv, StreamInv, NEW c \in Call, ServeOne(c)
  PROVE  InOrder'
<1>t. TypeOK /\ Replies /\ InOrder
  BY DEF ControlInv, StreamInv
<1>1. /\ UNCHANGED <<cst, seen, chan, rl, up>> /\ srv[c] = "running"
      /\ \A d \in Call : d # c => srv'[d] = srv[d] /\ emitted'[d] = emitted[d]
      /\ \/ Emit(c) /\ emitted'[c] = emitted[c] + 1
         \/ Answer(c) /\ emitted' = emitted /\ srv'[c] = "done"
  BY <1>t DEF ServeOne, Emit, Answer, clientVars, TypeOK
<1>2. \A d \in Call : Base(d)' = Base(d) /\ Base(d) \in Nat /\ emitted[d] \in Nat
  BY <1>t, <1>1, PlaceTypes DEF Base
\* No reply on the way changes its place.
<1>3. ASSUME NEW f \in Frame, IsReply(f) PROVE Pos(f, emitted') = Pos(f, emitted)
  <2>1. f.call \in Call /\ (f.call = c => f.kind = "event")
    BY <1>1, <1>3 DEF IsReply, Frame
  <2> QED
    BY <1>1, <2>1 DEF Pos
<1>4. \A i \in 1 .. Len(toClient) :
         /\ Pos(toClient[i], emitted') = Pos(toClient[i], emitted)
         /\ Pos(toClient[i], emitted) \in Nat
  BY <1>t, <1>3, PlaceTypes, InFlightTypes DEF Replies
<1> SUFFICES ASSUME NEW d \in Call, Attending(d)'
             PROVE  ChannelOrder(d)' /\ WireOrder(d)' /\ NothingLost(d)'
  BY DEF InOrder
<1>5. ChannelOrder(d) /\ WireOrder(d) /\ NothingLost(d)
  BY <1>t, <1>1 DEF Attending, InOrder
<1>6. ChannelOrder(d)'
  <2>1. \A i \in 1 .. Len(chan[d]) : Pos(chan[d][i], emitted') = Pos(chan[d][i], emitted)
    BY <1>t, <1>3, InFlightTypes DEF Replies
  <2>2. rl.st = "deliver" => Pos(rl.frame, emitted') = Pos(rl.frame, emitted)
    BY <1>t, <1>3, InFlightTypes DEF Replies
  <2> QED
    BY <1>1, <1>5, <2>1, <2>2 DEF ChannelOrder
<1>7. CASE ~up /\ toClient' = toClient
  <2>1. WireOrder(d)'
    BY <1>2, <1>4, <1>5, <1>7 DEF WireOrder
  <2>2. NothingLost(d)'
    BY <1>1, <1>7 DEF NothingLost
  <2> QED
    BY <1>6, <2>1, <2>2
<1>8. ASSUME NEW f \in Frame, up, toClient' = Append(toClient, f), f.call = c,
             \/ Emit(c) /\ f.kind = "event" /\ f.n = emitted[c] + 1
             \/ Answer(c) /\ f.kind \in {"res", "err"}
      PROVE  WireOrder(d)' /\ NothingLost(d)'
  <2>m. PICK m \in Nat : m = Len(toClient)
    BY <1>t, InFlightTypes
  <2>1. /\ Len(toClient') = m + 1 /\ toClient'[m + 1] = f
        /\ \A i \in 1 .. m : toClient'[i] = toClient[i]
    BY <1>t, <1>8, <2>m, InFlightTypes, AppendElements
  <2>2. Pos(f, emitted') = emitted[c] + 1
    <3>1. CASE f.kind = "event" /\ f.n = emitted[c] + 1
      BY <3>1 DEF Pos
    <3>2. CASE Answer(c) /\ f.kind \in {"res", "err"}
      <4>1. emitted' = emitted
        BY <3>2 DEF Answer
      <4> QED
        BY <1>8, <3>2, <4>1 DEF Pos
    <3> QED
      BY <1>8, <3>1, <3>2
  <2>3. \A i \in 1 .. m : Pos(toClient'[i], emitted') = Pos(toClient[i], emitted)
    BY <1>4, <2>m, <2>1
  \* The replies already on the connection keep their order.
  <2>4. ASSUME NEW i \in 1 .. m, toClient'[i].call = d
        PROVE  /\ Pos(toClient'[i], emitted') > Base(d)
               /\ \A h \in 1 .. i - 1 : toClient'[h].call = d =>
                     Pos(toClient'[h], emitted') < Pos(toClient'[i], emitted')
               /\ \/ Pos(toClient'[i], emitted') = Base(d) + 1
                  \/ \E h \in 1 .. i - 1 :
                        /\ toClient'[h].call = d
                        /\ Pos(toClient'[h], emitted') = Pos(toClient'[i], emitted') - 1
    <3>1. \A h \in 1 .. i - 1 : h \in 1 .. m
      BY <2>m
    <3>2. i \in 1 .. Len(toClient) /\ toClient[i].call = d
      BY <2>m, <2>1, <2>4
    <3>3. /\ Pos(toClient[i], emitted) > Base(d)
          /\ \A h \in 1 .. i - 1 : toClient[h].call = d =>
                Pos(toClient[h], emitted) < Pos(toClient[i], emitted)
          /\ \/ Pos(toClient[i], emitted) = Base(d) + 1
             \/ \E h \in 1 .. i - 1 :
                   /\ toClient[h].call = d
                   /\ Pos(toClient[h], emitted) = Pos(toClient[i], emitted) - 1
      BY <1>5, <3>2 DEF WireOrder
    <3> QED
      BY <2>1, <2>3, <3>1, <3>3
  \* The new one continues them.
  <2>5. ASSUME c = d
        PROVE  /\ emitted[c] + 1 > Base(d)
               /\ \A h \in 1 .. m : toClient[h].call = d =>
                     Pos(toClient[h], emitted) < emitted[c] + 1
               /\ \/ emitted[c] + 1 = Base(d) + 1
                  \/ \E h \in 1 .. m :
                        toClient[h].call = d /\ Pos(toClient[h], emitted) = (emitted[c] + 1) - 1
    <3>1. ASSUME NEW h \in 1 .. m, toClient[h].call = d
          PROVE  Pos(toClient[h], emitted) \in Nat /\ Pos(toClient[h], emitted) <= emitted[c]
      <4>1. h \in 1 .. Len(toClient) /\ toClient[h] \in Frame
        BY <1>t, <2>m, <3>1, InFlightTypes
      <4>2. toClient[h].kind = "event" /\ toClient[h].n \in 1 .. emitted[c]
        BY <1>t, <1>1, <2>5, <3>1, <4>1 DEF Replies, IsReply
      <4> QED
        BY <1>2, <2>5, <4>2 DEF Pos
    <3>2. \/ emitted[c] = Base(d)
          \/ \E h \in 1 .. m : toClient[h].call = d /\ Pos(toClient[h], emitted) = emitted[c]
      BY <1>1, <1>5, <1>8, <2>5, <2>m DEF NothingLost
    <3>3. emitted[c] + 1 > Base(d)
      <4>1. ASSUME NEW h \in 1 .. m, toClient[h].call = d, Pos(toClient[h], emitted) = emitted[c]
            PROVE  emitted[c] > Base(d)
        BY <1>5, <2>m, <4>1 DEF WireOrder
      <4> QED
        BY <1>2, <3>2, <4>1
    <3>4. \A h \in 1 .. m : toClient[h].call = d => Pos(toClient[h], emitted) < emitted[c] + 1
      BY <1>2, <3>1
    <3>5. emitted[c] \in Nat /\ (emitted[c] + 1) - 1 = emitted[c]
      BY <1>2
    <3> QED
      BY <3>2, <3>3, <3>4, <3>5
  <2>6. WireOrder(d)'
    <3>1. ASSUME NEW i \in 1 .. m + 1, toClient'[i].call = d
          PROVE  /\ Pos(toClient'[i], emitted') > Base(d)
                 /\ \A h \in 1 .. i - 1 : toClient'[h].call = d =>
                       Pos(toClient'[h], emitted') < Pos(toClient'[i], emitted')
                 /\ \/ Pos(toClient'[i], emitted') = Base(d) + 1
                    \/ \E h \in 1 .. i - 1 :
                          /\ toClient'[h].call = d
                          /\ Pos(toClient'[h], emitted') = Pos(toClient'[i], emitted') - 1
      <4>1. CASE i \in 1 .. m
        BY <2>4, <3>1, <4>1
      <4>2. CASE i = m + 1
        <5>1. toClient'[i] = f /\ c = d /\ 1 .. i - 1 = 1 .. m
          BY <1>8, <2>1, <3>1, <4>2
        <5> QED
          BY <2>1, <2>2, <2>3, <2>5, <5>1
      <4> QED
        BY <4>1, <4>2
    <3> QED
      BY <1>2, <2>1, <3>1 DEF WireOrder
  <2>7. NothingLost(d)'
    <3> SUFFICES ASSUME srv'[d] = "running"
                 PROVE  \/ emitted'[d] = Base(d)
                        \/ \E i \in 1 .. m + 1 : /\ toClient'[i].call = d
                                                 /\ Pos(toClient'[i], emitted') = emitted'[d]
      BY <1>2, <2>1 DEF NothingLost
    <3>1. CASE d = c
      <4>1. Emit(c) /\ emitted'[c] = emitted[c] + 1 /\ m + 1 \in 1 .. m + 1
        BY <1>1, <3>1
      <4> QED
        BY <1>8, <2>1, <2>2, <3>1, <4>1
    <3>2. CASE d # c
      <4>1. \/ emitted[d] = Base(d)
            \/ \E i \in 1 .. m : toClient[i].call = d /\ Pos(toClient[i], emitted) = emitted[d]
        BY <1>1, <1>5, <1>8, <2>m, <3>2 DEF NothingLost
      <4>2. emitted'[d] = emitted[d] /\ \A i \in 1 .. m : i \in 1 .. m + 1
        BY <1>1, <3>2
      <4> QED
        BY <2>1, <2>3, <4>1, <4>2
    <3> QED
      BY <3>1, <3>2
  <2> QED
    BY <2>6, <2>7
<1> QED
  <2>1. \/ ~up /\ toClient' = toClient
        \/ \E f \in Frame :
              /\ up /\ toClient' = Append(toClient, f) /\ f.call = c
              /\ \/ Emit(c) /\ f.kind = "event" /\ f.n = emitted[c] + 1
                 \/ Answer(c) /\ f.kind \in {"res", "err"}
    BY ReplySent
  <2> QED
    BY <1>6, <1>7, <1>8, <2>1

LEMMA InOrderStep == ControlInv /\ StreamInv /\ [Next]_vars => InOrder'
<1> SUFFICES ASSUME ControlInv, StreamInv, [Next]_vars PROVE InOrder'
  OBVIOUS
<1>t. TypeOK /\ OneRequest /\ Replies /\ InOrder
  BY DEF ControlInv, StreamInv
<1>1. CASE ServeRequest
  <2> SUFFICES ASSUME NEW d \in Call, Attending(d)'
               PROVE  ChannelOrder(d)' /\ WireOrder(d)' /\ NothingLost(d)'
    BY DEF InOrder
  <2>1. /\ UNCHANGED <<cst, seen, chan, emitted, toClient, up, rl>>
        /\ srv'[d] \in {srv[d], "running"}
    BY <1>t, <1>1 DEF ServeRequest, clientVars, TypeOK
  <2>2. Attending(d)
    BY <2>1 DEF Attending
  <2>3. CASE srv'[d] = srv[d]
    BY <1>t, <2>1, <2>2, <2>3, QuietStep
  <2>4. CASE srv'[d] # srv[d]
    <3>1. Head(toServer) = toServer[1] /\ 1 \in 1 .. Len(toServer)
      BY <1>t, <1>1, TailElements, InFlightTypes DEF ServeRequest
    <3>2. srv[d] = "none"
      BY <1>t, <1>1, <2>4, <3>1 DEF ServeRequest, TypeOK, OneRequest
    <3>3. emitted[d] = 0 /\ Base(d) = 0
      BY <1>t, <3>2, NothingBeforeService
    <3>4. Base(d)' = Base(d)
      BY <2>1 DEF Base
    <3>5. NothingLost(d)'
      BY <2>1, <3>3, <3>4 DEF NothingLost
    <3>6. ChannelOrder(d) /\ WireOrder(d)
      BY <1>t, <2>2 DEF InOrder
    <3>7. ChannelOrder(d)'
      BY <2>1, <3>6 DEF ChannelOrder
    <3>8. WireOrder(d)'
      BY <2>1, <3>4, <3>6 DEF WireOrder
    <3> QED
      BY <3>5, <3>7, <3>8
  <2> QED
    BY <2>3, <2>4
<1>2. CASE \/ \E c \in Call : \/ Begin(c) \/ SendRequest(c) \/ ReceiveClosed(c)
                              \/ ContextDone(c) \/ Reclaim(c)
           \/ CloseAll \/ Disconnect \/ UNCHANGED vars
  <2>1. /\ UNCHANGED <<seen, chan, emitted, toClient, srv>> /\ (up' => up)
        /\ rl' = rl \/ (rl.st = "recv" /\ rl'.st = "closed")
    <3>1. CASE CloseAll
      <4>1. rl' = [st |-> "closed"]
        BY <3>1 DEF CloseAll
      <4>2. rl'.st = "closed"
        BY <4>1
      <4> QED
        BY <3>1, <4>2 DEF CloseAll
    <3>2. ASSUME NEW c \in Call, \/ Begin(c) \/ SendRequest(c) \/ ReceiveClosed(c)
                                 \/ ContextDone(c) \/ Reclaim(c)
          PROVE  UNCHANGED <<seen, chan, emitted, toClient, srv, up, rl>>
      BY <3>2 DEF Begin, SendRequest, ReceiveClosed, ContextDone, Reclaim
    <3>3. CASE Disconnect \/ UNCHANGED vars
      BY <3>3 DEF Disconnect, vars, clientVars
    <3> QED
      BY <1>2, <3>1, <3>2, <3>3
  <2>2. \A d \in Call : Attending(d)' => Attending(d)
    BY <1>t, <1>2 DEF Begin, SendRequest, ReceiveClosed, ContextDone, Reclaim, End, CloseAll,
       Disconnect, vars, clientVars, TypeOK, Attending
  <2> SUFFICES ASSUME NEW d \in Call, Attending(d)'
               PROVE  ChannelOrder(d)' /\ WireOrder(d)' /\ NothingLost(d)'
    BY DEF InOrder
  <2> QED
    BY <1>t, <2>1, <2>2, QuietStep
<1>3. CASE Lookup
  BY <1>3, LookupInOrder
<1>4. CASE DeliverFrame
  BY <1>4, DeliverInOrder
<1>5. ASSUME NEW c \in Call, Receive(c) \/ ServeOne(c) PROVE InOrder'
  BY <1>5, ReceiveInOrder, ServeInOrder
<1> QED
  BY <1>1, <1>2, <1>3, <1>4, <1>5 DEF Next, Do, ReadLoop

\* The replies to a call stay complete and in order wherever they are.
THEOREM StreamInvariant == Spec => []StreamInv
<1>1. ControlInv /\ StreamInv /\ [Next]_vars => StreamInv'
  BY FiledStep, OneRequestStep, RepliesStep, InOrderStep, AnsweredStep, EventsStep
     DEF StreamInv
<1> QED
  BY <1>1, StreamInit, ControlInvariant, PTL DEF Spec

\* Streaming: onEvent sees the events of its handler in order and without a gap, and a
\* call that ends with the terminal frame has seen every one of them.
THEOREM StreamsComplete == Spec => []EventsComplete
<1>1. StreamInv => EventsComplete
  BY DEF StreamInv
<1> QED
  BY <1>1, StreamInvariant, PTL
=============================================================================
