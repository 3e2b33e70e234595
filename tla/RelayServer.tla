---------------------------- MODULE RelayServer ----------------------------
(***************************************************************************)
(* The relay as it is deployed: the WebSocket handlers of                  *)
(* internal/relay/server.go around the coordinator of module Relay, and the *)
(* client helpers of internal/relay/client.go at the other end of each      *)
(* connection.                                                             *)
(*                                                                         *)
(* A party p owns one connection.  On the server it is a handler goroutine  *)
(* (pc), a bounded channel `send` drained by the write pump (sendq), and a  *)
(* `done` channel (closed).  toServer and toClient are the two directions   *)
(* of the TCP stream.  The client reads control frames until it has a Link, *)
(* then sends and receives binary frames; it may hang up at any moment.     *)
(*                                                                         *)
(* A text frame is known by its op; a binary frame, opaque to the relay, by *)
(* its sender and its place among the frames that party sent.               *)
(***************************************************************************)
EXTENDS Relay, FiniteSets

CONSTANTS SendBuffer,   \* capacity of peer.send (64)
          NetBuffer,    \* frames a TCP direction holds before a write blocks
          MaxFrames     \* bound: binary frames each client sends

ASSUME BufferAssumption ==
    SendBuffer \in Nat \ {0} /\ NetBuffer \in Nat \ {0} /\ MaxFrames \in Nat
ASSUME RolesAssumption == Host \cap Guest = {}

VARIABLES
    pc,         \* pc[p]: where the handler goroutine of p's connection is
    timer,      \* timer[h]: ticks since h entered its select, up to TTL
    sendq,      \* sendq[p]: peer.send
    closed,     \* closed[p]: peer.done is closed and so is the connection
    toServer,   \* written by p's client, not yet read by its handler
    toClient,   \* written by p's write pump, not yet read by its client
    cl,         \* cl[p]: state of p's client
    sent,       \* sent[p]: binary frames p's client has sent
    rcvd        \* rcvd[p]: what Recv returned to p's client, in order

serverVars == <<pc, timer, sendq, closed, toServer, toClient, cl, sent, rcvd>>
vars == <<relayVars, serverVars>>

Party == Host \cup Guest
Op == {"register", "join", "registered", "paired", "joined", "error"}
Text(op) == [op |-> op, from |-> None, n |-> 0]
Binary(p, n) == [op |-> "binary", from |-> p, n |-> n]
BinaryFrames == { Binary(p, n) : p \in Party, n \in 1 .. MaxFrames }
Frame == { Text(op) : op \in Op } \cup BinaryFrames
IsText(f) == f.op # "binary"

HandlerState == {"none", "control", "registering", "announcing", "waiting", "pairing", "expired",
                 "joining", "accepted", "refused", "forward", "returned"}
ClientState == {"idle", "dialed", "registered", "linked", "gone"}

ServerTypeOK ==
    /\ TypeOK
    /\ pc \in [Party -> HandlerState]
    /\ timer \in [Host -> 0 .. TTL]
    /\ sendq \in [Party -> Seq(Frame)]
    /\ closed \in [Party -> BOOLEAN]
    /\ toServer \in [Party -> Seq(Frame)]
    /\ toClient \in [Party -> Seq(Frame)]
    /\ cl \in [Party -> ClientState]
    /\ sent \in [Party -> 0 .. MaxFrames]
    /\ rcvd \in [Party -> Seq(BinaryFrames)]
    /\ \A p \in Party : Len(sendq[p]) <= SendBuffer /\ Len(toClient[p]) <= NetBuffer

ServerInit ==
    /\ Init
    /\ pc = [p \in Party |-> "none"]
    /\ timer = [h \in Host |-> 0]
    /\ sendq = [p \in Party |-> <<>>]
    /\ closed = [p \in Party |-> FALSE]
    /\ toServer = [p \in Party |-> <<>>]
    /\ toClient = [p \in Party |-> <<>>]
    /\ cl = [p \in Party |-> "idle"]
    /\ sent = [p \in Party |-> 0]
    /\ rcvd = [p \in Party |-> <<>>]

\* The other end of p's Session, once p's handler holds one.
Partner(p) == IF p \in Host THEN session[p] ELSE picked[p]

-----------------------------------------------------------------------------
(* Handlers.                                                               *)

Goto(p, next) == pc' = [pc EXCEPT ![p] = next]

\* The handler returns: `defer p.close()` closes done and the connection.
Return(p) ==
    /\ Goto(p, "returned")
    /\ closed' = [closed EXCEPT ![p] = TRUE]

\* Mutant: sendControl appends to an unbounded queue.
SendControlUnbounded(p, op) == sendq' = [sendq EXCEPT ![p] = Append(@, Text(op))]

\* Mutant: sendControl without the case of the closed peer.
SendControlBlocks(p, op) ==
    Len(sendq[p]) < SendBuffer /\ sendq' = [sendq EXCEPT ![p] = Append(@, Text(op))]

\* sendControl: blocks while the channel is full, gives up once done is
\* closed (with both ready the select picks either).
SendControl(p, op) ==
    \/ Len(sendq[p]) < SendBuffer /\ sendq' = [sendq EXCEPT ![p] = Append(@, Text(op))]
    \/ closed[p] /\ UNCHANGED sendq

\* ServeHTTP and readControl: a first text frame selects the role.
ReadControl(p) ==
    /\ pc[p] = "control" /\ toServer[p] # <<>> /\ ~closed[p]
    /\ toServer' = [toServer EXCEPT ![p] = Tail(@)]
    /\ Goto(p, CASE ~IsText(Head(toServer[p]))   -> "control"
                 [] Head(toServer[p]).op = "register" -> "registering"
                 [] OTHER                             -> "joining")
    /\ UNCHANGED <<relayVars, timer, sendq, closed, toClient, cl, sent, rcvd>>

\* A read on a connection that either end has closed fails; frames the client
\* wrote before it hung up are still read first.
ReadFails(p) ==
    /\ pc[p] \in {"control", "forward"}
    /\ closed[p] \/ (cl[p] = "gone" /\ toServer[p] = <<>>)
    /\ Return(p)
    /\ UNCHANGED <<relayVars, timer, sendq, toServer, toClient, cl, sent, rcvd>>

\* handleHost up to its select: Register ...
HandleHostRegister(h) ==
    /\ pc[h] = "registering"
    /\ \/ \E c \in Code : Register(h, c)
          /\ Goto(h, "announcing") /\ UNCHANGED <<sendq, closed>>
       \/ SendControl(h, "error") /\ Return(h) /\ UNCHANGED relayVars
    /\ UNCHANGED <<timer, toServer, toClient, cl, sent, rcvd>>

\* ... then the code is announced and the timer started.
AnnounceCode(h) ==
    /\ pc[h] = "announcing"
    /\ SendControl(h, "registered")
    /\ Goto(h, "waiting")
    /\ UNCHANGED <<relayVars, timer, closed, toServer, toClient, cl, sent, rcvd>>

\* The select: a guest joined ...
HandleHostPaired(h) ==
    /\ pc[h] = "waiting"
    /\ TakeSession(h)
    /\ Goto(h, "pairing")
    /\ UNCHANGED <<timer, sendq, closed, toServer, toClient, cl, sent, rcvd>>

\* Mutant: the timer is compared off by one, so it never fires.
HandleHostTimeoutLate(h) ==
    /\ pc[h] = "waiting" /\ timer[h] > TTL
    /\ Cancel(h)
    /\ Goto(h, "expired")
    /\ UNCHANGED <<timer, sendq, closed, toServer, toClient, cl, sent, rcvd>>

\* ... or the code's lifetime passed.  A session that is in the channel has
\* already woken the parked select.
HandleHostTimeout(h) ==
    /\ pc[h] = "waiting" /\ timer[h] = TTL /\ paired[h] = <<>>
    /\ Cancel(h)
    /\ Goto(h, "expired")
    /\ UNCHANGED <<timer, sendq, closed, toServer, toClient, cl, sent, rcvd>>

HandleHostExpired(h) ==
    /\ pc[h] = "expired"
    /\ SendControl(h, "error")
    /\ Return(h)
    /\ UNCHANGED <<relayVars, timer, toServer, toClient, cl, sent, rcvd>>

AnnouncePaired(h) ==
    /\ pc[h] = "pairing"
    /\ SendControl(h, "paired")
    /\ Goto(h, "forward")
    /\ UNCHANGED <<relayVars, timer, closed, toServer, toClient, cl, sent, rcvd>>

\* handleGuest: the two halves of Join, then the answer.
HandleGuestLookup(g) ==
    /\ pc[g] = "joining" /\ join[g] = "idle"
    /\ \E c \in Code : JoinLookup(g, c)
    /\ UNCHANGED serverVars

\* Mutant: the error of Join's generator is ignored.
HandleGuestDeliverUnchecked(g) ==
    /\ pc[g] = "joining"
    /\ JoinDeliver(g) \/ JoinGenFails(g)
    /\ Goto(g, "accepted")
    /\ UNCHANGED <<timer, sendq, closed, toServer, toClient, cl, sent, rcvd>>

HandleGuestDeliver(g) ==
    /\ pc[g] = "joining"
    /\ \/ JoinDeliver(g) /\ Goto(g, "accepted")
       \/ JoinGenFails(g) /\ Goto(g, "refused")
    /\ UNCHANGED <<timer, sendq, closed, toServer, toClient, cl, sent, rcvd>>

AnnounceJoined(g) ==
    /\ pc[g] = "accepted"
    /\ SendControl(g, "joined")
    /\ Goto(g, "forward")
    /\ UNCHANGED <<relayVars, timer, closed, toServer, toClient, cl, sent, rcvd>>

RefuseGuest(g) ==
    /\ pc[g] = "refused" \/ (pc[g] = "joining" /\ join[g] = "failed")
    /\ SendControl(g, "error")
    /\ Return(g)
    /\ UNCHANGED <<relayVars, timer, toServer, toClient, cl, sent, rcvd>>

\* Mutant: FromHost delivers to the host and FromGuest to the guest.
ForwardToSelf(p) ==
    /\ pc[p] = "forward" /\ toServer[p] # <<>> /\ ~closed[p]
    /\ toServer' = [toServer EXCEPT ![p] = Tail(@)]
    /\ ~IsText(Head(toServer[p])) /\ Len(sendq[p]) < SendBuffer
    /\ sendq' = [sendq EXCEPT ![p] = Append(@, Head(toServer[p]))]
    /\ UNCHANGED <<relayVars, pc, timer, closed, toClient, cl, sent, rcvd>>

\* forwardLoop: one frame read from p's connection is skipped if it is text
\* and else handed to Deliver of the partner, which queues it, ...
ForwardQueued(p) ==
    /\ pc[p] = "forward" /\ toServer[p] # <<>> /\ ~closed[p]
    /\ toServer' = [toServer EXCEPT ![p] = Tail(@)]
    /\ LET f == Head(toServer[p])
           q == Partner(p)
       IN IF IsText(f)
          THEN UNCHANGED sendq
          ELSE /\ Len(sendq[q]) < SendBuffer
               /\ sendq' = [sendq EXCEPT ![q] = Append(@, f)]
    /\ UNCHANGED <<relayVars, pc, timer, closed, toClient, cl, sent, rcvd>>

\* Mutant: Deliver is a plain send on the partner's channel, which cannot fail.
DeliverNeverFails(p) == pc[p] = "forward" /\ FALSE /\ UNCHANGED vars

\* ... or fails because the partner is closed, or because its buffer is full,
\* in which case the partner is dropped.  Either way this side returns.
ForwardFails(p) ==
    /\ pc[p] = "forward" /\ toServer[p] # <<>> /\ ~closed[p]
    /\ ~IsText(Head(toServer[p]))
    /\ LET q == Partner(p)
       IN /\ closed[q] \/ Len(sendq[q]) = SendBuffer
          /\ closed' = [closed EXCEPT ![p] = TRUE, ![q] = TRUE]
    /\ Goto(p, "returned")
    /\ toServer' = [toServer EXCEPT ![p] = Tail(@)]
    /\ UNCHANGED <<relayVars, timer, sendq, toClient, cl, sent, rcvd>>

\* writePump: a frame reaches the connection ...
WritePump(p) ==
    /\ sendq[p] # <<>> /\ ~closed[p] /\ Len(toClient[p]) < NetBuffer
    /\ sendq' = [sendq EXCEPT ![p] = Tail(@)]
    /\ toClient' = [toClient EXCEPT ![p] = IF cl[p] = "gone" THEN @ ELSE Append(@, Head(sendq[p]))]
    /\ UNCHANGED <<relayVars, pc, timer, closed, toServer, cl, sent, rcvd>>

\* ... or the write fails, because the client hung up or reads nothing for
\* writeWait.
WriteFails(p) ==
    /\ sendq[p] # <<>> /\ ~closed[p]
    /\ cl[p] = "gone" \/ Len(toClient[p]) = NetBuffer
    /\ closed' = [closed EXCEPT ![p] = TRUE]
    /\ sendq' = [sendq EXCEPT ![p] = Tail(@)]
    /\ UNCHANGED <<relayVars, pc, timer, toServer, toClient, cl, sent, rcvd>>

\* The relay's clock: registrations age, and so do the timers of the selects.
ServerTick ==
    /\ Tick \/ (UNCHANGED relayVars /\ \A h \in Host : code[h] = None \/ age[h] > TTL)
    /\ timer' = [h \in Host |->
                   IF pc[h] = "waiting" /\ timer[h] < TTL THEN timer[h] + 1 ELSE timer[h]]
    /\ <<age, timer>>' # <<age, timer>>
    /\ UNCHANGED <<pc, sendq, closed, toServer, toClient, cl, sent, rcvd>>

-----------------------------------------------------------------------------
(* Clients.                                                                *)

\* RegisterAsHost and JoinAsGuest up to the first read.
Dial(p) ==
    /\ cl[p] = "idle"
    /\ cl' = [cl EXCEPT ![p] = "dialed"]
    /\ toServer' = [toServer EXCEPT ![p] = <<Text(IF p \in Host THEN "register" ELSE "join")>>]
    /\ Goto(p, "control")
    /\ UNCHANGED <<relayVars, timer, sendq, closed, toClient, sent, rcvd>>

\* The op the client waits for, and the state it brings.
Awaited(p) ==
    CASE p \in Guest                    -> <<"joined", "linked">>
      [] p \in Host /\ cl[p] = "dialed" -> <<"registered", "registered">>
      [] OTHER                          -> <<"paired", "linked">>

\* readCtrl: binary frames are skipped; any other op than the awaited one
\* closes the connection.
ReadCtrl(p) ==
    /\ cl[p] \in {"dialed", "registered"} /\ toClient[p] # <<>>
    /\ LET f == Head(toClient[p])
           bad == IsText(f) /\ f.op # Awaited(p)[1]
       IN /\ toClient' = [toClient EXCEPT ![p] = IF bad THEN <<>> ELSE Tail(@)]
          /\ cl' = [cl EXCEPT ![p] = CASE bad        -> "gone"
                                       [] ~IsText(f) -> @
                                       [] OTHER      -> Awaited(p)[2]]
    /\ UNCHANGED <<relayVars, pc, timer, sendq, closed, toServer, sent, rcvd>>

\* Link.Send
Send(p) ==
    /\ cl[p] = "linked" /\ sent[p] < MaxFrames /\ Len(toServer[p]) < NetBuffer
    /\ sent' = [sent EXCEPT ![p] = @ + 1]
    /\ toServer' = [toServer EXCEPT ![p] = Append(@, Binary(p, sent[p] + 1))]
    /\ UNCHANGED <<relayVars, pc, timer, sendq, closed, toClient, cl, rcvd>>

\* Link.Recv: text frames are skipped.
Recv(p) ==
    /\ cl[p] = "linked" /\ toClient[p] # <<>>
    /\ toClient' = [toClient EXCEPT ![p] = Tail(@)]
    /\ rcvd' = [rcvd EXCEPT ![p] = IF IsText(Head(toClient[p])) THEN @
                                   ELSE Append(@, Head(toClient[p]))]
    /\ UNCHANGED <<relayVars, pc, timer, sendq, closed, toServer, cl, sent>>

\* The connection ends: the client hangs up whenever it likes, or it has read
\* everything the relay wrote before closing.
Leave(p) ==
    /\ cl[p] \notin {"idle", "gone"}
    /\ cl' = [cl EXCEPT ![p] = "gone"]
    /\ toClient' = [toClient EXCEPT ![p] = <<>>]
    /\ UNCHANGED <<relayVars, pc, timer, sendq, closed, toServer, sent, rcvd>>

-----------------------------------------------------------------------------
Handler(p) ==
    \/ ReadControl(p) \/ ReadFails(p) \/ ForwardQueued(p) \/ ForwardFails(p)
    \/ p \in Host /\ \/ HandleHostRegister(p) \/ AnnounceCode(p) \/ HandleHostPaired(p)
                     \/ HandleHostTimeout(p) \/ HandleHostExpired(p) \/ AnnouncePaired(p)
    \/ p \in Guest /\ \/ HandleGuestLookup(p) \/ HandleGuestDeliver(p)
                      \/ AnnounceJoined(p) \/ RefuseGuest(p)

Pump(p) == WritePump(p) \/ WriteFails(p)

Client(p) == Dial(p) \/ ReadCtrl(p) \/ Send(p) \/ Recv(p) \/ Leave(p)

ServerNext == ServerTick \/ \E p \in Party : Handler(p) \/ Pump(p) \/ Client(p)

ServerSpec == ServerInit /\ [][ServerNext]_vars

\* The Go scheduler runs every runnable goroutine and time passes.  Nothing is
\* assumed of the clients: they may stop reading, or never speak again.
Fairness == /\ WF_vars(ServerTick)
            /\ \A p \in Party : WF_vars(Handler(p)) /\ WF_vars(Pump(p))

ServerFairSpec == ServerSpec /\ Fairness

-----------------------------------------------------------------------------
(* Properties.                                                             *)

\* What a client's Recv returned was sent by the other end of its session and
\* by nobody else, in the order it was sent and each frame once.
FramesInOrder ==
    \A p \in Party : \A i \in 1 .. Len(rcvd[p]) :
        /\ rcvd[p][i].from = Partner(p)
        /\ rcvd[p][i].n <= sent[Partner(p)]
        /\ i > 1 => rcvd[p][i - 1].n < rcvd[p][i].n

\* Where the host h is for the guest g that joined it: its handler has taken their
\* session, or will find it in its channel, or has left it there because the
\* code's lifetime passed while Join was under way.
HostSide(g, h) ==
    \/ session[h] = g
    \/ /\ paired[h] = <<g>>
       /\ \/ pc[h] \in {"announcing", "waiting"}
          \/ pc[h] \in {"expired", "returned"} /\ timer[h] = TTL

\* A client that holds a Link has a session behind it.  The guest of a linked
\* host has joined that host and its handler goes on from there; a linked guest
\* has its host's handler on the same session, or about to be, unless that wait
\* expired: nothing else can leave a guest with nobody at the other end.
LinkedMeansPaired ==
    /\ \A h \in Host : cl[h] = "linked" =>
          /\ session[h] # None /\ picked[session[h]] = h
          /\ pc[session[h]] \in {"accepted", "forward", "returned"}
    /\ \A g \in Guest : cl[g] = "linked" => join[g] = "joined" /\ HostSide(g, picked[g])

\* Deliver drops a slow peer "rather than wedging the sender": whatever the
\* partner does, the frames a party sent are taken off its connection.
NeverWedged ==
    \A p \in Party : (pc[p] = "forward" /\ toServer[p] # <<>>)
                        ~> (toServer[p] = <<>> \/ pc[p] = "returned")

\* A host's select ends, with a session or with the code's expiry.
HostWaitEnds == \A h \in Host : (pc[h] = "waiting") ~> (pc[h] # "waiting")

\* The handler of a client that is gone returns in the end, at whatever point
\* of the handshake the client left it.
NoHandlerLeak == \A p \in Party : (cl[p] = "gone") ~> (pc[p] = "returned")
=============================================================================
