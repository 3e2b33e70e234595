------------------------------ MODULE Control ------------------------------
(***************************************************************************)
(* The control protocol between the desktop (Client) and the agent         *)
(* (Server), internal/control/control.go: many requests in flight over one *)
(* ordered connection, each answered by events and one terminal frame.     *)
(*                                                                         *)
(* A call c is one execution of Client.do in its own goroutine.  The client *)
(* has one more goroutine, readLoop, which looks the channel of a frame's   *)
(* id up under the mutex and sends on it after leaving the mutex.  On the   *)
(* server each request runs in a goroutine of its own (serveOne).          *)
(***************************************************************************)
EXTENDS Naturals, Sequences

CONSTANTS Call,       \* calls the desktop makes
          MaxId,      \* bound on the request ids
          ChanCap,    \* capacity of a call's channel (16)
          NetCap,     \* frames the connection holds before Send blocks
          MaxEvents,  \* bound on the events of one handler
          None

ASSUME BoundsAssumption == /\ MaxId \in Nat /\ MaxEvents \in Nat
                           /\ ChanCap \in Nat \ {0} /\ NetCap \in Nat \ {0}
ASSUME NoneAssumption == None \notin Call \cup Nat

VARIABLES
    nextID,    \* Client.nextID
    pending,   \* Client.pending: id -> the call whose channel it is, or None
    closed,    \* Client.closed
    id,        \* id[c]: the id do took for c, or None
    cst,       \* cst[c]: where do is
    outcome,   \* outcome[c]: how do ended
    chan,      \* chan[c]: the frames buffered in c's channel
    chClosed,  \* chClosed[c]: closeAll closed c's channel
    seen,      \* seen[c]: numbers of the events handed to onEvent
    rl,        \* readLoop: "recv", "closed", or the frame and channel it sends to
    up,        \* the connection is open
    toServer, toClient,   \* frames in flight
    srv,       \* srv[c]: serveOne for c's request
    emitted    \* emitted[c]: events its handler emitted

clientVars == <<nextID, pending, closed, id, cst, outcome, chan, chClosed, seen>>
vars == <<clientVars, rl, up, toServer, toClient, srv, emitted>>

Id == 0 .. MaxId
Frame == [id : Id, kind : {"req", "event", "res", "err"}, call : Call, n : 0 .. MaxEvents]
Reading == [st : {"recv", "closed"}]
Sending == [st : {"deliver"}, frame : Frame, to : Call]
Outcome == {"none", "res", "err", "cancelled", "aborted", "sendfailed", "connclosed"}

TypeOK ==
    /\ nextID \in 0 .. MaxId + 1
    /\ pending \in [Id -> Call \cup {None}]
    /\ closed \in BOOLEAN
    /\ id \in [Call -> Id \cup {None}]
    /\ cst \in [Call -> {"idle", "sending", "waiting", "returning", "returned"}]
    /\ outcome \in [Call -> Outcome]
    /\ chan \in [Call -> Seq(Frame)]
    /\ chClosed \in [Call -> BOOLEAN]
    /\ seen \in [Call -> Seq(0 .. MaxEvents)]
    /\ rl \in Reading \cup Sending
    /\ up \in BOOLEAN
    /\ toServer \in Seq(Frame) /\ toClient \in Seq(Frame)
    /\ srv \in [Call -> {"none", "running", "done"}]
    /\ emitted \in [Call -> 0 .. MaxEvents]

Init ==
    /\ nextID = 0
    /\ pending = [i \in Id |-> None]
    /\ closed = FALSE
    /\ id = [c \in Call |-> None]
    /\ cst = [c \in Call |-> "idle"]
    /\ outcome = [c \in Call |-> "none"]
    /\ chan = [c \in Call |-> <<>>]
    /\ chClosed = [c \in Call |-> FALSE]
    /\ seen = [c \in Call |-> <<>>]
    /\ rl = [st |-> "recv"]
    /\ up = TRUE
    /\ toServer = <<>> /\ toClient = <<>>
    /\ srv = [c \in Call |-> "none"]
    /\ emitted = [c \in Call |-> 0]

-----------------------------------------------------------------------------
(* Client.do                                                               *)

\* Mutant: `c.nextID++` is forgotten.
BeginReusesId(c) ==
    /\ cst[c] = "idle"
    /\ IF closed
       THEN /\ cst' = [cst EXCEPT ![c] = "returned"]
            /\ outcome' = [outcome EXCEPT ![c] = "connclosed"]
            /\ UNCHANGED <<pending, id>>
       ELSE /\ id' = [id EXCEPT ![c] = nextID]
            /\ pending' = [pending EXCEPT ![nextID] = c]
            /\ cst' = [cst EXCEPT ![c] = "sending"]
            /\ UNCHANGED outcome
    /\ UNCHANGED <<nextID, closed, chan, chClosed, seen, rl, up, toServer, toClient, srv, emitted>>

\* The first critical section: an id and a channel, or errConnClosed.
Begin(c) ==
    /\ cst[c] = "idle"
    /\ IF closed
       THEN /\ cst' = [cst EXCEPT ![c] = "returned"]
            /\ outcome' = [outcome EXCEPT ![c] = "connclosed"]
            /\ UNCHANGED <<nextID, pending, id>>
       ELSE /\ nextID <= MaxId
            /\ id' = [id EXCEPT ![c] = nextID]
            /\ nextID' = nextID + 1
            /\ pending' = [pending EXCEPT ![nextID] = c]
            /\ cst' = [cst EXCEPT ![c] = "sending"]
            /\ UNCHANGED outcome
    /\ UNCHANGED <<closed, chan, chClosed, seen, rl, up, toServer, toClient, srv, emitted>>

End(c, how) ==
    /\ cst' = [cst EXCEPT ![c] = "returning"]
    /\ outcome' = [outcome EXCEPT ![c] = how]

SendRequest(c) ==
    /\ cst[c] = "sending"
    /\ \/ /\ up /\ Len(toServer) < NetCap
          /\ toServer' = Append(toServer, [id |-> id[c], kind |-> "req", call |-> c, n |-> 0])
          /\ cst' = [cst EXCEPT ![c] = "waiting"]
          /\ UNCHANGED outcome
       \/ ~up /\ End(c, "sendfailed") /\ UNCHANGED toServer
    /\ UNCHANGED <<nextID, pending, closed, id, chan, chClosed, seen, rl, up, toClient,
                   srv, emitted>>

\* The receive case of the select: an event goes to onEvent, a terminal frame
\* ends the call.
Receive(c) ==
    /\ cst[c] = "waiting" /\ chan[c] # <<>>
    /\ chan' = [chan EXCEPT ![c] = Tail(@)]
    /\ LET f == Head(chan[c])
       IN \/ /\ f.kind = "event"
             /\ seen' = [seen EXCEPT ![c] = Append(@, f.n)]
             /\ UNCHANGED <<cst, outcome>>
          \/ f.kind = "event" /\ End(c, "aborted") /\ UNCHANGED seen
          \/ f.kind \in {"res", "err"} /\ End(c, f.kind) /\ UNCHANGED seen
    /\ UNCHANGED <<nextID, pending, closed, id, chClosed, rl, up, toServer, toClient, srv, emitted>>

ReceiveClosed(c) ==
    /\ cst[c] = "waiting" /\ chan[c] = <<>> /\ chClosed[c]
    /\ End(c, "connclosed")
    /\ UNCHANGED <<nextID, pending, closed, id, chan, chClosed, seen, rl, up, toServer,
                   toClient, srv, emitted>>

\* ctx.Done(): taken at any time, also when frames are buffered.
ContextDone(c) ==
    /\ cst[c] = "waiting"
    /\ End(c, "cancelled")
    /\ UNCHANGED <<nextID, pending, closed, id, chan, chClosed, seen, rl, up, toServer,
                   toClient, srv, emitted>>

\* Mutant: do returns without the deferred delete.
ReclaimNothing(c) ==
    /\ cst[c] = "returning"
    /\ cst' = [cst EXCEPT ![c] = "returned"]
    /\ UNCHANGED <<nextID, pending, closed, id, outcome, chan, chClosed, seen, rl, up, toServer,
                   toClient, srv, emitted>>

\* The deferred delete.
Reclaim(c) ==
    /\ cst[c] = "returning"
    /\ pending' = [pending EXCEPT ![id[c]] = None]
    /\ cst' = [cst EXCEPT ![c] = "returned"]
    /\ UNCHANGED <<nextID, closed, id, outcome, chan, chClosed, seen, rl, up, toServer,
                   toClient, srv, emitted>>

-----------------------------------------------------------------------------
(* Client.readLoop                                                         *)

\* Mutant: the channel of an unknown id is used unchecked.
LookupUnchecked ==
    /\ rl.st = "recv" /\ toClient # <<>>
    /\ toClient' = Tail(toClient)
    /\ LET f == Head(toClient)
       IN rl' = [st |-> "deliver", frame |-> f, to |-> pending[f.id]]
    /\ UNCHANGED <<clientVars, up, toServer, srv, emitted>>

\* Recv and the lookup under the mutex; a frame nobody waits for is skipped.
Lookup ==
    /\ rl.st = "recv" /\ toClient # <<>>
    /\ toClient' = Tail(toClient)
    /\ LET f == Head(toClient)
       IN rl' = IF pending[f.id] = None
                THEN [st |-> "recv"]
                ELSE [st |-> "deliver", frame |-> f, to |-> pending[f.id]]
    /\ UNCHANGED <<clientVars, up, toServer, srv, emitted>>

\* Mutant: a frame that finds the channel full is dropped.
DeliverOrDrop ==
    /\ rl.st = "deliver"
    /\ chan' = IF Len(chan[rl.to]) < ChanCap
               THEN [chan EXCEPT ![rl.to] = Append(@, rl.frame)] ELSE chan
    /\ rl' = [st |-> "recv"]
    /\ UNCHANGED <<nextID, pending, closed, id, cst, outcome, chClosed, seen, up, toServer,
                   toClient, srv, emitted>>

\* `ch <- f`, outside the mutex: it waits for room, whoever still reads.
DeliverFrame ==
    /\ rl.st = "deliver" /\ Len(chan[rl.to]) < ChanCap
    /\ chan' = [chan EXCEPT ![rl.to] = Append(@, rl.frame)]
    /\ rl' = [st |-> "recv"]
    /\ UNCHANGED <<nextID, pending, closed, id, cst, outcome, chClosed, seen, up, toServer,
                   toClient, srv, emitted>>

\* Mutant: closeAll forgets to close the channels it deletes.
CloseAllLeavesChannels ==
    /\ rl.st = "recv" /\ ~up
    /\ closed' = TRUE
    /\ pending' = [i \in Id |-> None]
    /\ rl' = [st |-> "closed"]
    /\ UNCHANGED <<nextID, id, cst, outcome, chan, chClosed, seen, up, toServer, toClient, srv,
                   emitted>>

\* Mutant: a failed Recv is retried, as an unparsable frame is.
CloseAllAndRetry ==
    /\ rl.st = "recv" /\ ~up
    /\ closed' = TRUE
    /\ chClosed' = [c \in Call |-> chClosed[c] \/ \E i \in Id : pending[i] = c]
    /\ pending' = [i \in Id |-> None]
    /\ UNCHANGED <<nextID, id, cst, outcome, chan, seen, rl, up, toServer, toClient, srv, emitted>>

\* Recv fails: closeAll closes every pending channel and the loop ends.
CloseAll ==
    /\ rl.st = "recv" /\ ~up
    /\ closed' = TRUE
    /\ chClosed' = [c \in Call |-> chClosed[c] \/ \E i \in Id : pending[i] = c]
    /\ pending' = [i \in Id |-> None]
    /\ rl' = [st |-> "closed"]
    /\ UNCHANGED <<nextID, id, cst, outcome, chan, seen, up, toServer, toClient, srv, emitted>>

-----------------------------------------------------------------------------
(* Serve and serveOne                                                      *)

ServeRequest ==
    /\ up /\ toServer # <<>>
    /\ toServer' = Tail(toServer)
    /\ srv' = [srv EXCEPT ![Head(toServer).call] = "running"]
    /\ UNCHANGED <<clientVars, rl, up, toClient, emitted>>

\* sendFrame: blocks while the connection is full, fails once it is closed.
\* A reply carries the id of its request, here the id the request was sent with.
Reply(c, kind, n) ==
    \/ /\ up /\ Len(toClient) < NetCap
       /\ toClient' = Append(toClient, [id |-> id[c], kind |-> kind, call |-> c, n |-> n])
    \/ ~up /\ UNCHANGED toClient

Emit(c) ==
    /\ srv[c] = "running" /\ emitted[c] < MaxEvents
    /\ emitted' = [emitted EXCEPT ![c] = @ + 1]
    /\ Reply(c, "event", emitted[c] + 1)
    /\ UNCHANGED <<clientVars, rl, up, toServer, srv>>

Answer(c) ==
    /\ srv[c] = "running"
    /\ srv' = [srv EXCEPT ![c] = "done"]
    /\ \E kind \in {"res", "err"} : Reply(c, kind, 0)
    /\ UNCHANGED <<clientVars, rl, up, toServer, emitted>>

\* Either end closes the connection, or it breaks.
Disconnect ==
    /\ up /\ up' = FALSE
    /\ UNCHANGED <<clientVars, rl, toServer, toClient, srv, emitted>>

-----------------------------------------------------------------------------
Do(c) == \/ Begin(c) \/ SendRequest(c) \/ Receive(c) \/ ReceiveClosed(c)
         \/ ContextDone(c) \/ Reclaim(c)
ReadLoop == Lookup \/ DeliverFrame \/ CloseAll
ServeOne(c) == Emit(c) \/ Answer(c)

Next == \/ \E c \in Call : Do(c) \/ ServeOne(c)
        \/ ReadLoop \/ ServeRequest \/ Disconnect

Spec == Init /\ [][Next]_vars

\* Every goroutine that can run runs; the connection need not break, and no
\* caller need cancel.
Fairness ==
    /\ WF_vars(ReadLoop) /\ WF_vars(ServeRequest)
    /\ \A c \in Call : /\ WF_vars(ServeOne(c))
                       /\ WF_vars(SendRequest(c) \/ Receive(c) \/ ReceiveClosed(c) \/ Reclaim(c))

FairSpec == Spec /\ Fairness

-----------------------------------------------------------------------------
(* Properties.                                                             *)

\* Multiplexing: a call is handed the frames that answer its own request, and
\* no other's, however the calls, their cancellations and the replies interleave.
OwnFrames ==
    /\ \A c \in Call : \A i \in 1 .. Len(chan[c]) : chan[c][i].call = c
    /\ rl.st = "deliver" => rl.frame.call = rl.to

\* Why OwnFrames holds: ids are handed out once, the table files a call under
\* its own id, and every frame in flight carries the id of its call.
UniqueIds ==
    \A c, d \in Call : id[c] # None => /\ id[c] < nextID
                                       /\ id[c] = id[d] => c = d
FiledUnderOwnId == \A i \in Id : pending[i] # None => id[pending[i]] = i
Tagged(f) == f.id = id[f.call]
FramesTagged ==
    /\ \A i \in 1 .. Len(toServer) : Tagged(toServer[i])
    /\ \A i \in 1 .. Len(toClient) : Tagged(toClient[i])
    /\ \A c \in Call : srv[c] # "none" \/ cst[c] = "sending" => id[c] # None
    /\ \A c \in Call : cst[c] = "idle" => id[c] = None

ControlInv == TypeOK /\ UniqueIds /\ FiledUnderOwnId /\ FramesTagged /\ OwnFrames

\* onEvent sees the handler's events in the order of emission without a gap,
\* and a call that ends with the terminal frame has seen all of them.
EventsComplete ==
    \A c \in Call :
        /\ \A i \in 1 .. Len(seen[c]) : seen[c][i] = i
        /\ outcome[c] \in {"res", "err"} => Len(seen[c]) = emitted[c]

\* A call that is over leaves nothing behind in the pending table.
NothingPending ==
    \A c \in Call : cst[c] = "returned" => \A i \in Id : pending[i] # c

\* A caller whose context ended, or whose onEvent failed, before the terminal frame.
SomeGaveUp == \E c \in Call : outcome[c] \in {"cancelled", "aborted"}

\* Every call returns as long as nobody gives up early: with its handler's
\* terminal frame, or because the connection is gone.
EveryCallReturns ==
    \A c \in Call : (cst[c] = "sending") ~> (cst[c] = "returned" \/ SomeGaveUp)

\* The read loop of a closed connection ends, with the same proviso: it may not
\* be stuck on the channel of a call that has returned.
ReadLoopEnds == (~up) ~> (rl.st = "closed" \/ SomeGaveUp)
=============================================================================
