---------------------------- MODULE PagesProofs -----------------------------
(***************************************************************************)
(* Proofs about the hosts page with the application's poll (HostsPage) and    *)
(* about the Deploy page (DeployPage), for any number of hosts, models, calls, *)
(* polls and downloads.                                                     *)
(*                                                                         *)
(* The poll is right about the active host because the effect is run again    *)
(* for every new one: no poll in flight was begun for another, and what an     *)
(* answer says of the host was true after it was chosen.                      *)
(*                                                                         *)
(* Of the Deploy page, DeployInv is inductive: after each change no step of    *)
(* the walk is due, and what the page shows as going on does go on.           *)
(***************************************************************************)
EXTENDS HostsPage, DeployPage, TLAPS

(* Calls, answers and polls keep their types. *)
LEMMA AskType ==
    /\ \A op \in {"list", "add"} : Ask(op, None) \in Call
    /\ \A op \in {"connect", "disconnect", "remove", "visit"}, h \in Host : Ask(op, h) \in Call
  BY DEF Ask, Call, Stage

LEMMA CallFields ==
    ASSUME NEW c \in Call
    PROVE  /\ c.here \in BOOLEAN /\ c.seen \subseteq Host
           /\ c.op \in {"connect", "disconnect", "remove", "visit"} => c.host \in Host
  BY DEF Call

LEMMA BecomesType ==
    ASSUME NEW c \in Call, calls \subseteq Call,
           NEW at \in Stage, Becomes(c, at)
    PROVE  calls' \subseteq Call
<1>1. [c EXCEPT !.at = at] \in Call
  BY DEF Call
<1> QED
  BY <1>1 DEF Becomes

LEMMA DoneType ==
    ASSUME NEW c, calls \subseteq Call, NEW again \in BOOLEAN, Done(c, again)
    PROVE  calls' \subseteq Call
  BY AskType DEF Done

LEMMA PollTypes ==
    /\ \A h \in Host \cup {None} : NewPoll(h) \in Poll
    /\ \A at \in {"idle", "asked", "answered"}, f \in SUBSET Host : Check(at, f) \in Answer
  BY DEF NewPoll, Poll, Check, Answer

LEMMA AnsweredType ==
    ASSUME NEW p \in Poll, NEW f \in SUBSET Host
    PROVE  [p EXCEPT !.at = "answered", !.found = f] \in Poll
  BY DEF Poll

LEMMA TypeInit == Init => TypeOK
<1> SUFFICES ASSUME Init
             PROVE  TypeOK
  OBVIOUS
<1>1. Saved \subseteq Host
  BY SavedAssumption
<1>2. polls \subseteq Poll /\ check \in Answer
  BY PollTypes DEF Init
<1> QED
  BY <1>1, <1>2 DEF Init, TypeOK, Conn
-----------------------------------------------------------------------------
(* Each part of Step keeps the types. *)

LEMMA PollTypeStep ==
    ASSUME TypeOK, wasDown' \in BOOLEAN, StartPoll \/ PollStep
    PROVE  TypeOK'
<1>1. CASE StartPoll
  <2>1. polls' \subseteq Poll
    BY <1>1, PollTypes DEF StartPoll, TypeOK
  <2> QED
    BY <1>1, <2>1 DEF StartPoll, TypeOK, backend, shown
<1>2. CASE PollStep
  <2> PICK p \in polls : PollAsks(p) \/ PollEnds(p)
    BY <1>2 DEF PollStep
  <2>1. p \in Poll /\ p.found \subseteq Host
    BY DEF TypeOK, Poll
  <2>2. CASE PollAsks(p)
    <3>1. [p EXCEPT !.at = "answered", !.found = registry \cap live] \in Poll
      BY <2>1, AnsweredType DEF TypeOK
    <3>2. polls' \subseteq Poll
      BY <2>2, <3>1 DEF PollAsks, TypeOK
    <3> QED
      BY <2>2, <3>2 DEF PollAsks, TypeOK, backend, shown
  <2>3. CASE PollEnds(p)
    <3>1. polls' \subseteq Poll /\ active' \in Host \cup {None} /\ connected' \subseteq Host
      BY <2>1, <2>3, PollTypes DEF PollEnds, Restart, TypeOK
    <3> QED
      BY <2>3, <3>1 DEF PollEnds, TypeOK, backend, shown
  <2> QED
    BY <2>2, <2>3
<1> QED
  BY <1>1, <1>2

LEMMA PageTypeStep ==
    ASSUME TypeOK, wasDown' \in BOOLEAN,
           \/ Mount \/ Unmount \/ CheckAsks \/ CheckEnds
           \/ \E h \in Host \cup {None} : SelectHost(h)
    PROVE  TypeOK'
<1>1. CASE Mount
  <2>1. calls' \subseteq Call /\ check' \in Answer
    BY <1>1, AskType, PollTypes DEF Mount, TypeOK
  <2> QED
    BY <1>1, <2>1 DEF Mount, TypeOK, Conn, backend, app
<1>2. CASE Unmount
  <2>1. \A d \in calls : [d EXCEPT !.here = FALSE] \in Call
    BY DEF TypeOK, Call
  <2>2. calls' \subseteq Call /\ check' \in Answer
    BY <1>2, <2>1, PollTypes DEF Unmount
  <2> QED
    BY <1>2, <2>2 DEF Unmount, TypeOK, Conn, backend, app
<1>3. CASE CheckAsks
  <2>1. check' \in Answer
    BY <1>3, PollTypes DEF CheckAsks, TypeOK
  <2> QED
    BY <1>3, <2>1 DEF CheckAsks, TypeOK, backend, app
<1>4. CASE CheckEnds
  <2>1. check' \in Answer
    BY <1>4, PollTypes DEF CheckEnds
  <2>2. conns' \in [Host -> Conn]
    BY <1>4 DEF CheckEnds, Merged, TypeOK, Conn
  <2> QED
    BY <1>4, <2>1, <2>2 DEF CheckEnds, TypeOK, backend, app
<1>5. CASE \E h \in Host \cup {None} : SelectHost(h)
  <2>1. PICK h \in Host \cup {None} : SelectHost(h)
    BY <1>5
  <2>2. polls' \subseteq Poll
    BY <2>1, PollTypes DEF SelectHost, Restart
  <2> QED
    BY <2>1, <2>2 DEF SelectHost, TypeOK, backend, shown
<1> QED
  BY <1>1, <1>2, <1>3, <1>4, <1>5

LEMMA ButtonTypeStep ==
    ASSUME TypeOK, wasDown' \in BOOLEAN,
           SubmitAdd \/ \E h \in Host : Connect(h) \/ Disconnect(h) \/ Remove(h) \/ TestOrInstall(h)
    PROVE  TypeOK'
<1>1. calls' \subseteq Call
  BY AskType DEF SubmitAdd, Connect, Disconnect, Remove, TestOrInstall, Send, TypeOK
<1>2. conns' \in [Host -> Conn]
  BY DEF SubmitAdd, Connect, Disconnect, Remove, TestOrInstall, TypeOK, Conn, shown
<1> QED
  BY <1>1, <1>2 DEF SubmitAdd, Connect, Disconnect, Remove, TestOrInstall, TypeOK, backend, app,
     shown

LEMMA BackendTypeStep ==
    ASSUME TypeOK, wasDown' \in BOOLEAN, NEW c \in calls, Backend(c)
    PROVE  TypeOK'
<1>1. c \in Call /\ registry \subseteq Host
  BY DEF TypeOK
<1>2. CASE ListHosts(c)
  <2>1. [c EXCEPT !.at = "ok", !.seen = registry] \in Call
    <3>1. CASE c \in [op : {"list", "add"}, host : {None}, here : BOOLEAN, at : Stage,
               seen : SUBSET Host]
      BY <1>1, <3>1 DEF Call, Stage
    <3>2. CASE c \in [op : {"connect", "disconnect", "remove", "visit"}, host : Host,
                      here : BOOLEAN, at : Stage, seen : SUBSET Host]
      BY <1>1, <3>2 DEF Call, Stage
    <3> QED
      BY <1>1, <3>1, <3>2 DEF Call
  <2>2. calls' \subseteq Call
    BY <1>2, <2>1 DEF ListHosts, TypeOK
  <2> QED
    BY <1>2, <2>2 DEF ListHosts, TypeOK, backend, app, shown
<1>3. CASE LookUp(c)
  <2>1. calls' \subseteq Call
    BY <1>1, <1>3, BecomesType DEF LookUp, TypeOK, Stage
  <2> QED
    BY <1>3, <2>1 DEF LookUp, TypeOK, backend, app, shown
<1>4. CASE DisconnectHost(c)
  <2>1. calls' \subseteq Call
    BY <1>1, <1>4, BecomesType DEF DisconnectHost, TypeOK, Stage
  <2> QED
    BY <1>4, <2>1 DEF DisconnectHost, TypeOK, app, shown
<1>5. CASE AddHost(c)
  <2>1. calls' \subseteq Call
    BY <1>1, <1>5, BecomesType DEF AddHost, TypeOK, Stage
  <2> QED
    BY <1>5, <2>1 DEF AddHost, TypeOK, app, shown
<1>6. CASE \E ok \in BOOLEAN : Works(c, ok)
  <2>1. PICK ok \in BOOLEAN : Works(c, ok)
    BY <1>6
  <2>2. calls' \subseteq Call
    BY <1>1, <2>1, BecomesType DEF Works, TypeOK, Stage
  <2>3. c.op = "connect" => c.host \in Host
    BY <1>1, CallFields
  <2> QED
    BY <2>1, <2>2, <2>3 DEF Works, TypeOK, app, shown
<1>7. CASE RemoveHost(c)
  <2>1. calls' \subseteq Call
    BY <1>1, <1>7, BecomesType DEF RemoveHost, TypeOK, Stage
  <2> QED
    BY <1>7, <2>1 DEF RemoveHost, TypeOK, app, shown
<1> QED
  BY <1>2, <1>3, <1>4, <1>5, <1>6, <1>7 DEF Backend

LEMMA ArrivesTypeStep ==
    ASSUME TypeOK, wasDown' \in BOOLEAN, NEW c \in calls, Arrives(c)
    PROVE  TypeOK'
<1>1. c \in Call /\ calls \subseteq Call
  BY DEF TypeOK
<1>2. CASE ListArrives(c)
  <2>1. calls' \subseteq Call /\ check' \in Answer
    BY <1>1, <1>2, DoneType, PollTypes DEF ListArrives
  <2>2. items' \subseteq Host
    BY <1>1, <1>2, CallFields DEF ListArrives
  <2> QED
    BY <1>2, <2>1, <2>2 DEF ListArrives, TypeOK, backend, app
<1>3. CASE ConnectAnswered(c)
  <2>1. calls' \subseteq Call
    BY <1>1, <1>3, DoneType DEF ConnectAnswered
  <2>2. conns' \in [Host -> Conn]
    BY <1>3 DEF ConnectAnswered, TypeOK, Conn
  <2> QED
    BY <1>3, <2>1, <2>2 DEF ConnectAnswered, TypeOK, backend, app
<1>4. CASE DisconnectAnswered(c)
  <2>1. calls' \subseteq Call
    BY <1>1, <1>4, DoneType DEF DisconnectAnswered
  <2>2. conns' \in [Host -> Conn]
    BY <1>4 DEF DisconnectAnswered, TypeOK, Conn
  <2> QED
    BY <1>4, <2>1, <2>2 DEF DisconnectAnswered, TypeOK, backend, app
<1>5. CASE RemoveAnswered(c)
  <2>1. calls' \subseteq Call
    BY <1>1, <1>5, DoneType DEF RemoveAnswered
  <2>2. conns' \in [Host -> Conn]
    BY <1>5 DEF RemoveAnswered, TypeOK, Conn
  <2> QED
    BY <1>5, <2>1, <2>2 DEF RemoveAnswered, TypeOK, backend, app
<1>6. CASE OtherAnswered(c)
  <2>1. calls' \subseteq Call
    BY <1>1, <1>6, DoneType DEF OtherAnswered
  <2> QED
    BY <1>6, <2>1 DEF OtherAnswered, TypeOK, backend, app, shown
<1> QED
  BY <1>2, <1>3, <1>4, <1>5, <1>6 DEF Arrives

LEMMA TypeStep == TypeOK /\ [Next]_vars => TypeOK'
<1> SUFFICES ASSUME TypeOK, [Next]_vars
             PROVE  TypeOK'
  OBVIOUS
<1>1. CASE Next
  <2>1. wasDown' \in BOOLEAN
    BY <1>1 DEF Next, Watch, TypeOK
  <2>2. CASE User
    BY <2>1, <2>2, PageTypeStep, ButtonTypeStep DEF User
  <2>3. CASE StartPoll \/ PollStep \/ CheckAsks \/ CheckEnds
    BY <2>1, <2>3, PollTypeStep, PageTypeStep
  <2>4. CASE \E c \in calls : Backend(c) \/ Arrives(c)
    BY <2>1, <2>4, BackendTypeStep, ArrivesTypeStep
  <2> QED
    BY <1>1, <2>2, <2>3, <2>4 DEF Next, Step
<1>2. CASE UNCHANGED vars
  BY <1>2 DEF vars, backend, app, shown, TypeOK
<1> QED
  BY <1>1, <1>2

(* The variables of backend, application and page keep their types. *)
THEOREM HostsTypeCorrect == Spec => []TypeOK
  BY TypeInit, TypeStep, PTL DEF Spec
-----------------------------------------------------------------------------
(* A poll in flight was begun for the active host, and one that has found it  *)
(* missing has done so since it was chosen.                                  *)
PollsAreCurrent ==
    \A p \in polls :
        /\ p.for = active
        /\ p.at = "answered" /\ active # None /\ active \notin p.found => wasDown

LEMMA CurrentInit == Init => PollsAreCurrent
  BY DEF Init, PollsAreCurrent, NewPoll

LEMMA CurrentStep == TypeOK /\ PollsAreCurrent /\ [Next]_vars => PollsAreCurrent'
<1> SUFFICES ASSUME TypeOK, PollsAreCurrent, [Next]_vars
             PROVE  PollsAreCurrent'
  OBVIOUS
<1>1. ASSUME active' = active, polls' \subseteq polls, wasDown => wasDown'
      PROVE  PollsAreCurrent'
  BY <1>1 DEF PollsAreCurrent
<1>2. CASE UNCHANGED vars
  BY <1>1, <1>2 DEF vars, app
<1>3. CASE Next
  <2>1. active' = active /\ wasDown => wasDown'
    BY <1>3 DEF Next, Watch
  <2>2. CASE StartPoll
    <3>1. active' = active /\ polls' = polls \cup {NewPoll(active)}
      BY <2>2 DEF StartPoll
    <3> QED
      BY <2>1, <3>1 DEF PollsAreCurrent, NewPoll
  <2>3. CASE PollStep
    <3> PICK p \in polls : PollAsks(p) \/ PollEnds(p)
      BY <2>3 DEF PollStep
    <3>1. CASE PollAsks(p)
      <4> DEFINE q == [p EXCEPT !.at = "answered", !.found = registry \cap live]
      <4>1. active' = active /\ UNCHANGED backend /\ polls' = (polls \ {p}) \cup {q}
        BY <3>1 DEF PollAsks
      <4>2. p \in Poll
        BY DEF TypeOK
      <4>3. q.for = p.for /\ q.found = registry \cap live
        BY <4>2 DEF Poll
      <4>4. active # None /\ active \notin registry \cap live => wasDown'
        BY <1>3, <4>1 DEF Next, Watch, Up, backend
      <4> HIDE DEF q
      <4> QED
        BY <2>1, <4>1, <4>3, <4>4 DEF PollsAreCurrent
    <3>2. CASE PollEnds(p)
      <4>1. CASE active' = active /\ polls' = polls \ {p}
        BY <1>1, <2>1, <4>1
      <4>2. CASE active' = None /\ polls' = {NewPoll(None)}
        BY <4>2 DEF PollsAreCurrent, NewPoll
      <4> QED
        BY <3>2, <4>1, <4>2 DEF PollEnds, Restart
    <3> QED
      BY <3>1, <3>2
  <2>4. CASE \E h \in Host \cup {None} : SelectHost(h)
    <3>1. PICK h \in Host \cup {None} : SelectHost(h)
      BY <2>4
    <3> QED
      BY <3>1 DEF SelectHost, Restart, PollsAreCurrent, NewPoll
  <2>5. CASE \/ Mount \/ Unmount \/ SubmitAdd \/ CheckAsks \/ CheckEnds
             \/ \E h \in Host : Connect(h) \/ Disconnect(h) \/ Remove(h) \/ TestOrInstall(h)
             \/ \E c \in calls : Backend(c) \/ Arrives(c)
    <3>1. UNCHANGED app
      BY <2>5 DEF Mount, Unmount, SubmitAdd, CheckAsks, CheckEnds, Connect, Disconnect, Remove,
           TestOrInstall, Backend, ListHosts, LookUp, DisconnectHost, AddHost, Works, RemoveHost,
           Arrives, ListArrives, ConnectAnswered, DisconnectAnswered, RemoveAnswered, OtherAnswered
    <3> QED
      BY <1>1, <2>1, <3>1 DEF app
  <2> QED
    BY <1>3, <2>2, <2>3, <2>4, <2>5 DEF Next, Step, User
<1> QED
  BY <1>2, <1>3

(* OnlyDeadDropped: the poll never takes away an active host that was up ever  *)
(* since the user chose it.                                                   *)
THEOREM OnlyDeadHostIsDropped == Spec => OnlyDeadDropped
<1>1. TypeOK /\ PollsAreCurrent /\ [Next]_vars =>
          [PollStep /\ active # None /\ active' = None => wasDown]_vars
  <2> SUFFICES ASSUME TypeOK, PollsAreCurrent, PollStep, active # None, active' = None
               PROVE  wasDown
    OBVIOUS
  <2> PICK p \in polls : PollAsks(p) \/ PollEnds(p)
    BY DEF PollStep
  <2> QED
    BY DEF PollAsks, PollEnds, PollsAreCurrent
<1> QED
  BY <1>1, TypeInit, TypeStep, CurrentInit, CurrentStep, PTL DEF Spec, OnlyDeadDropped
-----------------------------------------------------------------------------
(* StaysDisconnected: no late answer turns a row that is off back, unless a    *)
(* connection was asked for.                                                  *)
THEOREM RowStaysDisconnected == Spec => StaysDisconnected
<1>1. TypeOK /\ [Next]_vars =>
          [\A h \in Host : conns[h] = "off" /\ ~Busy("connect", h) => conns'[h] # "connected"]_vars
  <2> SUFFICES ASSUME TypeOK, Next, NEW h \in Host, conns[h] = "off", ~Busy("connect", h)
               PROVE  conns'[h] # "connected"
    OBVIOUS
  <2>1. conns \in [Host -> Conn] /\ calls \subseteq Call
    BY DEF TypeOK
  <2>2. CASE UNCHANGED conns
    BY <2>2
  <2>3. CASE Mount \/ Unmount
    BY <2>3 DEF Mount, Unmount
  <2>4. CASE CheckEnds
    BY <2>4 DEF CheckEnds, Merged
  <2>5. CASE \E g \in Host : Connect(g)
    BY <2>1, <2>5 DEF Connect
  <2>6. CASE \E c \in calls : Arrives(c)
    <3> PICK c \in calls : Arrives(c)
      BY <2>6
    <3>1. CASE ListArrives(c) \/ OtherAnswered(c)
      BY <2>2, <3>1 DEF ListArrives, OtherAnswered, shown
    <3>2. CASE ConnectAnswered(c)
      <4>1. c.here => c.host # h
        BY <3>2 DEF ConnectAnswered, Answered, Busy
      <4> QED
        BY <2>1, <3>2, <4>1 DEF ConnectAnswered
    <3>3. CASE DisconnectAnswered(c) \/ RemoveAnswered(c)
      BY <2>1, <3>3 DEF DisconnectAnswered, RemoveAnswered
    <3> QED
      BY <3>1, <3>2, <3>3 DEF Arrives
  <2>7. CASE \/ StartPoll \/ PollStep \/ CheckAsks \/ SubmitAdd
             \/ \E g \in Host \cup {None} : SelectHost(g)
             \/ \E g \in Host : Disconnect(g) \/ Remove(g) \/ TestOrInstall(g)
             \/ \E c \in calls : Backend(c)
    <3>1. UNCHANGED conns
      BY <2>7 DEF StartPoll, PollStep, PollAsks, PollEnds, CheckAsks, SubmitAdd, SelectHost,
         Disconnect, Remove, TestOrInstall, Backend, ListHosts, LookUp, DisconnectHost, AddHost,
         Works, RemoveHost, shown
    <3> QED
      BY <2>2, <3>1
  <2> QED
    BY <2>3, <2>4, <2>5, <2>6, <2>7 DEF Next, Step, User
<1> QED
  BY <1>1, TypeInit, TypeStep, PTL DEF Spec, StaysDisconnected
-----------------------------------------------------------------------------
(* The Deploy page. *)

(* What an open page p may rely on, with i installs and d downloads going on:  *)
(* it is busy only with an install there is, done only with a runtime there is, *)
(* and shows a download only if one of its model goes on; and a step the walk   *)
(* has taken left a trace.  The last two hold while no event misled the page.  *)
Founded(p, i, d, runtime, onDisk, misled) ==
    IF p.model = NoModel THEN p = Closed ELSE
        /\ p.stage = "busy" => i > 0
        /\ p.stage = "done" => runtime
        /\ "install" \in p.auto => p.stage # "idle"
        /\ p.pulling => misled \/ d[p.model] > 0
        /\ "pull" \in p.auto => misled \/ p.pulling \/ p.pullError \/ p.model \in onDisk

NothingDue(p) == p.model # NoModel => ~InstallDue(p) /\ ~PullDue(p) /\ ~StartDue(p)

(* A probe whose page is still on screen was sent for the model it is about.    *)
OwnProbes(p, ts) == \A t \in ts : t.here => t.model = p.model

WalkInv ==
    /\ Founded(page, installs, pulls, installed, files, meddled) /\ NothingDue(page)
    /\ OwnProbes(page, probes)

DeployInv == DeployTypeOK /\ WalkInv

(* After Render no step is due, and the page's grounds are those it had.       *)
LEMMA RenderWalks ==
    ASSUME NEW p \in Page, NEW i \in Nat, NEW d \in [Model -> Nat], NEW t \in SUBSET Probe,
           NEW runtime, NEW onDisk, NEW misled,
           Founded(p, i, d, runtime, onDisk, misled), OwnProbes(p, t), Render(p, i, d, t)
    PROVE  /\ page' \in Page /\ installs' \in Nat /\ pulls' \in [Model -> Nat] /\ probes' \subseteq Probe
           /\ Founded(page', installs', pulls', runtime, onDisk, misled) /\ NothingDue(page')
           /\ OwnProbes(page', probes')
<1> DEFINE q == Walked(p)
<1>1. /\ page' = q
      /\ installs' = IF "install" \in q.auto \ p.auto THEN i + 1 ELSE i
      /\ pulls' = IF "pull" \in q.auto \ p.auto THEN [d EXCEPT ![p.model] = @ + 1] ELSE d
      /\ probes' = IF "start" \in q.auto \ p.auto
                   THEN t \cup {[model |-> p.model, here |-> TRUE, at |-> "asked"]} ELSE t
  BY DEF Render
<1>2. /\ p.model \in Model \cup {NoModel} /\ p.auto \in SUBSET AutoStep
      /\ p.pulling \in BOOLEAN /\ p.pullError \in BOOLEAN
  BY DEF Page
<1>3. CASE p.model = NoModel
  <2>1. q = p
    BY <1>3 DEF Walked
  <2> HIDE DEF q
  <2> QED
    BY <1>1, <1>3, <2>1 DEF NothingDue
<1>4. CASE p.model # NoModel /\ InstallDue(p)
  <2>1. q = [p EXCEPT !.auto = @ \cup {"install"}, !.stage = "busy"]
    BY <1>4 DEF Walked, InstallDue, PullDue, StartDue
  <2> HIDE DEF q
  <2>2. q \in Page
    BY <1>2, <2>1 DEF Page, AutoStep
  <2>3. /\ q.auto = p.auto \cup {"install"} /\ q.stage = "busy" /\ q.model = p.model
        /\ q.runtime = "no" /\ q.pulling = p.pulling /\ q.pullError = p.pullError
    BY <1>4, <2>1 DEF Page, InstallDue
  <2>4. installs' = i + 1 /\ pulls' = d /\ probes' = t
    BY <1>1, <1>4, <2>3 DEF InstallDue
  <2>5. NothingDue(q)
    BY <2>3 DEF NothingDue, InstallDue, PullDue, StartDue
  <2>6. Founded(q, i + 1, d, runtime, onDisk, misled)
    BY <1>4, <2>3 DEF Founded
  <2>7. page' = q /\ installs' \in Nat
    BY <1>1, <2>4
  <2>8. OwnProbes(q, t)
    BY <2>3 DEF OwnProbes
  <2> QED
    BY <2>2, <2>4, <2>5, <2>6, <2>7, <2>8
<1>5. CASE p.model # NoModel /\ ~InstallDue(p) /\ PullDue(p)
  <2>1. q = [p EXCEPT !.auto = @ \cup {"pull"}, !.pulling = TRUE]
    BY <1>5 DEF Walked, InstallDue, PullDue, StartDue
  <2> HIDE DEF q
  <2>2. q \in Page
    BY <1>2, <2>1 DEF Page, AutoStep
  <2>3. /\ q.auto = p.auto \cup {"pull"} /\ q.stage = p.stage /\ q.model = p.model
        /\ q.runtime = "yes" /\ q.file = "no" /\ q.pulling = TRUE /\ q.pullError = p.pullError
    BY <1>5, <2>1 DEF Page, PullDue
  <2>4. installs' = i /\ pulls' = [d EXCEPT ![p.model] = @ + 1] /\ probes' = t
    BY <1>1, <1>5, <2>3 DEF PullDue
  <2>5. NothingDue(q)
    BY <2>3 DEF NothingDue, InstallDue, PullDue, StartDue
  <2>6. p.model \in Model /\ pulls' \in [Model -> Nat] /\ pulls'[p.model] > 0
    BY <1>2, <1>5, <2>4
  <2>7. Founded(q, i, pulls', runtime, onDisk, misled)
    BY <1>5, <2>3, <2>6 DEF Founded
  <2>8. OwnProbes(q, t)
    BY <2>3 DEF OwnProbes
  <2> QED
    BY <1>1, <2>2, <2>4, <2>5, <2>6, <2>7, <2>8
<1>6. CASE p.model # NoModel /\ ~InstallDue(p) /\ ~PullDue(p) /\ StartDue(p)
  <2>1. q = [p EXCEPT !.auto = @ \cup {"start"}]
    BY <1>6 DEF Walked, InstallDue, PullDue, StartDue
  <2> HIDE DEF q
  <2>2. q \in Page
    BY <1>2, <2>1 DEF Page, AutoStep
  <2>3. /\ q.auto = p.auto \cup {"start"} /\ q.stage = p.stage /\ q.model = p.model
        /\ q.runtime = "yes" /\ q.file = "yes" /\ q.pulling = p.pulling /\ q.pullError = p.pullError
    BY <1>6, <2>1 DEF Page, StartDue
  <2>4. /\ installs' = i /\ pulls' = d
        /\ probes' = t \cup {[model |-> p.model, here |-> TRUE, at |-> "asked"]}
    BY <1>1, <1>6, <2>3 DEF StartDue
  <2>5. NothingDue(q)
    BY <2>3 DEF NothingDue, InstallDue, PullDue, StartDue
  <2>6. probes' \subseteq Probe
    <3>1. [model |-> p.model, here |-> TRUE, at |-> "asked"] \in Probe
      BY <1>2, <1>6 DEF Probe
    <3> QED
      BY <2>4, <3>1
  <2>7. Founded(q, i, d, runtime, onDisk, misled)
    BY <1>6, <2>3 DEF Founded
  <2>8. OwnProbes(q, probes')
    BY <2>3, <2>4 DEF OwnProbes
  <2> QED
    BY <1>1, <2>2, <2>4, <2>5, <2>6, <2>7, <2>8
<1>7. CASE p.model # NoModel /\ ~InstallDue(p) /\ ~PullDue(p) /\ ~StartDue(p)
  <2>1. q = p
    BY <1>7 DEF Walked, InstallDue, PullDue, StartDue
  <2> HIDE DEF q
  <2> QED
    BY <1>1, <1>7, <2>1 DEF NothingDue
<1> QED
  BY <1>3, <1>4, <1>5, <1>6, <1>7

(* A page of which only what it was told has changed has the grounds it had.    *)
LEMMA SameGrounds ==
    ASSUME DeployInv, NEW p, p.model = page.model, p.stage = page.stage, p.auto = page.auto,
           p.pulling = page.pulling, p.pullError = page.pullError
    PROVE  page.model # NoModel => Founded(p, installs, pulls, installed, files, meddled)
  BY DEF DeployInv, WalkInv, Founded

(* An event, or an answer, that gives the page p.                              *)
LEMMA HeardWalks ==
    ASSUME DeployInv, NEW p \in Page, p.model = page.model,
           NEW i \in Nat, NEW d \in [Model -> Nat], NEW t \in SUBSET probes,
           page.model # NoModel => Founded(p, i, d, installed', files', meddled'),
           Render(Heard(p), i, d, t)
    PROVE  /\ page' \in Page /\ installs' \in Nat /\ pulls' \in [Model -> Nat] /\ probes' \subseteq Probe
           /\ WalkInv'
<1>1. Heard(p) \in Page /\ t \in SUBSET Probe
  BY DEF Heard, DeployInv, DeployTypeOK
<1>2. Founded(Heard(p), i, d, installed', files', meddled')
  BY DEF Heard, Founded, DeployInv, WalkInv
<1>3. OwnProbes(Heard(p), t)
  BY DEF Heard, OwnProbes, DeployInv, WalkInv
<1> QED
  BY <1>1, <1>2, <1>3, RenderWalks DEF WalkInv

(* What the page can be turned into.                                          *)
LEMMA PageTypes ==
    ASSUME NEW p \in Page
    PROVE  /\ \A s \in ServeState : [p EXCEPT !.server = s] \in Page
           /\ \A r \in Known, s \in ServeState : [p EXCEPT !.runtime = r, !.server = s] \in Page
           /\ \A f \in Known : [p EXCEPT !.file = f] \in Page
           /\ \A s \in {"busy", "error", "done"} : [p EXCEPT !.stage = s] \in Page
           /\ [p EXCEPT !.pulling = TRUE, !.pullError = FALSE] \in Page
           /\ [p EXCEPT !.pullError = FALSE, !.pulling = TRUE] \in Page
           /\ [p EXCEPT !.pulling = FALSE] \in Page
           /\ Failed(p) \in Page
  BY DEF Page, Failed

LEMMA FetchTypes ==
    /\ NewFetch \in Fetch /\ [NewFetch EXCEPT !.at = "looking"] \in Fetch
    /\ \A f \in Fetch : f.runtime \in Known /\ f.server \in ServeState /\ f.file \in Known
    /\ \A f \in Fetch, r \in Known, s \in ServeState :
          [f EXCEPT !.at = "read", !.runtime = r, !.server = s] \in Fetch
    /\ \A f \in Fetch, g \in Known : [f EXCEPT !.at = "found", !.file = g] \in Fetch
  BY DEF Fetch, NewFetch, Known, ServeState

LEMMA SrvTypes ==
    /\ NoServer \in Srv
    /\ \A m \in Model : [NoServer EXCEPT !.model = m, !.state = "starting"] \in Srv
    /\ \A s \in Srv : /\ s.state \in ServeState
                      /\ [s EXCEPT !.state = "running"] \in Srv /\ [s EXCEPT !.late = TRUE] \in Srv
                      /\ [s EXCEPT !.stop = TRUE] \in Srv
  BY DEF Srv, NoServer, ServeState

LEMMA ProbeTypes ==
    \A t \in Probe : /\ [t EXCEPT !.here = FALSE] \in Probe /\ t.model \in Model
                     /\ \A a \in {"up", "down"} : [t EXCEPT !.at = a] \in Probe
  BY DEF Probe

LEMMA RefetchedType ==
    ASSUME DeployTypeOK
    PROVE  Refetched \subseteq Fetch
  BY FetchTypes DEF Refetched, DeployTypeOK

LEMMA DeployInitial == DeployInit => DeployInv
<1> SUFFICES ASSUME DeployInit
             PROVE  DeployInv
  OBVIOUS
<1>1. Closed \in Page /\ Closed.model = NoModel
  BY DEF Closed, Fresh, Page, Known, ServeState
<1>2. DeployTypeOK
  <2>1. views \in 0 .. MaxViews
    BY DeployAssumption DEF DeployInit
  <2>2. pulls \in [Model -> Nat]
    BY DEF DeployInit
  <2> QED
    BY <1>1, <2>1, <2>2, SrvTypes DEF DeployInit, DeployTypeOK
<1>3. WalkInv
  BY <1>1 DEF DeployInit, WalkInv, Founded, NothingDue, OwnProbes
<1> QED
  BY <1>2, <1>3 DEF DeployInv

(* Opening the page, leaving it, and what does not touch it.                   *)
LEMMA QuietStep ==
    ASSUME DeployInv,
           \/ \E m \in Model : Open(m)
           \/ Leave \/ StopServe \/ ServerLate
           \/ \E f \in fetches : StatusRead(f) \/ FileRead(f)
           \/ \E t \in probes : ProbeAsks(t)
    PROVE  DeployInv'
<1> USE DEF DeployInv
<1>1. CASE \E m \in Model : Open(m)
  <2>1. PICK m \in Model : Open(m)
    BY <1>1
  <2>2. Fresh(m) \in Page /\ Fresh(m).model = m /\ Fresh(m).stage = "idle" /\ Fresh(m).runtime = "unknown"
        /\ Fresh(m).auto = {} /\ Fresh(m).pulling = FALSE
    BY DEF Fresh, Page, Known, ServeState
  <2>3. WalkInv'
    <3>1. m # NoModel /\ \A t \in probes : ~t.here
      BY <2>1, DeployAssumption, ProbeTypes DEF Open, WalkInv, OwnProbes, DeployTypeOK
    <3> QED
      BY <2>1, <2>2, <3>1
      DEF Open, WalkInv, Founded, NothingDue, InstallDue, PullDue, StartDue, OwnProbes
  <2>4. views' \in 0 .. MaxViews
    BY <2>1, DeployAssumption DEF Open, DeployTypeOK
  <2> QED
    BY <2>1, <2>2, <2>3, <2>4, FetchTypes DEF Open, DeployTypeOK, runtimeVars
<1>2. CASE Leave
  <2>1. Closed \in Page /\ Closed.model = NoModel
    BY DEF Closed, Fresh, Page, Known, ServeState
  <2>2. WalkInv'
    <3>1. \A t \in probes' : t.here = FALSE
      BY <1>2 DEF Leave, DeployTypeOK, Probe
    <3> QED
      BY <1>2, <2>1, <3>1 DEF Leave, WalkInv, Founded, NothingDue, OwnProbes
  <2>3. probes' \subseteq Probe
    BY <1>2, ProbeTypes DEF Leave, DeployTypeOK
  <2> QED
    BY <1>2, <2>1, <2>2, <2>3 DEF Leave, DeployTypeOK, runtimeVars
<1>3. CASE StopServe \/ ServerLate
  <2>1. srv' \in Srv
    BY <1>3, SrvTypes DEF StopServe, ServerLate, DeployTypeOK
  <2>2. WalkInv'
    BY <1>3 DEF StopServe, ServerLate, WalkInv, runtimeVars
  <2> QED
    BY <1>3, <2>1, <2>2 DEF StopServe, ServerLate, DeployTypeOK, runtimeVars
<1>4. CASE \E f \in fetches : StatusRead(f) \/ FileRead(f)
  <2>1. PICK f \in fetches : StatusRead(f) \/ FileRead(f)
    BY <1>4
  <2>2. f \in Fetch /\ srv.state \in ServeState /\ \A b : YesNo(b) \in Known
    BY SrvTypes DEF DeployTypeOK, YesNo, Known
  <2>3. /\ [f EXCEPT !.at = "read", !.runtime = YesNo(installed), !.server = srv.state] \in Fetch
        /\ [f EXCEPT !.at = "found", !.file = YesNo(page.model \in files)] \in Fetch
    BY <2>2, FetchTypes
  <2>4. fetches' \subseteq Fetch
    BY <2>1, <2>3 DEF StatusRead, FileRead, FetchBecomes, DeployTypeOK
  <2>5. WalkInv'
    BY <2>1 DEF StatusRead, FileRead, WalkInv, runtimeVars
  <2> QED
    BY <2>1, <2>4, <2>5 DEF StatusRead, FileRead, DeployTypeOK, runtimeVars
<1>5. CASE \E t \in probes : ProbeAsks(t)
  <2>1. PICK t \in probes : ProbeAsks(t)
    BY <1>5
  <2>2. probes' \subseteq Probe
    BY <2>1, ProbeTypes DEF ProbeAsks, DeployTypeOK
  <2>3. OwnProbes(page, probes')
    BY <2>1 DEF ProbeAsks, WalkInv, OwnProbes, DeployTypeOK, Probe
  <2>4. WalkInv'
    BY <2>1, <2>3 DEF ProbeAsks, WalkInv, runtimeVars
  <2> QED
    BY <2>1, <2>2, <2>4 DEF ProbeAsks, DeployTypeOK, runtimeVars
<1> QED
  BY <1>1, <1>2, <1>3, <1>4, <1>5

(* Only an open page has a Retry.                                              *)
LEMMA RetryNeedsPage ==
    ASSUME DeployInv, NEW step \in Retriable(page)
    PROVE  page.model \in Model
<1>1. page.model \in Model \cup {NoModel}
  BY DEF DeployInv, DeployTypeOK, Page
<1>2. CASE page.model = NoModel
  <2>1. page = Closed
    BY <1>2 DEF DeployInv, WalkInv, Founded
  <2> QED
    BY <2>1 DEF Retriable, Closed, Fresh
<1> QED
  BY <1>1, <1>2

(* Answers to refetchAll.                                                     *)
LEMMA AnswerStep ==
    ASSUME DeployInv, NEW f \in fetches, StatusArrives(f) \/ FileArrives(f)
    PROVE  DeployInv'
<1>1. page \in Page /\ f \in Fetch /\ installs \in Nat /\ pulls \in [Model -> Nat] /\ probes \in SUBSET Probe /\ probes \in SUBSET probes
  BY DEF DeployInv, DeployTypeOK
<1>2. CASE StatusArrives(f)
  <2> DEFINE p == [page EXCEPT !.runtime = f.runtime, !.server = f.server]
  <2>1. p \in Page /\ p.model = page.model
    BY <1>1, FetchTypes, PageTypes DEF Page
  <2>2. page.model # NoModel => Founded(p, installs, pulls, installed', files', meddled')
    <3>1. page.model # NoModel => Founded(p, installs, pulls, installed, files, meddled)
      BY <1>1, SameGrounds DEF Page
    <3> QED
      BY <1>2, <3>1 DEF StatusArrives, runtimeVars
  <2>3. Render(Heard(p), installs, pulls, probes)
    BY <1>2 DEF StatusArrives, Shows
  <2>4. /\ page' \in Page /\ installs' \in Nat /\ pulls' \in [Model -> Nat] /\ probes' \subseteq Probe
        /\ WalkInv'
    <3> HIDE DEF p
    <3> QED
      BY <1>1, <2>1, <2>2, <2>3, HeardWalks
  <2>5. fetches' \subseteq Fetch
    BY <1>2, FetchTypes DEF StatusArrives, FetchBecomes, DeployInv, DeployTypeOK
  <2> QED
    BY <1>2, <2>4, <2>5 DEF StatusArrives, DeployInv, DeployTypeOK, runtimeVars
<1>3. CASE FileArrives(f)
  <2> DEFINE p == [page EXCEPT !.file = f.file]
  <2>1. p \in Page /\ p.model = page.model
    BY <1>1, FetchTypes, PageTypes DEF Page
  <2>2. page.model # NoModel => Founded(p, installs, pulls, installed', files', meddled')
    <3>1. page.model # NoModel => Founded(p, installs, pulls, installed, files, meddled)
      BY <1>1, SameGrounds DEF Page
    <3> QED
      BY <1>3, <3>1 DEF FileArrives, runtimeVars
  <2>3. Render(Heard(p), installs, pulls, probes)
    BY <1>3 DEF FileArrives, Shows
  <2>4. /\ page' \in Page /\ installs' \in Nat /\ pulls' \in [Model -> Nat] /\ probes' \subseteq Probe
        /\ WalkInv'
    <3> HIDE DEF p
    <3> QED
      BY <1>1, <2>1, <2>2, <2>3, HeardWalks
  <2> QED
    BY <1>3, <2>4 DEF FileArrives, DeployInv, DeployTypeOK, runtimeVars
<1> QED
  BY <1>2, <1>3

(* InstallRuntime, its events and its Retry.                                   *)
LEMMA InstallStep ==
    ASSUME DeployInv, InstallStage \/ Installing \/ RetryRuntime
    PROVE  DeployInv'
<1>1. page \in Page /\ installs \in Nat /\ pulls \in [Model -> Nat] /\ probes \in SUBSET Probe /\ probes \in SUBSET probes
  BY DEF DeployInv, DeployTypeOK
<1>2. CASE InstallStage
  <2> DEFINE p == [page EXCEPT !.stage = "busy"]
  <2>1. p \in Page /\ p.model = page.model
    BY <1>1, PageTypes DEF Page
  <2>2. page.model # NoModel => Founded(p, installs, pulls, installed', files', meddled')
    BY <1>1, <1>2 DEF InstallStage, runtimeVars, DeployInv, WalkInv, Founded, Page
  <2>3. Render(Heard(p), installs, pulls, probes)
    BY <1>2 DEF InstallStage, Shows
  <2>4. /\ page' \in Page /\ installs' \in Nat /\ pulls' \in [Model -> Nat] /\ probes' \subseteq Probe
        /\ WalkInv'
    <3> HIDE DEF p
    <3> QED
      BY <1>1, <2>1, <2>2, <2>3, HeardWalks
  <2> QED
    BY <1>2, <2>4 DEF InstallStage, DeployInv, DeployTypeOK, runtimeVars
<1>3. CASE Installing
  <2> PICK ok \in BOOLEAN : InstallEnds(ok)
    BY <1>3 DEF Installing
  <2> DEFINE p == [page EXCEPT !.stage = IF ok THEN "done" ELSE "error"]
  <2>1. p \in Page /\ p.model = page.model
    BY <1>1, PageTypes DEF Page
  <2>2. installs - 1 \in Nat
    BY <1>1 DEF InstallEnds
  <2>3. page.model # NoModel => Founded(p, installs - 1, pulls, installed', files', meddled')
    BY <1>1 DEF InstallEnds, DeployInv, WalkInv, Founded, Page
  <2>4. Render(Heard(p), installs - 1, pulls, probes)
    BY DEF InstallEnds
  <2>5. /\ page' \in Page /\ installs' \in Nat /\ pulls' \in [Model -> Nat] /\ probes' \subseteq Probe
        /\ WalkInv'
    <3> HIDE DEF p
    <3> QED
      BY <1>1, <2>1, <2>2, <2>3, <2>4, HeardWalks
  <2>6. fetches' \subseteq Fetch /\ installed' \in BOOLEAN
    BY RefetchedType DEF InstallEnds, DeployInv, DeployTypeOK
  <2> QED
    BY <2>5, <2>6 DEF InstallEnds, DeployInv, DeployTypeOK
<1>4. CASE RetryRuntime
  <2> DEFINE p == [page EXCEPT !.stage = "busy"]
  <2>1. p \in Page /\ p.model = page.model
    BY <1>1, PageTypes DEF Page
  <2>2. page.model \in Model
    BY <1>4, RetryNeedsPage DEF RetryRuntime
  <2>3. installs + 1 \in Nat /\ installs + 1 > 0
    BY <1>1
  <2>4. Founded(p, installs + 1, pulls, installed, files, meddled)
    BY <1>1, <2>2, <2>3, DeployAssumption DEF DeployInv, WalkInv, Founded, Page
  <2>5. Render(p, installs + 1, pulls, probes) /\ OwnProbes(p, probes)
    BY <1>4, <2>1 DEF RetryRuntime, DeployInv, WalkInv, OwnProbes
  <2>6. /\ page' \in Page /\ installs' \in Nat /\ pulls' \in [Model -> Nat] /\ probes' \subseteq Probe
        /\ Founded(page', installs', pulls', installed, files, meddled) /\ NothingDue(page')
        /\ OwnProbes(page', probes')
    <3> HIDE DEF p
    <3> QED
      BY <1>1, <2>1, <2>3, <2>4, <2>5, RenderWalks
  <2> QED
    BY <1>4, <2>6 DEF RetryRuntime, DeployInv, DeployTypeOK, WalkInv, runtimeVars
<1> QED
  BY <1>2, <1>3, <1>4

(* PullModel, its events and its Retry.                                        *)
LEMMA PullStep ==
    ASSUME DeployInv,
           (\E m \in Model : PullProgress(m) \/ Pulling(m)) \/ RetryPull
    PROVE  DeployInv'
<1>1. /\ page \in Page /\ installs \in Nat /\ pulls \in [Model -> Nat] /\ probes \in SUBSET Probe /\ probes \in SUBSET probes
      /\ page.model \in Model \cup {NoModel}
  BY DEF DeployInv, DeployTypeOK, Page
<1>2. ASSUME NEW m \in Model, PullProgress(m)
      PROVE  DeployInv'
  <2> DEFINE p == [page EXCEPT !.pulling = TRUE, !.pullError = FALSE]
  <2>1. p \in Page /\ p.model = page.model
    <3>1. p \in Page
      BY <1>1, PageTypes
    <3> QED
      BY <1>1, <3>1 DEF Page, Failed
  <2>2. page.model # NoModel => meddled' \/ pulls[page.model] > 0
    BY <1>2 DEF PullProgress, Heed
  <2>3. page.model # NoModel => Founded(p, installs, pulls, installed', files', meddled')
    BY <1>1, <1>2, <2>2 DEF PullProgress, runtimeVars, DeployInv, WalkInv, Founded, Page
  <2>4. Render(Heard(p), installs, pulls, probes)
    BY <1>2 DEF PullProgress, Shows
  <2>5. /\ page' \in Page /\ installs' \in Nat /\ pulls' \in [Model -> Nat] /\ probes' \subseteq Probe
        /\ WalkInv'
    <3> HIDE DEF p
    <3> QED
      BY <1>1, <2>1, <2>3, <2>4, HeardWalks
  <2> QED
    BY <1>2, <2>5 DEF PullProgress, Heed, DeployInv, DeployTypeOK, runtimeVars
<1>3. ASSUME NEW m \in Model, Pulling(m)
      PROVE  DeployInv'
  <2> PICK ok \in BOOLEAN : PullEnds(m, ok)
    BY <1>3 DEF Pulling
  <2> DEFINE p == IF ok THEN [page EXCEPT !.pulling = FALSE] ELSE Failed(page)
             d == [pulls EXCEPT ![m] = @ - 1]
  <2>1. p \in Page /\ p.model = page.model
    <3>1. p \in Page
      BY <1>1, PageTypes
    <3> QED
      BY <1>1, <3>1 DEF Page, Failed
  <2>2. d \in [Model -> Nat]
    BY <1>1 DEF PullEnds
  <2>3. page.model # NoModel => meddled' \/ page.model = m
    BY DEF PullEnds, Heed
  <2>4. page.model # NoModel => Founded(p, installs, d, installed', files', meddled')
    <3> SUFFICES ASSUME page.model # NoModel
                 PROVE  Founded(p, installs, d, installed', files', meddled')
      OBVIOUS
    <3>1. /\ p.model = page.model /\ p.stage = page.stage /\ p.auto = page.auto /\ p.pulling = FALSE
          /\ ~ok => p.pullError
      BY <1>1 DEF Page, Failed
    <3>2. installed' = installed /\ (ok => m \in files')
      BY DEF PullEnds, runtimeVars
    <3> HIDE DEF p, d
    <3> QED
      BY <2>3, <3>1, <3>2 DEF DeployInv, WalkInv, Founded
  <2>5. Render(Heard(p), installs, d, probes)
    BY DEF PullEnds
  <2>6. /\ page' \in Page /\ installs' \in Nat /\ pulls' \in [Model -> Nat] /\ probes' \subseteq Probe
        /\ WalkInv'
    <3> HIDE DEF p, d
    <3> QED
      BY <1>1, <2>1, <2>2, <2>4, <2>5, HeardWalks
  <2>7. fetches' \subseteq Fetch /\ files' \subseteq Model
    BY RefetchedType DEF PullEnds, DeployInv, DeployTypeOK
  <2> QED
    BY <2>6, <2>7 DEF PullEnds, Heed, DeployInv, DeployTypeOK, runtimeVars
<1>4. CASE RetryPull
  <2> DEFINE p == [page EXCEPT !.pullError = FALSE, !.pulling = TRUE]
             d == [pulls EXCEPT ![page.model] = @ + 1]
  <2>1. p \in Page /\ p.model = page.model
    <3>1. p \in Page
      BY <1>1, PageTypes
    <3> QED
      BY <1>1, <3>1 DEF Page, Failed
  <2>2. page.model \in Model
    BY <1>4, RetryNeedsPage DEF RetryPull
  <2>3. d \in [Model -> Nat] /\ d[page.model] > 0
    BY <1>1, <2>2
  <2>4. Founded(p, installs, d, installed, files, meddled)
    <3>1. p.stage = page.stage /\ p.auto = page.auto /\ p.pulling = TRUE
      BY <1>1 DEF Page
    <3>2. page.model # NoModel
      BY <2>2, DeployAssumption
    <3> HIDE DEF p, d
    <3> QED
      BY <2>1, <2>3, <3>1, <3>2 DEF DeployInv, WalkInv, Founded
  <2>5. Render(p, installs, d, probes) /\ OwnProbes(p, probes)
    BY <1>4, <2>1 DEF RetryPull, DeployInv, WalkInv, OwnProbes
  <2>6. /\ page' \in Page /\ installs' \in Nat /\ pulls' \in [Model -> Nat] /\ probes' \subseteq Probe
        /\ Founded(page', installs', pulls', installed, files, meddled) /\ NothingDue(page')
        /\ OwnProbes(page', probes')
    <3> HIDE DEF p, d
    <3> QED
      BY <1>1, <2>1, <2>3, <2>4, <2>5, RenderWalks
  <2> QED
    BY <1>4, <2>6 DEF RetryPull, DeployInv, DeployTypeOK, WalkInv, runtimeVars
<1> QED
  BY <1>2, <1>3, <1>4

(* StartServe, whoever calls it: the page's grounds do not mention the server. *)
LEMMA StartKeeps ==
    ASSUME DeployInv, NEW m \in Model, NEW t \in SUBSET probes, StartServe(m, t),
           installed' = installed, files' = files, meddled' = meddled
    PROVE  /\ page' \in Page /\ installs' \in Nat /\ pulls' \in [Model -> Nat] /\ probes' \subseteq Probe
           /\ srv' \in Srv /\ WalkInv'
<1>1. page \in Page /\ installs \in Nat /\ pulls \in [Model -> Nat] /\ srv \in Srv
  BY DEF DeployInv, DeployTypeOK
<1> DEFINE p == [page EXCEPT !.server = "starting"]
<1>2. p \in Page /\ p.model = page.model
  <2>1. p \in Page
    BY <1>1, PageTypes DEF ServeState
  <2> QED
    BY <1>1, <2>1 DEF Page
<1>3. page.model # NoModel => Founded(p, installs, pulls, installed', files', meddled')
  BY <1>1, SameGrounds DEF Page
<1>4. page.model # NoModel => Founded(page, installs, pulls, installed', files', meddled')
  BY DEF DeployInv, WalkInv
<1>5. srv' \in Srv
  BY <1>1, SrvTypes DEF StartServe
<1>6. Render(Heard(p), installs, pulls, t) \/ Render(Heard(page), installs, pulls, t)
  BY DEF StartServe, Heard
<1> HIDE DEF p
<1> QED
  BY <1>1, <1>2, <1>3, <1>4, <1>5, <1>6, HeardWalks

(* The server: its probes, its events and its Retry.                           *)
LEMMA ServeStep ==
    ASSUME DeployInv,
           (\E t \in probes : ProbeEnds(t)) \/ ServerUp \/ ServerEnds \/ RetryServe
    PROVE  DeployInv'
<1>1. /\ page \in Page /\ installs \in Nat /\ pulls \in [Model -> Nat] /\ probes \in SUBSET Probe /\ probes \in SUBSET probes
      /\ srv \in Srv /\ page.model \in Model \cup {NoModel}
  BY DEF DeployInv, DeployTypeOK, Page
<1>2. ASSUME NEW s \in Srv, Serves(s), UNCHANGED <<views, fetches, runtimeVars, files, meddled>>
      PROVE  DeployInv'
  <2> DEFINE p == [page EXCEPT !.server = s.state]
  <2>1. p \in Page /\ p.model = page.model
    BY <1>1, PageTypes, SrvTypes DEF Page
  <2>2. page.model # NoModel => Founded(p, installs, pulls, installed', files', meddled')
    BY <1>1, <1>2, SameGrounds DEF Page, runtimeVars
  <2>3. Render(Heard(p), installs, pulls, probes) /\ srv' = s
    BY <1>2 DEF Serves, Shows
  <2>4. /\ page' \in Page /\ installs' \in Nat /\ pulls' \in [Model -> Nat] /\ probes' \subseteq Probe
        /\ WalkInv'
    <3> HIDE DEF p
    <3> QED
      BY <1>1, <2>1, <2>2, <2>3, HeardWalks
  <2> QED
    BY <1>2, <2>3, <2>4 DEF DeployInv, DeployTypeOK, runtimeVars
<1>3. CASE ServerUp \/ ServerEnds
  <2>1. [srv EXCEPT !.state = "running"] \in Srv /\ NoServer \in Srv
    BY <1>1, SrvTypes
  <2> QED
    BY <1>2, <1>3, <2>1 DEF ServerUp, ServerEnds
<1>4. CASE RetryServe
  <2>1. page.model \in Model
    BY <1>4, RetryNeedsPage DEF RetryServe
  <2> QED
    BY <1>1, <1>4, <2>1, StartKeeps DEF RetryServe, DeployInv, DeployTypeOK, runtimeVars
<1>5. ASSUME NEW t \in probes, ProbeEnds(t)
      PROVE  DeployInv'
  <2>1. t.model \in Model /\ probes \ {t} \in SUBSET probes
    BY <1>1, ProbeTypes
  <2>2. CASE t.at = "down" /\ StartServe(t.model, probes \ {t})
    BY <1>5, <2>1, <2>2, StartKeeps DEF ProbeEnds, DeployInv, DeployTypeOK, runtimeVars
  <2>3. CASE srv' = srv /\ Render(IF t.here THEN [page EXCEPT !.server = "running"] ELSE page,
                                  installs, pulls, probes \ {t})
    <3> DEFINE p == IF t.here THEN [page EXCEPT !.server = "running"] ELSE page
    <3>1. p \in Page /\ p.model = page.model
      BY <1>1, PageTypes DEF ServeState, Page
    <3>2. page.model # NoModel => Founded(p, installs, pulls, installed', files', meddled')
      <4>1. page.model # NoModel => Founded(p, installs, pulls, installed, files, meddled)
        BY <1>1, SameGrounds DEF Page
      <4> QED
        BY <1>5, <4>1 DEF ProbeEnds, runtimeVars
    <3>3. Render(Heard(p), installs, pulls, probes \ {t})
      <4>1. t.here => page.model # NoModel
        BY <2>1, DeployAssumption DEF DeployInv, WalkInv, OwnProbes
      <4> QED
        BY <2>3, <4>1 DEF Heard
    <3>4. /\ page' \in Page /\ installs' \in Nat /\ pulls' \in [Model -> Nat] /\ probes' \subseteq Probe
          /\ WalkInv'
      <4> HIDE DEF p
      <4> QED
        BY <1>1, <2>1, <3>1, <3>2, <3>3, HeardWalks
    <3> QED
      BY <1>5, <2>3, <3>4 DEF ProbeEnds, DeployInv, DeployTypeOK, runtimeVars
  <2> QED
    BY <1>5, <2>2, <2>3 DEF ProbeEnds
<1> QED
  BY <1>3, <1>4, <1>5

LEMMA DeployStep == DeployInv /\ [DeployNext]_deployVars => DeployInv'
<1> SUFFICES ASSUME DeployInv, [DeployNext]_deployVars
             PROVE  DeployInv'
  OBVIOUS
<1>1. CASE UNCHANGED deployVars
  BY <1>1 DEF deployVars, runtimeVars, DeployInv, DeployTypeOK, WalkInv
<1>2. CASE DeployUser
  BY <1>2, QuietStep, InstallStep, PullStep, ServeStep DEF DeployUser
<1>3. CASE Fetching
  BY <1>3, QuietStep, AnswerStep DEF Fetching
<1>4. CASE Probing
  BY <1>4, QuietStep, ServeStep DEF Probing
<1>5. CASE Installing \/ InstallStage
  BY <1>5, InstallStep
<1>6. CASE \E m \in Model : PullProgress(m) \/ Pulling(m)
  BY <1>6, PullStep
<1>7. CASE ServerUp \/ ServerLate \/ ServerEnds
  BY <1>7, QuietStep, ServeStep
<1> QED
  BY <1>1, <1>2, <1>3, <1>4, <1>5, <1>6, <1>7 DEF DeployNext

THEOREM DeployInvariant == DeploySpec => []DeployInv
  BY DeployInitial, DeployStep, PTL DEF DeploySpec

(* Calls, answers, downloads and the server keep their types.                  *)
THEOREM DeployTypeCorrect == DeploySpec => []DeployTypeOK
<1>1. DeployInv => DeployTypeOK
  BY DEF DeployInv
<1> QED
  BY <1>1, DeployInvariant, PTL

(* An install, a download of the page's model or a starting server goes on.    *)
AtWork == installs > 0 \/ pulls[page.model] > 0 \/ srv.state = "starting"

(* The checklist keeps a Retry on any failed step, as far as single states go:  *)
(* a page that shows how things are, is not done and has no Retry waits for     *)
(* something that is going on.  NeverStranded adds that this ends.             *)
THEOREM StrandedOnlyAtWork == DeploySpec => [](Stranded => AtWork)
<1>1. ASSUME DeployInv, Stranded
      PROVE  AtWork
  <2>1. /\ page \in Page /\ page.model # NoModel /\ srv.state \in ServeState
        /\ page.stage \in {"idle", "busy", "error", "done"} /\ page.pulling \in BOOLEAN
        /\ page.pullError \in BOOLEAN
    BY <1>1, SrvTypes DEF Stranded, DeployInv, DeployTypeOK, Page
  <2>2. /\ Founded(page, installs, pulls, installed, files, meddled) /\ ~meddled
        /\ ~InstallDue(page) /\ ~PullDue(page) /\ ~StartDue(page)
        /\ ~Complete(page) /\ Retriable(page) = {} /\ TruePicture
    BY <1>1, <2>1 DEF Stranded, DeployInv, WalkInv, NothingDue
  <2>3. /\ page.stage # "error" /\ ~page.pullError
        /\ ~(page.runtime = "yes" /\ page.file = "yes" /\ page.server = "stopped" /\ "start" \in page.auto)
    BY <2>2 DEF Retriable, AutoStep
  <2>4. CASE ~installed
    <3>1. page.runtime = "no"
      BY <2>2, <2>4 DEF TruePicture, YesNo
    <3> QED
      BY <2>1, <2>2, <2>3, <2>4, <3>1 DEF InstallDue, Founded, AtWork
  <2>5. CASE installed /\ page.model \notin files
    <3>1. page.runtime = "yes" /\ page.file = "no"
      BY <2>2, <2>5 DEF TruePicture, YesNo
    <3> QED
      BY <2>1, <2>2, <2>3, <2>5, <3>1 DEF PullDue, Founded, AtWork
  <2>6. CASE installed /\ page.model \in files
    <3>1. page.runtime = "yes" /\ page.file = "yes" /\ page.server = srv.state
      BY <2>2, <2>6 DEF TruePicture, YesNo
    <3> QED
      BY <2>1, <2>2, <2>3, <3>1 DEF StartDue, Complete, ServeState, AtWork
  <2> QED
    BY <2>4, <2>5, <2>6
<1> QED
  BY <1>1, DeployInvariant, PTL
=============================================================================
