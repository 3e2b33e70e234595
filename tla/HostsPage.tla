------------------------------ MODULE HostsPage ------------------------------
(***************************************************************************)
(* The hosts of the desktop: the page that adds, connects and removes them     *)
(* (HostsExplorer.tsx), the table of their connections (hostconn.go), and the   *)
(* application's poll of that table with the selector of the active host       *)
(* (App.tsx).                                                               *)
(*                                                                          *)
(* Page and application are two readers of one table, each with a picture of    *)
(* it of its own.  A call of the page is a record that goes from "sent" over    *)
(* what the backend does to "ok" or "failed", and then comes back; `here' says   *)
(* that the page that made it is still on screen.  Of a request in flight the   *)
(* page disables the button, Remove's apart.  Hosts are asked for one by one;    *)
(* here at once, since what is done with an answer depends on its host alone.     *)
(***************************************************************************)
EXTENDS Naturals, FiniteSets

CONSTANTS Host, None,
          Saved,     \* the hosts that have been saved before
          MaxCalls,  \* bound on the user's requests in flight
          MaxPolls   \* bound on the application's polls in flight

ASSUME HostsAssumption == None \notin Host /\ MaxCalls \in Nat /\ MaxPolls \in Nat
ASSUME SavedAssumption == Saved \subseteq Host

VARIABLES
    registry, spare,       \* the saved hosts, and those not added yet
    live,                  \* hostConns
    active, connected, polls, \* App: activeHost, connectedHosts, refreshConnected in flight
    mounted, items, conns, \* HostsExplorer: on screen, its list, a row's connection
    check,                 \* its effect that asks which hosts are connected
    calls,
    wasDown                \* history: the active host was not up at some time since it was chosen

backend == <<registry, spare, live>>
app == <<active, connected, polls>>
shown == <<mounted, items, conns, check>>
vars == <<backend, app, shown, calls, wasDown>>

\* "off": disconnected, or not connected with an error on display.
Conn == {"none", "connecting", "connected", "off"}
Answer == [at : {"idle", "asked", "answered"}, found : SUBSET Host]
Poll == [for : Host \cup {None}, at : {"asked", "answered"}, found : SUBSET Host]
Stage == {"sent", "working", "ok", "failed"}
Call == [op : {"list", "add"}, host : {None}, here : BOOLEAN, at : Stage, seen : SUBSET Host]
        \cup [op : {"connect", "disconnect", "remove", "visit"}, host : Host,
              here : BOOLEAN, at : Stage, seen : SUBSET Host]
Ask(op, h) == [op |-> op, host |-> h, here |-> TRUE, at |-> "sent", seen |-> {}]

NewPoll(h) == [for |-> h, at |-> "asked", found |-> {}]
Check(at, found) == [at |-> at, found |-> found]

TypeOK ==
    /\ registry \subseteq Host /\ spare \subseteq Host /\ live \subseteq Host
    /\ active \in Host \cup {None} /\ connected \subseteq Host /\ polls \subseteq Poll
    /\ mounted \in BOOLEAN /\ items \subseteq Host /\ conns \in [Host -> Conn]
    /\ check \in Answer /\ calls \subseteq Call /\ wasDown \in BOOLEAN

Init ==
    /\ registry = Saved /\ spare = Host \ Saved /\ live = {}
    /\ active = None /\ connected = {} /\ polls = {NewPoll(None)}
    /\ mounted = FALSE /\ items = {} /\ conns = [h \in Host |-> "none"]
    /\ check = Check("idle", {}) /\ calls = {} /\ wasDown = FALSE

Requests == {c \in calls : c.op # "list"}
CanAsk == Cardinality(Requests) < MaxCalls
-----------------------------------------------------------------------------
(* App: refreshConnected, every 4 seconds and whenever the active host changes. *)

StartPoll ==
    /\ Cardinality(polls) < MaxPolls
    /\ polls' = polls \cup {NewPoll(active)}
    /\ UNCHANGED <<backend, active, connected, shown, calls>>

PollAsks(p) ==
    /\ p.at = "asked"
    /\ polls' = (polls \ {p}) \cup {[p EXCEPT !.at = "answered", !.found = registry \cap live]}
    /\ UNCHANGED <<backend, active, connected, shown, calls>>

\* Mutant: the effect is not run again for another active host.
RestartNot(h) == polls' = polls

\* A new active host ends the effect, and with it the polls in flight.
Restart(h) == polls' = {NewPoll(h)}

\* Mutant: an empty list is taken for an error and ignored.
PollEndsIfAny(p) ==
    /\ p.at = "answered" /\ polls' = polls \ {p}
    /\ IF p.found # {} THEN connected' = p.found ELSE connected' = connected
    /\ UNCHANGED <<backend, active, shown, calls>>

PollEnds(p) ==
    /\ p.at = "answered"
    /\ connected' = p.found
    /\ IF p.for # None /\ p.for \notin p.found
       THEN active' = None /\ (IF active = None THEN polls' = polls \ {p} ELSE Restart(None))
       ELSE active' = active /\ polls' = polls \ {p}
    /\ UNCHANGED <<backend, shown, calls>>

\* HostSelector offers the local machine and the connected hosts.
SelectHost(h) ==
    /\ connected # {} \/ active # None
    /\ h \in connected \cup {None} /\ h # active
    /\ active' = h /\ Restart(h)
    /\ UNCHANGED <<backend, connected, shown, calls>>
-----------------------------------------------------------------------------
(* The page comes and goes with its tab. *)

Mount ==
    /\ ~mounted /\ mounted' = TRUE
    /\ items' = {} /\ conns' = [h \in Host |-> "none"]
    /\ check' = Check("idle", {})
    /\ calls' = calls \cup {Ask("list", None)}
    /\ UNCHANGED <<backend, app>>

\* What its calls have asked for is done all the same.
Unmount ==
    /\ mounted /\ mounted' = FALSE
    /\ items' = {} /\ conns' = [h \in Host |-> "none"]
    /\ check' = Check("idle", {})
    /\ calls' = {[c EXCEPT !.here = FALSE] : c \in {d \in calls : d.op # "list"}}
    /\ UNCHANGED <<backend, app>>

\* What a handler does with an answer it got: the call is over, and the list
\* may be asked for again.  Lists asked for before one is read count as one.
Done(c, again) == calls' = (calls \ {c}) \cup (IF again /\ c.here THEN {Ask("list", None)} ELSE {})

\* refresh has no guard: the last list to arrive is shown.  Every list, be it
\* the same, is new to the effect that asks which of its hosts are connected.
ListArrives(c) ==
    /\ c.op = "list" /\ c.at \in {"ok", "failed"}
    /\ items' = c.seen
    /\ check' = Check(IF c.seen = {} THEN "idle" ELSE "asked", {})
    /\ Done(c, FALSE)
    /\ UNCHANGED <<backend, app, mounted, conns>>

CheckAsks ==
    /\ check.at = "asked" /\ check' = Check("answered", items \cap live)
    /\ UNCHANGED <<backend, app, mounted, items, conns, calls>>

\* Mutant: what the check has found replaces what the rows know.
Replaced(found) == [h \in Host |-> IF h \in found THEN "connected" ELSE conns[h]]

\* {...next, ...p}: only a row that knows nothing is told.
Merged(found) == [h \in Host |-> IF h \in found /\ conns[h] = "none" THEN "connected" ELSE conns[h]]

CheckEnds ==
    /\ check.at = "answered"
    /\ conns' = Merged(check.found) /\ check' = Check("idle", {})
    /\ UNCHANGED <<backend, app, mounted, items, calls>>
-----------------------------------------------------------------------------
(* Its buttons. *)

Row(h) == mounted /\ h \in items
Send(op, h) == CanAsk /\ calls' = calls \cup {Ask(op, h)}

Connect(h) ==
    /\ Row(h) /\ conns[h] \notin {"connected", "connecting"} /\ Send("connect", h)
    /\ conns' = [conns EXCEPT ![h] = "connecting"]
    /\ UNCHANGED <<backend, app, mounted, items, check>>

Disconnect(h) ==
    /\ Row(h) /\ conns[h] = "connected" /\ Send("disconnect", h)
    /\ UNCHANGED <<backend, app, shown>>

\* Never disabled.
Remove(h) == Row(h) /\ Send("remove", h) /\ UNCHANGED <<backend, app, shown>>

\* Test connect and Push-install ("visit"), disabled while it runs; the Add form.
\* Bound: what leaves the connections alone is asked for on its own.
Busy(op, h) == \E c \in calls : c.op = op /\ c.host = h /\ c.here

TestOrInstall(h) ==
    /\ Row(h) /\ ~Busy("visit", h) /\ Requests = {} /\ Send("visit", h)
    /\ UNCHANGED <<backend, app, shown>>

SubmitAdd ==
    /\ mounted /\ ~Busy("add", None) /\ Requests = {} /\ Send("add", None)
    /\ UNCHANGED <<backend, app, shown>>
-----------------------------------------------------------------------------
(* The backend. *)

Becomes(c, at) == calls' = (calls \ {c}) \cup {[c EXCEPT !.at = at]}

ListHosts(c) ==
    /\ c.op = "list" /\ c.at = "sent"
    /\ calls' = (calls \ {c}) \cup {[c EXCEPT !.at = "ok", !.seen = registry]}
    /\ UNCHANGED <<backend, app, shown>>

\* ConnectHost, TestHostConnection and PushInstallHost look the host up first ...
LookUp(c) ==
    /\ c.op \in {"connect", "visit"} /\ c.at = "sent"
    /\ Becomes(c, IF c.host \in registry THEN "working" ELSE "failed")
    /\ UNCHANGED <<backend, app, shown>>

\* ... and then take their time over SSH; only a connection that answers is kept.
Works(c, ok) ==
    /\ c.op \in {"connect", "visit"} /\ c.at = "working"
    /\ live' = IF ok /\ c.op = "connect" THEN live \cup {c.host} ELSE live
    /\ Becomes(c, IF ok THEN "ok" ELSE "failed")
    /\ UNCHANGED <<registry, spare, app, shown>>

\* DisconnectHost; remove calls it before it calls RemoveHost.
DisconnectHost(c) ==
    /\ c.op \in {"disconnect", "remove"} /\ c.at = "sent"
    /\ live' = live \ {c.host}
    /\ Becomes(c, IF c.op = "remove" THEN "working" ELSE "ok")
    /\ UNCHANGED <<registry, spare, app, shown>>

\* RemoveHost closes the connection once more, then drops the entry; a list that
\* cannot be saved is no error to it.
RemoveHost(c) ==
    /\ c.op = "remove" /\ c.at = "working"
    /\ live' = live \ {c.host} /\ registry' = registry \ {c.host}
    /\ Becomes(c, "ok")
    /\ UNCHANGED <<spare, app, shown>>

\* A host that is added gets an id of its own.
AddHost(c) ==
    /\ c.op = "add" /\ c.at = "sent"
    /\ \/ \E h \in spare : registry' = registry \cup {h} /\ spare' = spare \ {h} /\ Becomes(c, "ok")
       \/ Becomes(c, "failed") /\ UNCHANGED <<registry, spare>>
    /\ UNCHANGED <<live, app, shown>>
-----------------------------------------------------------------------------
(* What the page does with the answers. *)

Answered(c, op) == c.op = op /\ c.at \in {"ok", "failed"}

ConnectAnswered(c) ==
    /\ Answered(c, "connect") /\ Done(c, c.at = "ok")
    /\ conns' = IF c.here THEN [conns EXCEPT ![c.host] = IF c.at = "ok" THEN "connected" ELSE "off"] ELSE conns
    /\ UNCHANGED <<backend, app, mounted, items, check>>

DisconnectAnswered(c) ==
    /\ Answered(c, "disconnect") /\ Done(c, FALSE)
    /\ conns' = IF c.here THEN [conns EXCEPT ![c.host] = "off"] ELSE conns
    /\ UNCHANGED <<backend, app, mounted, items, check>>

RemoveAnswered(c) ==
    /\ Answered(c, "remove") /\ Done(c, c.at = "ok")
    /\ conns' = IF c.here /\ c.at = "ok" THEN [conns EXCEPT ![c.host] = "none"] ELSE conns
    /\ UNCHANGED <<backend, app, mounted, items, check>>

\* An unreachable host is an answer to a test like any other.
OtherAnswered(c) ==
    /\ \/ Answered(c, "visit") /\ Done(c, TRUE)
       \/ Answered(c, "add") /\ Done(c, c.at = "ok")
    /\ UNCHANGED <<backend, app, shown>>
-----------------------------------------------------------------------------
Backend(c) ==
    \/ ListHosts(c) \/ LookUp(c) \/ DisconnectHost(c) \/ RemoveHost(c) \/ AddHost(c)
    \/ \E ok \in BOOLEAN : Works(c, ok)

Arrives(c) ==
    \/ ListArrives(c) \/ ConnectAnswered(c) \/ DisconnectAnswered(c) \/ RemoveAnswered(c)
    \/ OtherAnswered(c)

User ==
    \/ Mount \/ Unmount \/ SubmitAdd
    \/ \E h \in Host \cup {None} : SelectHost(h)
    \/ \E h \in Host : Connect(h) \/ Disconnect(h) \/ Remove(h) \/ TestOrInstall(h)

PollStep == \E p \in polls : PollAsks(p) \/ PollEnds(p)

Step ==
    \/ User \/ StartPoll \/ PollStep \/ CheckAsks \/ CheckEnds
    \/ \E c \in calls : Backend(c) \/ Arrives(c)

Up == registry \cap live
Watch == wasDown' = (active' \notin Up' \cup {None} \/ (wasDown /\ active' = active))

Next == Step /\ Watch

\* The interval fires again and again, and the backend answers every poll.
Spec ==
    /\ Init /\ [][Next]_vars /\ WF_vars(StartPoll /\ Watch)
    /\ \A p \in Poll : WF_vars((PollAsks(p) \/ PollEnds(p)) /\ p \in polls /\ Watch)
-----------------------------------------------------------------------------
\* A host that is no longer connected, or no longer saved, does not stay the active one: the
\* dashboard leaves it, unless the host is connected again.
DeadHostDropped == \A h \in Host : (active = h /\ h \notin Up) ~> (active # h \/ h \in Up)

\* The poll takes the active host away only if it was not up at some time
\* since the user chose it; what a poll of an earlier choice has seen is no reason.
OnlyDeadDropped ==
    [][PollStep /\ active # None /\ active' = None => wasDown]_vars

\* A row that says the host is off says so until a connection the user has asked
\* for is there: a check that asked before it went off does not turn it back.
StaysDisconnected ==
    [][\A h \in Host : conns[h] = "off" /\ ~Busy("connect", h) => conns'[h] # "connected"]_vars
=============================================================================
