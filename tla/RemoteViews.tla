----------------------------- MODULE RemoteViews -----------------------------
(***************************************************************************)
(* The dashboard's views of a remote host: RemoteOverview and                *)
(* RemoteModelsCard of DashboardExplorer.tsx, the calls they make             *)
(* (hostconn.go) and what the host's service does with them (svcapi.go,       *)
(* pull.go).                                                                *)
(*                                                                          *)
(* A card is not keyed by its host: choosing another host in the title bar    *)
(* keeps the card and all it holds, and runs its effects again; leaving the   *)
(* tab throws the card away, but not the calls it has made.  A call is a       *)
(* record that waits for the host (at = "sent"), then for the page.  `here'    *)
(* says that the card that made it is still the one on screen.                *)
(***************************************************************************)
EXTENDS Naturals, FiniteSets

CONSTANTS RemoteHost, Model, Nothing,
          PullHost,  \* bound: the hosts that are asked to pull
          MaxAsked,  \* bound on the requests of the user in flight
          MaxReads   \* bound on the lists of models in flight

ASSUME RemoteViewsAssumption ==
    Nothing \notin RemoteHost \cup Model /\ MaxAsked \in Nat /\ MaxReads \in Nat

VARIABLES
    activeHost, tab,         \* the active host and the dashboard's tab
    disk, pulls, downloader, \* per host: models on disk, state and downloaders of each pull
    forgotten,               \* history, per host: the pulls whose record a restart lost
    info, start, list,       \* RemoteOverview: what /v1/info said, the Start form, its options
    data, row,               \* RemoteModelsCard: the list, the row of the pull
    calls                    \* calls in flight

app == <<activeHost, tab>>
remote == <<disk, pulls, downloader, forgotten>>
overview == <<info, start, list>>
card == <<data, row>>
viewsVars == <<app, remote, overview, card, calls>>

Tab == {"overview", "models", "elsewhere"}
Stage == {"none", "pulling", "done", "error"}
Call == [op : {"info", "list", "data", "serve", "stop", "pull", "status"},
         host : RemoteHost, here : BOOLEAN, model : Model \cup {Nothing},
         at : {"sent", "checked", "ok", "failed", "running", "idle"} \cup Stage, seen : SUBSET Model]
Ask(op, h, m) == [op |-> op, host |-> h, here |-> TRUE, model |-> m, at |-> "sent", seen |-> {}]

NoInfo == [of |-> Nothing, phase |-> "unknown"]
EMPTY_START == [open |-> FALSE, model |-> Nothing, busy |-> FALSE]
NoData == [of |-> Nothing, models |-> {}, err |-> FALSE]
NoRow == [of |-> Nothing, model |-> Nothing, stage |-> "none"]

ViewsTypeOK ==
    /\ activeHost \in RemoteHost \cup {Nothing} /\ tab \in Tab
    /\ disk \in [RemoteHost -> SUBSET Model] /\ pulls \in [RemoteHost -> [Model -> Stage]]
    /\ downloader \in [RemoteHost -> [Model -> 0 .. 2]]
    /\ forgotten \in [RemoteHost -> SUBSET Model]
    /\ info \in [of : RemoteHost \cup {Nothing}, phase : {"unknown", "idle", "running"}]
    /\ start \in [open : BOOLEAN, model : Model \cup {Nothing}, busy : BOOLEAN]
    /\ list \subseteq Model
    /\ data \in [of : RemoteHost \cup {Nothing}, models : SUBSET Model, err : BOOLEAN]
    /\ row \in [of : RemoteHost \cup {Nothing}, model : Model \cup {Nothing}, stage : Stage]
    /\ calls \subseteq Call

ViewsInit ==
    /\ activeHost = Nothing /\ tab = "elsewhere"
    /\ disk = [h \in RemoteHost |-> {}] /\ pulls = [h \in RemoteHost |-> [m \in Model |-> "none"]]
    /\ downloader = [h \in RemoteHost |-> [m \in Model |-> 0]]
    /\ forgotten = [h \in RemoteHost |-> {}]
    /\ info = NoInfo /\ start = EMPTY_START /\ list = {}
    /\ data = NoData /\ row = NoRow /\ calls = {}

Shown(t) == activeHost # Nothing /\ tab = t
CanAsk == Cardinality({c \in calls : c.op \in {"serve", "stop", "pull"}}) < MaxAsked
CanRead == Cardinality({c \in calls : c.op \in {"list", "data"}}) < MaxReads
-----------------------------------------------------------------------------
(* What a change of activeHost or tab does to the card on screen. *)

Polls == {"info", "status"}

\* Mutant: an effect that is run again does not end the one before.
TornDownNot(cs) == cs

\* Answers to the polls of an effect that was torn down find alive = false and
\* are dropped.
TornDown(cs) == {c \in cs : c.op \notin Polls}

\* The calls of a card that is gone: what the host does for them still counts.
Orphaned(cs) == {[c EXCEPT !.here = FALSE] : c \in {d \in cs : d.op \in {"serve", "stop", "pull"}}}

MountCalls(t, h) ==
    CASE h = Nothing -> {}
      [] h # Nothing /\ t = "overview" -> {Ask("info", h, Nothing), Ask("list", h, Nothing)}
      [] h # Nothing /\ t = "models" -> {Ask("data", h, Nothing)}
      [] OTHER -> {}

\* A card is taken down and another put up, with everything as useState has it.
Remount(t, h) ==
    /\ info' = NoInfo /\ start' = EMPTY_START /\ list' = {}
    /\ data' = NoData /\ row' = NoRow
    /\ calls' = Orphaned(calls) \cup MountCalls(t, h)

\* The same card is given another host: effects with host.id in their
\* dependencies run again; only the list of models is reset first.
Rehost(t, h) ==
    /\ data' = IF t = "models" THEN NoData ELSE data
    /\ calls' = TornDown(calls) \cup MountCalls(t, h)
    /\ UNCHANGED <<overview, row>>

ChooseHost(h) ==
    /\ h # activeHost /\ activeHost' = h /\ CanRead
    /\ IF activeHost = Nothing \/ h = Nothing THEN Remount(tab, h) ELSE Rehost(tab, h)
    /\ UNCHANGED <<tab, remote>>

OpenTab(t) ==
    /\ t # tab /\ tab' = t
    /\ Remount(t, activeHost)
    /\ UNCHANGED <<activeHost, remote>>
-----------------------------------------------------------------------------
(* The host's side of a call.  Its server is started and stopped by others,   *)
(* too, and ends by itself, so that /v1/info may say either.                  *)

Answered(c, answer) == calls' = (calls \ {c}) \cup {answer}

Read(c) ==
    /\ c.op \in {"info", "list", "data"} /\ c.at = "sent"
    /\ IF c.op = "info" THEN \E phase \in {"running", "idle"} : Answered(c, [c EXCEPT !.at = phase])
       ELSE Answered(c, [c EXCEPT !.at = "ok", !.seen = disk[c.host]])
    /\ UNCHANGED <<app, remote, overview, card>>

\* handleServe and handleStop write the configuration the supervisor follows.
Configure(c) ==
    /\ c.op \in {"serve", "stop"} /\ c.at = "sent"
    /\ Answered(c, [c EXCEPT !.at = "ok"])
    /\ UNCHANGED <<app, remote, overview, card>>

\* The host is not reached.
Fails(c) ==
    /\ c.at = "sent" /\ Answered(c, [c EXCEPT !.at = "failed"])
    /\ UNCHANGED <<app, remote, overview, card>>

\* handlePullStart looks for a pull in flight first ...
PullCheck(c) ==
    /\ c.op = "pull" /\ c.at = "sent"
    /\ Answered(c, [c EXCEPT !.at = IF pulls[c.host][c.model] = "pulling" THEN "pulling" ELSE "checked"])
    /\ UNCHANGED <<app, remote, overview, card>>

\* ... and then records its own and starts the downloader.
PullStart(c) ==
    /\ c.op = "pull" /\ c.at = "checked" /\ downloader[c.host][c.model] < 2
    /\ pulls' = [pulls EXCEPT ![c.host][c.model] = "pulling"]
    /\ downloader' = [downloader EXCEPT ![c.host][c.model] = @ + 1]
    /\ forgotten' = [forgotten EXCEPT ![c.host] = @ \ {c.model}]
    /\ Answered(c, [c EXCEPT !.at = "pulling"])
    /\ UNCHANGED <<app, disk, overview, card>>

Progress(h, m) ==
    /\ downloader[h][m] > 0
    /\ pulls' = [pulls EXCEPT ![h][m] = "pulling"]
    /\ UNCHANGED <<app, disk, downloader, forgotten, overview, card, calls>>

\* Mutant: a pull that has ended is forgotten.
PullEndsForgotten(h, m, end) ==
    /\ downloader[h][m] > 0
    /\ downloader' = [downloader EXCEPT ![h][m] = @ - 1]
    /\ pulls' = [pulls EXCEPT ![h][m] = "none"]
    /\ disk' = IF end = "done" THEN [disk EXCEPT ![h] = @ \cup {m}] ELSE disk
    /\ UNCHANGED <<app, forgotten, overview, card, calls>>

PullEnds(h, m, end) ==
    /\ downloader[h][m] > 0
    /\ downloader' = [downloader EXCEPT ![h][m] = @ - 1]
    /\ pulls' = [pulls EXCEPT ![h][m] = end]
    /\ disk' = IF end = "done" THEN [disk EXCEPT ![h] = @ \cup {m}] ELSE disk
    /\ UNCHANGED <<app, forgotten, overview, card, calls>>

\* The host's service is restarted: the table of pulls is in memory, and empty
\* again, its downloaders are gone, a request it was at work on fails; what was
\* downloaded in full stays.  Before the first pull there is nothing to lose.
ServiceRestarts(h) ==
    /\ \E m \in Model : pulls[h][m] # "none"
    /\ pulls' = [pulls EXCEPT ![h] = [m \in Model |-> "none"]]
    /\ downloader' = [downloader EXCEPT ![h] = [m \in Model |-> 0]]
    /\ forgotten' = [forgotten EXCEPT ![h] = @ \cup {m \in Model : pulls[h][m] # "none"}]
    /\ calls' = {c \in calls : c.host # h \/ c.at # "checked"}
                   \cup {[c EXCEPT !.at = "failed"] : c \in {d \in calls : d.host = h /\ d.at = "checked"}}
    /\ UNCHANGED <<app, disk, overview, card>>

\* No pull of that name on this host is a 404, and the page gets an error.
PullStatus(c) ==
    /\ c.op = "status" /\ c.at = "sent"
    /\ Answered(c, [c EXCEPT !.at = IF pulls[c.host][c.model] = "none" THEN "failed"
                                    ELSE pulls[c.host][c.model]])
    /\ UNCHANGED <<app, remote, overview, card>>
-----------------------------------------------------------------------------
(* RemoteOverview and its tiles. *)

Tick ==
    /\ Shown("overview") /\ \A c \in calls : c.op # "info"
    /\ calls' = calls \cup {Ask("info", activeHost, Nothing)}
    /\ UNCHANGED <<app, remote, overview, card>>

InfoArrives(c) ==
    /\ c.op = "info" /\ c.at # "sent"
    /\ info' = IF c.at = "failed" THEN info ELSE [of |-> c.host, phase |-> c.at]
    /\ calls' = calls \ {c}
    /\ UNCHANGED <<app, remote, start, list, card>>

\* fetchModels of the overview has no alive flag: the last answer wins.
ListArrives(c) ==
    /\ c.op = "list" /\ c.at # "sent"
    /\ list' = c.seen
    /\ calls' = calls \ {c}
    /\ UNCHANGED <<app, remote, info, start, card>>

IsIdle == info.phase # "running"

ToggleStart ==
    /\ Shown("overview") /\ IsIdle /\ CanRead
    /\ start' = [start EXCEPT !.open = ~@]
    /\ calls' = calls \cup {Ask("list", activeHost, Nothing)}
    /\ UNCHANGED <<app, remote, info, list, card>>

PickModel(m) ==
    /\ Shown("overview") /\ start.open /\ IsIdle
    /\ m \in list \cup {Nothing} /\ m # start.model
    /\ start' = [start EXCEPT !.model = m]
    /\ UNCHANGED <<app, remote, info, list, card, calls>>

SubmitStart ==
    /\ Shown("overview") /\ start.open /\ IsIdle
    /\ ~start.busy /\ start.model # Nothing /\ CanAsk
    /\ start' = [start EXCEPT !.busy = TRUE]
    /\ calls' = calls \cup {Ask("serve", activeHost, start.model)}
    /\ UNCHANGED <<app, remote, info, list, card>>

StartAnswered(c) ==
    /\ c.op = "serve" /\ c.at # "sent"
    /\ start' = CASE ~c.here -> start
                  [] c.here /\ c.at = "ok" -> EMPTY_START
                  [] OTHER -> [start EXCEPT !.busy = FALSE]
    /\ calls' = calls \ {c}
    /\ UNCHANGED <<app, remote, info, list, card>>

SubmitStop ==
    /\ Shown("overview") /\ ~IsIdle /\ CanAsk
    /\ calls' = calls \cup {Ask("stop", activeHost, Nothing)}
    /\ UNCHANGED <<app, remote, overview, card>>

StopAnswered(c) ==
    /\ c.op = "stop" /\ c.at # "sent"
    /\ calls' = calls \ {c}
    /\ UNCHANGED <<app, remote, overview, card>>
-----------------------------------------------------------------------------
(* RemoteModelsCard. *)

\* Its fetchModels has no alive flag either.
DataArrives(c) ==
    /\ c.op = "data" /\ c.at # "sent"
    /\ data' = IF c.at = "failed" THEN [data EXCEPT !.err = TRUE]
               ELSE [of |-> c.host, models |-> c.seen, err |-> FALSE]
    /\ calls' = calls \ {c}
    /\ UNCHANGED <<app, remote, overview, row>>

\* The button is not disabled while a pull is being asked for.  Bound: only
\* the hosts of PullHost are asked.
StartPull(m) ==
    /\ Shown("models") /\ CanAsk /\ activeHost \in PullHost
    /\ calls' = calls \cup {Ask("pull", activeHost, m)}
    /\ UNCHANGED <<app, remote, overview, card>>

PullAnswered(c) ==
    /\ c.op = "pull" /\ c.at \in {"pulling", "failed"}
    /\ IF c.here /\ c.at = "pulling"
       THEN /\ row' = [of |-> c.host, model |-> c.model, stage |-> "pulling"]
            /\ calls' = TornDown(calls \ {c})
       ELSE calls' = calls \ {c} /\ row' = row
    /\ UNCHANGED <<app, remote, overview, data>>

PollPull ==
    /\ Shown("models") /\ row.stage = "pulling"
    /\ \A c \in calls : c.op # "status"
    /\ calls' = calls \cup {Ask("status", activeHost, row.model)}
    /\ UNCHANGED <<app, remote, overview, card>>

\* setActive with each answer, which tears the effect down: the timer that is
\* to clear the row asks that effect's alive, and so clears nothing.  "done"
\* fetches the list again.
RowArrives(c) ==
    /\ c.op = "status" /\ c.at \notin {"sent", "failed"}
    /\ c.at = "done" => CanRead
    /\ row' = [row EXCEPT !.stage = c.at]
    /\ calls' = TornDown(calls \ {c}) \cup (IF c.at = "done" THEN {Ask("data", activeHost, Nothing)} ELSE {})
    /\ UNCHANGED <<app, remote, overview, data>>

\* "Transient - keep polling."
StatusFails(c) ==
    /\ c.op = "status" /\ c.at = "failed"
    /\ calls' = calls \ {c}
    /\ UNCHANGED <<app, remote, overview, card>>
-----------------------------------------------------------------------------
User ==
    \/ \E h \in RemoteHost \cup {Nothing} : ChooseHost(h)
    \/ \E t \in Tab : OpenTab(t)
    \/ ToggleStart \/ \E m \in Model \cup {Nothing} : PickModel(m)
    \/ SubmitStart \/ SubmitStop
    \/ \E m \in Model : StartPull(m)

HostSide(c) == Read(c) \/ Configure(c) \/ PullCheck(c) \/ PullStart(c) \/ PullStatus(c)

Arrives(c) ==
    \/ InfoArrives(c) \/ ListArrives(c) \/ StartAnswered(c) \/ StopAnswered(c)
    \/ DataArrives(c) \/ PullAnswered(c) \/ RowArrives(c) \/ StatusFails(c)

Downloads == \E h \in RemoteHost, m \in Model : Progress(h, m) \/ \E end \in {"done", "error"} : PullEnds(h, m, end)

ViewsNext ==
    \/ User \/ Downloads \/ Tick \/ PollPull
    \/ \E h \in RemoteHost : ServiceRestarts(h)
    \/ \E c \in calls : HostSide(c) \/ Fails(c) \/ Arrives(c)

\* Downloads end, a host that is asked again and again is reached at some time,
\* and the page's timers and handlers run.
Fairness ==
    /\ \A h \in RemoteHost, m \in Model : WF_viewsVars(\E end \in {"done", "error"} : PullEnds(h, m, end))
    /\ WF_viewsVars(PollPull)
    /\ SF_viewsVars(\E c \in calls : PullStatus(c)) /\ SF_viewsVars(\E c \in calls : RowArrives(c))
    /\ WF_viewsVars(\E c \in calls : StatusFails(c))
    /\ WF_viewsVars(\E c \in calls : c.op = "data" /\ Read(c)) /\ WF_viewsVars(\E c \in calls : DataArrives(c))

ViewsSpec == ViewsInit /\ [][ViewsNext]_viewsVars /\ Fairness
-----------------------------------------------------------------------------
\* Once the overview shows the chosen host's state, no late answer puts another
\* host's in its place (the alive flags of the polling effects).
NeverStaleAgain ==
    [][info.of = activeHost /\ activeHost' = activeHost /\ tab' = tab => info'.of = activeHost]_viewsVars

\* The row of a pull comes to say how the pull ended, as long as the user stays
\* with it and asks for no other pull, and the host's service is not restarted
\* meanwhile: a service that has lost the record answers 404, which the page takes
\* for transient, and the row goes on for ever.
PullSeen ==
    (Shown("models") /\ row.stage = "pulling" /\ row.of = activeHost)
        ~> \/ row.stage # "pulling" \/ row.of # activeHost \/ tab # "models"
           \/ \E c \in calls : c.op = "pull"
           \/ row.of # Nothing /\ row.model \in forgotten[row.of]
=============================================================================
