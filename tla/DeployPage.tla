----------------------------- MODULE DeployPage -----------------------------
(***************************************************************************)
(* The Deploy page (DeployExplorer.tsx): it walks runtime, weights and server  *)
(* by itself, each step at most once per view, and offers a Retry on a step    *)
(* that failed.  What it shows comes from two places that do not know of each   *)
(* other: events the backend sends (deploy.go), which reach whatever page is on  *)
(* screen and do not say which model they are about, and the answers to          *)
(* refetchAll, which has no guard against an older answer arriving last.         *)
(*                                                                          *)
(* The walk is an effect: it is run after every change of what it reads, so here  *)
(* as part of every action that changes it.  Downloads, the install and a probe    *)
(* of /health go on when the page is left.  StartServe and the server itself are    *)
(* cut down to what the page sees of them: LocalServe has them in detail.            *)
(***************************************************************************)
EXTENDS Naturals

CONSTANTS Model, NoModel,
          MaxViews,   \* bound on the times the page is opened
          MaxWorkers  \* bound on the installs, and the downloads of one model, Retry may add to

ASSUME DeployAssumption == NoModel \notin Model /\ MaxViews \in Nat /\ MaxWorkers \in Nat

VARIABLES
    page,       \* what the page shows and remembers; its model is NoModel when it is not open
    views,      \* times it was opened
    fetches,    \* refetchAll in flight
    probes,     \* serverAlreadyUp in flight
    installed, installs,  \* the runtime, and goroutines that install it
    files, pulls,         \* model files, and goroutines that download them
    srv, leftover,        \* the tracked server; a stray process holds its port
    meddled     \* history: the page has heard of another model's download

runtimeVars == <<installed, leftover>>
deployVars == <<page, views, fetches, probes, runtimeVars, installs, files, pulls, srv, meddled>>

AutoStep == {"install", "pull", "start"}
ServeState == {"stopped", "starting", "running"}
Known == {"unknown", "no", "yes"}
Page == [model : Model \cup {NoModel}, runtime : Known, file : Known, server : ServeState,
         stage : {"idle", "busy", "error", "done"}, pulling : BOOLEAN, pullError : BOOLEAN,
         auto : SUBSET AutoStep]
Fetch == [at : {"asked", "read", "looking", "found"}, runtime : Known, server : ServeState, file : Known]
Probe == [model : Model, here : BOOLEAN, at : {"asked", "up", "down"}]
\* stop: StopServe was called; late: /health did not answer within its minute.
Srv == [model : Model \cup {NoModel}, state : ServeState, stop : BOOLEAN, late : BOOLEAN]
NoServer == [model |-> NoModel, state |-> "stopped", stop |-> FALSE, late |-> FALSE]

DeployTypeOK ==
    /\ page \in Page /\ views \in 0 .. MaxViews /\ fetches \subseteq Fetch /\ probes \subseteq Probe
    /\ installed \in BOOLEAN /\ installs \in Nat /\ leftover \in BOOLEAN
    /\ files \subseteq Model /\ pulls \in [Model -> Nat] /\ srv \in Srv /\ meddled \in BOOLEAN

Fresh(m) == [model |-> m, runtime |-> "unknown", file |-> "unknown", server |-> "stopped",
             stage |-> "idle", pulling |-> FALSE, pullError |-> FALSE, auto |-> {}]
Closed == Fresh(NoModel)
NewFetch == [at |-> "asked", runtime |-> "unknown", server |-> "stopped", file |-> "unknown"]

DeployInit ==
    /\ page = Closed /\ views = 0 /\ fetches = {} /\ probes = {}
    /\ installed \in BOOLEAN /\ installs = 0 /\ leftover \in BOOLEAN
    /\ files \in SUBSET Model /\ pulls = [m \in Model |-> 0] /\ srv = NoServer /\ meddled = FALSE

YesNo(b) == IF b THEN "yes" ELSE "no"
-----------------------------------------------------------------------------
(* The walk. *)

InstallDue(p) == p.runtime = "no" /\ "install" \notin p.auto /\ p.stage \in {"idle", "done"}
PullDue(p) ==
    /\ p.runtime = "yes" /\ p.file = "no" /\ "pull" \notin p.auto
    /\ ~p.pullError /\ ~p.pulling
StartDue(p) ==
    p.runtime = "yes" /\ p.file = "yes" /\ p.server = "stopped" /\ "start" \notin p.auto

Walked(p) ==
    CASE p.model = NoModel -> p
      [] p.model # NoModel /\ InstallDue(p) -> [p EXCEPT !.auto = @ \cup {"install"}, !.stage = "busy"]
      [] p.model # NoModel /\ PullDue(p) -> [p EXCEPT !.auto = @ \cup {"pull"}, !.pulling = TRUE]
      [] p.model # NoModel /\ StartDue(p) -> [p EXCEPT !.auto = @ \cup {"start"}]
      [] OTHER -> p

\* The page becomes p, and the step of the walk that is due is taken; i, d and t
\* are the installs, downloads and probes before that.
Render(p, i, d, t) ==
    LET due(step) == step \in Walked(p).auto \ p.auto
    IN  /\ page' = Walked(p)
        /\ installs' = IF due("install") THEN i + 1 ELSE i
        /\ pulls' = IF due("pull") THEN [d EXCEPT ![p.model] = @ + 1] ELSE d
        /\ probes' = IF due("start") THEN t \cup {[model |-> p.model, here |-> TRUE, at |-> "asked"]} ELSE t

\* An event changes the page to p, if there is one.
Heard(p) == IF page.model = NoModel THEN page ELSE p
Shows(p) == Render(Heard(p), installs, pulls, probes)
-----------------------------------------------------------------------------
(* The page opens, asks and is left. *)

Open(m) ==
    /\ page.model = NoModel /\ views < MaxViews
    /\ views' = views + 1 /\ page' = Fresh(m) /\ fetches' = {NewFetch} /\ meddled' = FALSE
    /\ UNCHANGED <<probes, runtimeVars, installs, files, pulls, srv>>

\* Answers that arrive later find no page; a probe goes on.
Leave ==
    /\ page.model # NoModel
    /\ page' = Closed /\ fetches' = {}
    /\ probes' = {[t EXCEPT !.here = FALSE] : t \in probes}
    /\ UNCHANGED <<views, runtimeVars, installs, files, pulls, srv, meddled>>

\* refetchAll: RuntimeStatus and ServerStatus, then ModelStatus.  Two that are as
\* far as one another with the same answers count as one.
FetchBecomes(f, g) == fetches' = (fetches \ {f}) \cup {g}

StatusRead(f) ==
    /\ f.at = "asked"
    /\ FetchBecomes(f, [f EXCEPT !.at = "read", !.runtime = YesNo(installed), !.server = srv.state])
    /\ UNCHANGED <<page, views, probes, runtimeVars, installs, files, pulls, srv, meddled>>

StatusArrives(f) ==
    /\ f.at = "read"
    /\ FetchBecomes(f, [NewFetch EXCEPT !.at = "looking"])
    /\ Shows([page EXCEPT !.runtime = f.runtime, !.server = f.server])
    /\ UNCHANGED <<views, runtimeVars, files, srv, meddled>>

FileRead(f) ==
    /\ f.at = "looking"
    /\ FetchBecomes(f, [f EXCEPT !.at = "found", !.file = YesNo(page.model \in files)])
    /\ UNCHANGED <<page, views, probes, runtimeVars, installs, files, pulls, srv, meddled>>

FileArrives(f) ==
    /\ f.at = "found" /\ fetches' = fetches \ {f}
    /\ Shows([page EXCEPT !.file = f.file])
    /\ UNCHANGED <<views, runtimeVars, files, srv, meddled>>

Refetched == IF page.model = NoModel THEN fetches ELSE fetches \cup {NewFetch}
-----------------------------------------------------------------------------
(* InstallRuntime and its events. *)

InstallStage ==
    /\ installs > 0 /\ Shows([page EXCEPT !.stage = "busy"])
    /\ UNCHANGED <<views, fetches, runtimeVars, files, srv, meddled>>

InstallEnds(ok) ==
    /\ installs > 0
    /\ installed' = (installed \/ ok)
    /\ fetches' = IF ok THEN Refetched ELSE fetches
    /\ Render(Heard([page EXCEPT !.stage = IF ok THEN "done" ELSE "error"]), installs - 1, pulls, probes)
    /\ UNCHANGED <<views, leftover, files, srv, meddled>>

\* Of PullModel the page hears without a name; meddled' notes whose it was.
Heed(m) == meddled' = (meddled \/ page.model \notin {m, NoModel})

PullProgress(m) ==
    /\ pulls[m] > 0 /\ Heed(m)
    /\ Shows([page EXCEPT !.pulling = TRUE, !.pullError = FALSE])
    /\ UNCHANGED <<views, fetches, runtimeVars, files, srv>>

\* Mutant: a download that failed is still shown as one that goes on.
FailedGoesOn(p) == [p EXCEPT !.pullError = FALSE, !.pulling = TRUE]

Failed(p) == [p EXCEPT !.pullError = TRUE, !.pulling = FALSE]

PullEnds(m, ok) ==
    /\ pulls[m] > 0 /\ Heed(m)
    /\ files' = IF ok THEN files \cup {m} ELSE files
    /\ fetches' = IF ok THEN Refetched ELSE fetches
    /\ Render(Heard(IF ok THEN [page EXCEPT !.pulling = FALSE] ELSE Failed(page)),
              installs, [pulls EXCEPT ![m] = @ - 1], probes)
    /\ UNCHANGED <<views, runtimeVars, srv>>
-----------------------------------------------------------------------------
(* The server, and its deploy:serve-status events. *)

Serves(s) == srv' = s /\ Shows([page EXCEPT !.server = s.state])

\* Refused, without a word to the page, while a server is tracked.
StartServe(m, t) ==
    IF srv.model = NoModel /\ installed /\ m \in files
    THEN LET s == [NoServer EXCEPT !.model = m, !.state = "starting"]
         IN  srv' = s /\ Render(Heard([page EXCEPT !.server = "starting"]), installs, pulls, t)
    ELSE srv' = srv /\ Render(page, installs, pulls, t)

\* The port answers when a server of ours is up, or the stray one.
ProbeAsks(t) ==
    /\ t.at = "asked"
    /\ probes' = (probes \ {t}) \cup
           {[t EXCEPT !.at = IF leftover \/ srv.state = "running" THEN "up" ELSE "down"]}
    /\ UNCHANGED <<page, views, fetches, runtimeVars, installs, files, pulls, srv, meddled>>

ProbeEnds(t) ==
    /\ \/ /\ t.at = "up" /\ srv' = srv
          /\ Render(IF t.here THEN [page EXCEPT !.server = "running"] ELSE page,
                    installs, pulls, probes \ {t})
       \/ t.at = "down" /\ StartServe(t.model, probes \ {t})
    /\ UNCHANGED <<views, fetches, runtimeVars, files, meddled>>

\* A server behind a stray one cannot have the port: it ends.
ServerUp ==
    /\ srv.state = "starting" /\ ~srv.stop /\ ~srv.late /\ ~leftover
    /\ Serves([srv EXCEPT !.state = "running"])
    /\ UNCHANGED <<views, fetches, runtimeVars, files, meddled>>

ServerLate ==
    /\ srv.state = "starting" /\ ~srv.late /\ srv' = [srv EXCEPT !.late = TRUE]
    /\ UNCHANGED <<page, views, fetches, probes, runtimeVars, installs, files, pulls, meddled>>

ServerEnds ==
    /\ srv.model # NoModel /\ Serves(NoServer)
    /\ UNCHANGED <<views, fetches, runtimeVars, files, meddled>>
-----------------------------------------------------------------------------
(* The user. *)

Complete(p) == p.runtime = "yes" /\ p.file = "yes" /\ p.server = "running"

\* The ready strip's Stop.
StopServe ==
    /\ page.model # NoModel /\ Complete(page) /\ srv.model # NoModel
    /\ srv' = [srv EXCEPT !.stop = TRUE]
    /\ UNCHANGED <<page, views, fetches, probes, runtimeVars, installs, files, pulls, meddled>>

\* SetupChecklist: which of its rows has a Retry.
Retriable(p) ==
    {step \in AutoStep :
        /\ ~Complete(p)
        /\ \/ step = "install" /\ p.stage = "error"
           \/ step = "pull" /\ p.pullError
           \/ step = "start" /\ p.runtime = "yes" /\ p.file = "yes" /\ p.server = "stopped"
              /\ step \in p.auto}

RetryRuntime ==
    /\ "install" \in Retriable(page) /\ installs < MaxWorkers
    /\ Render([page EXCEPT !.stage = "busy"], installs + 1, pulls, probes)
    /\ UNCHANGED <<views, fetches, runtimeVars, files, srv, meddled>>

RetryPull ==
    /\ "pull" \in Retriable(page) /\ pulls[page.model] < MaxWorkers
    /\ Render([page EXCEPT !.pullError = FALSE, !.pulling = TRUE],
              installs, [pulls EXCEPT ![page.model] = @ + 1], probes)
    /\ UNCHANGED <<views, fetches, runtimeVars, files, srv, meddled>>

\* Without a look at /health.
RetryServe ==
    /\ "start" \in Retriable(page) /\ StartServe(page.model, probes)
    /\ UNCHANGED <<views, fetches, runtimeVars, files, meddled>>
-----------------------------------------------------------------------------
Fetching == \E f \in fetches : StatusRead(f) \/ StatusArrives(f) \/ FileRead(f) \/ FileArrives(f)
Probing == \E t \in probes : ProbeAsks(t) \/ ProbeEnds(t)
Installing == \E ok \in BOOLEAN : InstallEnds(ok)
Pulling(m) == \E ok \in BOOLEAN : PullEnds(m, ok)
DeployUser == (\E m \in Model : Open(m)) \/ Leave \/ StopServe \/ RetryRuntime \/ RetryPull \/ RetryServe

DeployNext ==
    \/ DeployUser \/ Fetching \/ Probing \/ Installing \/ InstallStage
    \/ \E m \in Model : PullProgress(m) \/ Pulling(m)
    \/ ServerUp \/ ServerLate \/ ServerEnds

\* Every call is answered, every goroutine ends, and a server that is starting
\* comes up, ends or is late; the user owes nothing.
DeploySpec ==
    /\ DeployInit /\ [][DeployNext]_deployVars
    /\ \A f \in Fetch : WF_deployVars(f \in fetches /\ (StatusRead(f) \/ StatusArrives(f)
                                                 \/ FileRead(f) \/ FileArrives(f)))
    /\ WF_deployVars(Probing) /\ WF_deployVars(Installing) /\ \A m \in Model : WF_deployVars(Pulling(m))
    /\ WF_deployVars(srv.state = "starting" /\ (ServerUp \/ ServerLate \/ ServerEnds))
-----------------------------------------------------------------------------
TruePicture ==
    /\ page.runtime = YesNo(installed) /\ page.file = YesNo(page.model \in files)
    /\ page.server = srv.state

\* The page is not done, has no Retry to offer and yet shows how things are.
Stranded ==
    /\ page.model # NoModel /\ ~Complete(page) /\ Retriable(page) = {}
    /\ TruePicture /\ ~srv.late /\ ~meddled

\* "The checklist keeps a Retry on any failed step": a page that knows how things
\* are ends up with a live model or a Retry, whatever steps fail and however the
\* page was left and opened in between, unless it heard of another model's download.
NeverStranded == []<>~Stranded
=============================================================================
