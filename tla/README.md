# Blueprint, specified

TLA+ specifications of the Blueprint desktop and of the programs around it: what
was taken from the source, what TLC checks on small instances, and what TLAPS
proves for all of them. `PROJECT.json` is the index: components, runs, mutants, the
lines each definition stands for, hazards and theorems.

    tlc -workers 2 -config Relay.cfg Relay      a run (runs are listed below)
    tlapm RelayProofs.tla                       the proofs of a module

## 1. The system

Blueprint runs language models on a person's own machines. There are four programs:

- the **desktop** (Go behind a web view): every call of the frontend runs on a
  goroutine of its own, so any two calls can overlap; its frontend (React) runs on
  one thread, but an asynchronous handler gives it up at every `await`, goes on after
  its page was left, and hears of the backend by answers and events in any order;
- **blueprint-svc**, a service that keeps an inference engine (`llama-server`)
  running on a machine and answers a small HTTP API;
- **blueprint-relay**, a public WebSocket server that joins a desktop and a
  remote machine that cannot reach each other directly;
- **Python sidecars** for LoRA training and prompt compression.

They share files under `~/.blueprint` and speak over WebSockets, SSH tunnels and
local HTTP. Most of what is hard is in these places: goroutines that let a lock go
between looking and acting, files that are read, changed and written whole by
several of them, programs that outlive or predecease whoever started them, and pages
that hold a picture of a backend which has gone on since.

### Components

| Component | State | Operations | Talks to |
|---|---|---|---|
| relay coordinator `internal/relay/relay.go` | pending codes; per registration a channel of one | Register, Join, Cancel, Pending | relay server |
| relay server and clients `server.go`, `client.go` | per connection a handler, a bounded send channel, a write pump | handleHost, handleGuest, Deliver, sendControl; RegisterAsHost, JoinAsGuest, Send, Recv | coordinator; TCP |
| secure link `e2e.go` | two keys, two counters | handshake, Send, Recv | a relayed link |
| control protocol `internal/control` | pending calls by id, one channel each | do, readLoop, closeAll; Serve, serveOne | secure link |
| agent, enrollment `internal/agent`, `enroll.go` | table of connected machines | StartEnrollment, Remove, the remote calls | control, fleet registry |
| supervisor `cmd/blueprint-svc` | worker, backoff, restart count, tracked child | runSupervisor, Execute / main | config and status files, the engine |
| host API and agent runtime `svcapi`, `agentruntime` | pulls in memory; config file | serve, stop, pull, proxy | supervisor, through files |
| saved registries `fleet`, `hosts`, `remotes` | a slice, a dirty flag, a JSON file | Add, Update, Remove, Touch..., save, load | disk |
| host connections `hostconn.go`, `svcclient` | table of SSH clients, cached token | Connect, Disconnect, New with one retry | SSH, host API |
| calibration runs `calibrate*.go`, `internal/calibration` | `meta.json` and artifacts | create, save prompts, imatrix, quantize, eval, delete | llama.cpp tools |
| the desktop's llama-server `deploy.go`, `maintain.go` | tracked process, state, model | StartServe, StopServe, DeleteModel, Reset | the engine |
| training and compression `train.go`, `internal/sidecar` | a sidecar, its jobs | ensure, start, cancel, stop | Python |
| Python runtime `pyruntime` | install in flight, manifest | install, uninstall | uv, pip |
| prompt cache, router | entries, counters, a debounced or immediate save | Lookup, Store; the routing decision | disk |
| planner `frontend/src/planner/*.ts` | none | memory, placement, split, ranking, tiers, cost | the wizard |
| wizard `App.tsx`, `planner`, `hardware`, `optimize` | requirements, chosen model, serve options, step | every control of four pages, in any order | planner, deploy page |
| deploy page `DeployExplorer.tsx` | what is known of runtime, file and server; latches of the walk | install, pull, serve, stop, retry | `deploy.go`, by calls and events |
| chats `DashboardChat`, `VerifyChat`, `RemoteChatCard` | messages, one send of its own | send, stop, clear, compress | engine, prompt cache, host API |
| hosts page `HostsExplorer.tsx`, selector and poll in `App.tsx` | rows and their connection; active host | add, connect, disconnect, remove, select | host connections, hosts registry |
| remote host views `DashboardExplorer.tsx` | status, start form, list of models, row of a pull | start, stop, pull | host API, over SSH |
| other pages, installers, service control, engines, probes | none that other parts depend on | | |

### What makes each correct

- *Coordinator*: a code brings one guest to one host; both get the same session;
  Join never blocks. *Server*: frames reach the other end only, in order; a slow or
  absent party delays nobody; handlers end.
- *Control*: a call sees its own frames only, all of its events before its result;
  it returns; nothing stays behind.
- *Supervisor*: no engine without someone waiting for it; a stop leaves none; the
  status file is true; restarts stay within the budget.
- *Registries*: in memory a plain list; no change is forgotten; the file ends up
  equal to the list.
- *Calibration*: `meta.json` does not claim what is not there and does not say
  "running" when nothing runs.
- *The desktop's server*: a server that lives can be stopped, and a stopped one ends.
- *Planner and wizard*: sizes, splits and recommendations hold what they are for,
  whatever order the pages are visited in; what was chosen for one model is not used
  for another that cannot have it.
- *Deploy page*: it ends up with a live model or with a Retry.
- *Chats*: an answer stands where it was asked for; the cache holds whole answers.
- *Hosts page, remote views*: no late answer undoes what the user did since; a host
  that is gone does not stay the active one; a pull's end is seen.

The hazards these statements are aimed at, each at its line, are in `PROJECT.json`;
those of parts that are not modelled are in section 5.

## 2. The modules

`Pairing` and `SavedList` are abstract specifications. `RelayServer` extends `Relay`
and composes it with connections and clients. A module `XProofs` extends `X` and
TLAPS and holds the theorems about it; definitions named "Mutant" in a module are
broken variants of the action below them, kept to show that a property notices.

### Pairing, Relay

`Relay` is `relay.go`. Register, Cancel, Pending and the first half of Join run under
the mutex: one action each. Join draws the session id and sends to the host after
the lock is released: `JoinDeliver` (or `JoinGenFails`) is a step of its own. The
generator may return a code that is in use, because nothing in the code prevents it.
Time is a counter of ticks per registration. `Pairing` promises a matching: a host
once bound stays bound, no guest is bound twice. The refinement maps a host to the
guest whose Join consumed its registration and returned.

### RelayServer

The handler goroutine of a connection is `pc`, its channel `sendq`, `done` is
`closed`; the two directions of TCP are bounded queues, so writes can block. The
client may stop reading or leave at any moment. `Deliver`'s three-way select is
`ForwardQueued` and `ForwardFails`; `sendControl` is an action that is enabled when
the channel has room or the connection is closed. A frame is its sender and number.

### Control

`do` in its stages (take an id, send, wait, take the entry out), `readLoop` split at
the point where it has the channel and has left the mutex, `closeAll`, and one
`serveOne` per request. The connection is ordered, bounded, and may break at any
time. What the relay does under it is replaced by that ordered connection: the
secure link refuses anything else.

### Supervisor

`runSupervisor` step by step, `exec.CommandContext`'s watcher, the child tracker, and
the bridge of each platform (`platform` is chosen in Init). The config file can be
found torn, since it is truncated and then written. A write of the status file may fail,
and leaves the file as it was or truncated; the code drops the error, and the history
variable `lost` notes it. Each config has its own limit of restarts, while the count
goes back to earlier ones; the history variable `fails` counts those of the config at hand.
A minute of uptime is a free choice at each crash. `MCSupervisor` gives TLC two configs,
one without a limit. The registry of Windows services and systemd are outside.

### SavedList, Registry

The three registries are one program with different calls, so one module with a
`kind`. `save()` is split where it releases the lock; the slice it took shares its
array with the list, which Remove filters in place. A marshal that runs during such
a change is a data race: for each position it may find any value the cell had
meanwhile, or fields of several. `os.WriteFile` truncates, then writes; the end of
the program may fall anywhere. `SavedList` is a plain list: the refinement shows that
sharing, filtering and growing the array stay invisible in memory.

### Calibration

One run and its `meta.json`. Each goroutine (a call, a worker, a scanner of
`llama-imatrix`'s output) holds a copy between its read and its write. A step's
worker waits for the mutex of its kind, if there is one (quantize has none), runs the
tool, and rewrites the phase. Two history variables qualify the properties: `missed`
(an update was lost, torn or never made) and `gutted` (the run was deleted under a
goroutine at work). Not followed: calls on a run that has been deleted while another
goroutine still holds its copy, and more than one scanner.

### LocalServe

StartServe's two critical sections with the program's start between them, the poller
and the reaper each server gets, StopServe, and the calls that remove files. All
servers share a port, so a poller may take another server's answer for its own.
History variables: `overlapped` (two StartServe between their critical sections at
once) and `left` (the desktop ended before its server).

### PlannerMath, Wizard, MCWizard

`PlannerMath` is the planner as operators: each function of `vram.ts`, `placement.ts`,
`rank.ts`, `sizing.ts` and `cost.ts` is one, on integers in tenths or hundredths that
are rounded where the code rounds; orders are stated (`RanksBefore`, `Sorted`) rather
than sorted by hand, and a sort or filter is the list of members by their place
in the order (`InOrder`, `AtPositions`). `Wizard` is the store that four pages share: each control is an
action, the step rail leads anywhere at any time, the catalogue and the hardware
snapshot arrive late or never. What a page shows is computed from the store and is an
operator, not state. `MCWizard` gives TLC the catalogue, the machines and the prices.

### RemoteViews

Two cards that show one remote host. A call is a record that waits for the host, then
for the page; `here` says whether the effect that made it is still alive. Changing host
keeps the cards and reruns their effects (`TornDown`, `Rehost`), changing tab throws
them away. The host has its models, its table of pulls with the check and the set
apart (`PullCheck`, `PullStart`), and its downloaders. Its service may be restarted, which
empties the table (`ServiceRestarts`). History variable: `forgotten` (the pulls whose record
a restart lost).

### HostsPage

The page, the table of SSH clients and the application's poll of it: three pictures of
one thing. A poll is a record made for the host that was active then; the page's check
of its rows is one more. The registry's calls are `hosts.go`; a dial (`Works`) and the
entry in the table are one step after the lookup that precedes them. Remove closes the
connection twice, by a call of its own and in `RemoveHost`. History variable:
`wasDown` (the active host was down at some time since it was chosen).

### DeployPage

The walk is an effect that runs after every change of what it reads; so it is part of
every action that changes the page (`Render`, `Walked`). Events do not say which model
they are for, and reach whichever page is open; refetches may overtake each other;
downloads, the install and the probe of the port outlive the page. History variable:
`meddled` (the page has heard of another model's download).

### Chat

Three chats, one module with a `kind`. A send is a record with its stage; `here` is
false once its component was left. A local send writes all it has read so far into the
last message; a remote one appends what events bring, of which only the host is looked
at (`ForUs`). The dashboard's chat is on screen while the dashboard believes the service to
serve (`ServiceSeen`), next to the card that clears the prompt cache or switches it. An
answer goes to the cache without being waited for: `stores` are those on their way, and
the cache may have been cleared, switched off or hit since. Lookups drop what has
expired, stores what is too much. History variables: `told` (answers that came to their
end), `left` (sends whose component was left).

## 3. What the runs check

| Run | Instance | Shows |
|---|---|---|
| `relay` | 2 hosts, 3 guests, 2 codes, expiry after 1 tick | `SingleUse`, `SameSession`, `NeverBlocks`, and `PairingSpec`: Relay implements Pairing |
| `relay_server` | 1 host, 1 guest, send buffers of 2, TCP of 1, 2 frames each way | `FramesInOrder`, `LinkedMeansPaired`; `NeverWedged`, `HostWaitEnds`, `NoHandlerLeak` |
| `control` | 2 calls, channels and connection of 1, 2 events | `OwnFrames`, `EventsComplete`, `NothingPending`; `EveryCallReturns`, `ReadLoopEnds` unless somebody gave up early |
| `supervisor` | both platforms, 2 configs (no limit; 2), 2 writes, 3 restarts counted, failing status writes (278k) | `Supervised`, `CleanStop`, `StatusNamesChild`, `BudgetKept`; `IdlePicksUp`, `StopEnds` |
| `registry` | 3 kinds, 2 overlapping calls, 2 entries ever, any number of restarts | `SaveOwed`, `QuietMeansSaved`, `ListSpec`: in memory a plain list |
| `calibration` | 2 calls or workers, 1 scanner, failures and restarts | `ClaimsAreBacked`, `RunningMeansRunning`, `StepsSerialised` |
| `local_serve` | 2 overlapping calls, 3 programs, restarts of the desktop | `LiveIsTracked`, `NeverReplaced`; `StopEnds` |
| `wizard` | 4 models, 5 machines, 8 cards, 5 price lists (213,102 states) | `QuantOfModel`, `HardwareHolds`, `PlannerHolds` |
| `remote_views` | 2 hosts, 1 model, 1 request and 1 list in flight, restarts of a host's service (191k) | `NeverStaleAgain`; `PullSeen` |
| `hosts_page` | 1 host, not saved at first, 2 requests and 1 poll in flight (443,517) | `OnlyDeadDropped`, `StaysDisconnected`; `DeadHostDropped` |
| `deploy_page` | 2 models, 2 views of the page, 1 extra worker by Retry (49k) | `NeverStranded` |
| `chat` | 3 sends of one wording, answers of up to 2 pieces, 2 hosts (777k) | `AnswersApart`, `CachedWhole` |

Every property has a mutant in `PROJECT.json`: a plausible bug in one mapped definition
that TLC then finds to violate it. The type invariants are not properties of runs: they
are the first conjunct of the inductive invariants of section 4 where there is a proof.

Some of them, in words:

- `LinkedMeansPaired`: the guest of a host with a link has joined that host. A guest with a link has
  its host's handler on their session, or about to take it; it has nobody at the other end only if
  the code's lifetime passed while its Join was between lookup and delivery.
- `Supervised`: an engine has a worker that waits for it. Only a service whose bridge gave the worker up
  may leave one behind on its exit.
- `CleanStop`, `StatusNamesChild`: the status file says "stopped" at the end, and while a child is
  waited for it names its config, each unless the write that should say so failed.
- `BudgetKept`: no config has more restarts counted against it than it allows, even if the count was
  beyond its limit when it was read; the worker gives up only when the count has reached the limit.
- `IdlePicksUp`: a config written while the worker idles is read and tried.
- `PullSeen`: while the user stays with it, the row of a pull comes to say how it ended, if the host's service
  is not restarted meanwhile (section 6).

- `QuantOfModel`: whatever the order of pages and choices, the quantisation set for the server
  is one the chosen model comes in, though it outlives the model it was chosen for.
- `HardwareHolds`: each recommendation holds the model and its workload with the room its tier
  promises, if any configuration does; they grow while there is a larger one; self-hosting
  wins above the volume the card names and not below it.
- `PlannerHolds`: the models listed are those the filters let through, ordered by score and
  popularity; no model is judged worse on a machine that has all that another has, and more;
  an automatic split gives no card more of the weights than it has room for, but for the
  rounding of the shares.
- `NeverStranded`: the page is not, from some time on for ever, without a live model
  and without a Retry while it shows how things are.
- `DeadHostDropped`, `OnlyDeadDropped`: the poll turns away from a host that is gone, and
  from no other because of what was seen for an earlier choice.

### Bounds, and why they are enough

- **Actors.** Two of a kind are enough for a race between equals, and there is no
  operation here that involves three. The coordinator has three guests because a
  consumed code, a repeated one and a colliding one then meet. `relay_server` has one
  connection of each role: its properties are about a session's two ends, and
  several sessions share only the coordinator, which `relay` covers.
- **Buffers** of one or two: the code's 16 and 64 differ only in how long it takes to
  fill them; full, empty and in between all occur.
- **Restarts**: three counted, under a config without a limit and one that allows two, so that
  the count is below, at and beyond the limit of the config that is read next, and is reset
  in between. The backoff stops at its ceiling after one doubling.
- **Entries**: two added, so that a filter moves one over another; ids are never
  reused. `MaxSpare = 0` lets append always move the list to a new array; the proofs
  do not use it.
- **Programs**: three, so that a server is left behind, another is tracked and a
  third is started.
- `MaxCalls`, `MaxItems` in Calibration: one call in its stages besides the workers it
  left behind; one item, so the last of a loop is also its first.
- **Models and machines** of `wizard`: a small model, one too large for most machines, a
  mixture of experts and an embedding model with no 4-bit file; no card, one, a better second
  card, an unusable card between two, and cards of unequal size. Controls offer the few
  values that move a model from one side of a comparison to the other.
- **Calls in flight** of the pages: one of the user's beside the poll's, and in
  `hosts_page` two. A call record does not say how often it was made, so repeated calls are
  covered; `MaxViews = 2` is a page left with work in progress and opened for another model.
- **One host** in `hosts_page`: rows, clients and calls of different hosts touch nothing
  in common but the active host, and None and one host already give that two values.
  The theorems are for any number of hosts.
- **Three sends** in `chat`: one left behind, one answered, one in progress; one wording, so
  that conversations do coincide and the cache is hit.
- Calibration's run takes callers to be interchangeable (symmetry); it has no
  temporal property, for which that would be unsound.
- Deadlock is checked where the system never stops (registry, calibration,
  local_serve). Elsewhere everybody may have left, returned or exited, or a bound on what
  the user does is used up.

### Fairness

A runnable goroutine runs, and a timer fires: weak fairness of each handler, pump,
read loop, worker, watcher and reaper. Go's mutexes do not starve a waiter: strong
fairness of the wait in Calibration. Nothing is assumed of the outside: clients may
stop reading or never speak; the engine may never exit unless killed; a connection
need not break; nobody need cancel or stop anything. In `relay_server` time is fair,
since the expiry of codes and the write deadline depend on it. The bridge's ten-second
fallback is not fair: StopEnds holds without it.

In the pages nothing is assumed of the user. Intervals fire and calls into the backend
return (`HostsPage`, `DeployPage`: weak fairness of each poll, refetch, probe, install,
download, and of a starting server coming up, ending or being late). In `RemoteViews`
a request over SSH may fail, and every one may; that a pull's end is seen needs a host that, asked again
and again, answers sometimes: strong fairness of the status call, and weak fairness of the
rest of the round. `Wizard` and `Chat` state no fairness and no liveness.

## 4. What is proved

Each proof module has an inductive invariant, with a lemma per action or group of
actions, and the theorems drawn from it. They hold for every value of the constants that meets the
module's ASSUMEs, not only those TLC was given. Every conjunct of every invariant
was first checked by TLC on the run's instance, or is a consequence of one that was.

| Module | Theorems | Say |
|---|---|---|
| RelayProofs | `RelayTypeCorrect`, `RegistrationSingleUse`, `HostAndGuestShareSession`, `JoinNeverBlocks` | the coordinator's safety |
| | `RelayImplementsPairing` | Relay implements Pairing |
| | `ServerTypeCorrect`, `LinksHaveSessions`, `FramesArriveInOrder` | a linked host's guest has joined it; a linked guest's host is on their session, or was expired during Join; frames come from the peer, in order, none twice |
| | `ServerImplementsRelay` | the server drives the coordinator as Relay allows, so all of the above holds in it |
| ControlProofs | `ControlTypeCorrect`, `NoCrossDelivery` | types; a call is handed its own frames only |
| | `StreamsComplete`, `NoEntryLeaks` | a call that succeeds has seen all its events, in order; no entry outlives its call |
| SupervisorProofs | `SupervisorTypeCorrect`, `EngineIsSupervised`, `ServiceStopsCleanly` | types; an engine has its worker, or was left by a service that gave the worker up; a stop leaves no engine and "stopped" in the file, if that could be written |
| | `StatusIsFaithful`, `RestartsWithinBudget` | the file names the child's config unless its write failed; each config's own limit is kept, whatever was counted before |
| RegistryProofs | `RegistryTypeCorrect`, `ChangesAreOwed`, `QuietFileIsTheList` | no change to a registry is forgotten; the file equals the list once all is quiet |
| | `RegistryImplementsList` | in memory a registry is a plain list (SavedList) |
| SidecarProofs | `CalibrationTypeCorrect`, `CalibrationClaimsAreBacked`, `CalibrationRunningMeansRunning`, `CalibrationStepsSerialised` | what `meta.json` claims is there, while "running" a worker runs, steps of a kind exclude each other |
| | `StopReachesServer`, `ServerNeverReplaced` | a live server can be stopped; a tracked one is not given up for another |
| WizardProofs | `WizardTypeCorrect`, `ServedQuantExists` | types; the server is set up with a quantisation the chosen model comes in |
| | `RecommendationsHold`, `PlannerIsRight` | the planner's figures: tiers, break-even, ranking, upgrades, splits |
| PagesProofs | `HostsTypeCorrect`, `OnlyDeadHostIsDropped`, `RowStaysDisconnected` | types; the active host is dropped only if it was down; a late check turns no row back |
| | `DeployTypeCorrect`, `StrandedOnlyAtWork` | types; a Deploy page without a live model or a Retry waits for something that is going on |
| DashboardProofs | `CacheHoldsWholeAnswers`, `AnswersKeptApart` | the cache holds whole answers; answers do not mix |
| | `RemoteViewsTypeCorrect`, `NeverStale` | types; the card never goes back to what a host said before |

With these, every safety property, action property and refinement that a run checks is
also a theorem. How the invariants work:

- **RelayInv**: `SameSession` alone is not inductive, because a session passes through
  the channel. The invariant adds that a code is filed under its own host
  (`FiledUnderOwnCode`), that a guest past its lookup names the registration it
  consumed (`ConsumedByOne`), and that a channel holds at most that one guest's
  session (`QueuedOnce`).
- **LinkInv** (RelayServer): a frame is in one of four queues between its sender and its
  peer. Each queue is sorted by number (`FramesSorted`), and what is further along comes
  before what is behind it (`Before`, `PeersSorted`); `FramesInOrder` is the last queue's
  part. That a queue holds frames of the peer only rests on the handlers being paired
  as the coordinator says (`HandlersPaired`), and "paired" or "joined" on its way to a client
  being true (`AnswersTrue`), which RelayInv gives through the refinement. `LinkedMeansPaired`
  needs the far end as well (`BothEnds`): a session that was delivered is in the host's
  channel or taken (`Delivered`), and a host without one waits or has expired (`HostWaits`).
- **ControlInv**: `OwnFrames` needs ids to be used once, the table to file each call
  under its own, and every frame in flight to carry the id of its call. **StreamInv**:
  the events of a call lie, in this order, in what it has seen, its channel, the hands of the
  read loop and the connection, and are numbered through without a gap (`InOrder`); its answer
  is behind all of them (`Replies`), and is sent once (`OneRequest`).
- **SupervisorInv**: `CleanStop` needs to know that the bridge goes on only when the
  worker has returned (`WorkerGone`) and wrote last, or failed to (`LastWord`). `BudgetKept` is
  about two counts, `restarts` of the code and `fails` of the config at hand: the invariant says
  that the second is the smaller, and that a worker which goes on with a config that has
  failed has allowance left by the first (`BudgetLeft`). A config just read may have none: it
  gets one try.
- **RegistryInv**: `QuietMeansSaved` needs that, while the last slice was taken
  alone and no other save is under way, either the change is still owed or the slice
  being written is the list. **Ledger**, for the refinement, says where ids come from: every
  entry in the array, in a slice or in the file was given out before, so a new one is new.
  What is left to show is that the loop of Remove, which filters in place, leaves the
  list without the entry: the first position where the two would differ cannot exist.
  (`SavedList` states it as "the others, in their order" rather than with `SelectSeq`,
  which is recursive, and about which nothing can be proved by induction here.)
- **CalibrationInv**: any goroutine's copy may be the next `meta.json`; so it is not enough that
  the file is backed by artifacts: each copy, and each phase about to be written, has to be
  (`Claims`). `RunningMeansRunning` and `StepsSerialised` need that, until the first update is
  lost, one goroutine writes at a time and what it writes back is the file it truncated
  (`Reports`); and both need what a goroutine can be doing at all (`Jobs`).
- **LocalServeInv**: unless two StartServe overlapped, at most one call is past the
  check and only while nothing is tracked (`OneCall`), so the only reaper is that of
  the tracked server (`ReaperIsTracked`).
- **WizardInv** is short: the types and `QuantOfModel`, which every selection restores. What the
  pages show is computed from such a state, so `HardwareHolds` and `PlannerHolds` follow from
  the types, by facts about the arithmetic. Four carry the rest: a set of positions has
  a least one, hence `ArgMax` is a largest element; what covers each element of a sequence by
  one of its own sums up to no less (`TotalCovers`, for `UpgradeNeverHurts`);
  `InOrder` of a strict order gives each member one place (`InOrderSorts`, for `RankedRight`);
  a filtered list comes from distinct places (`PlacesKeep`). Induction along a sequence is
  done with the least position that breaks the claim (`UpTo`). Then: a configuration that fits a
  higher tier's room fits the lower one's (`FitsLower`), so the tiers grow (`StepUpHolds`); rounding
  a share up costs less than one per cent (`ShareFits`).
- **PagesProofs**, hosts page: `OnlyDeadDropped` needs that a poll in flight was begun for the host
  that is active now (`PollsAreCurrent`), which holds because every choice begins anew, and that
  one which found it missing found so after it was chosen. `StaysDisconnected` follows from types
  alone, action by action: only `Merged` and a Connect's answer write "connected".
- **DeployInv**: `NeverStranded` is liveness, but most of what could break it is not. After every
  change no step of the walk is due (`NothingDue`), a page is busy only with an install there
  is, shows a download only if one of its model goes on, and a step the walk has taken once
  left a trace (`Founded`). So a page that shows how things are, has no Retry and is not done
  has something to wait for (`StrandedOnlyAtWork`); that the wait ends is for TLC. A
  page that is closed has no Retry because nothing is written to it, which for the answer
  of a probe needs that each one whose page is still on screen is about that page's model
  (`OwnProbes`).
- **ChatInv**: `AnswersApart` needs that at most one send in progress belongs to the component on
  screen (`Sends`), that while it does the last message is the place of its answer
  (`Awaits`), and that what is in the cache or on its way is one answer (`Cached`).
  `CacheInv`: `CachedWhole` needs that what is on its way was told, too.
- **ViewsInv** (RemoteViews): the types alone are not inductive, because a poll of a pull's row
  must name a model for the row it updates to name one (`RowNamed`, `CallsFit`). That a poll of
  `/v1/info` in flight asks the host on screen is what `NeverStaleAgain` needs.

Assumptions on constants that the proofs use, beyond sizes being numbers: None and the like are
not values they stand for; in Calibration the marks of a file that is no run are no runs
(`NotARun`); in the planner, `GpusAssumption`, `ProvidersAssumption`, `CatalogAssumption`,
`MachinesAssumption` and `ControlsAssumption` give the fields of `types.ts` their types, a model
at least one quantisation and one attention head, and models distinct ids (`findModel` and the
rows of the list go by the id). The runs evaluate all of them.

### Only model-checked

Liveness, which the prover does not handle (no ENABLED, so no fairness): NeverWedged,
HostWaitEnds, NoHandlerLeak, EveryCallReturns, ReadLoopEnds, IdlePicksUp, StopEnds,
DeadHostDropped, PullSeen, NeverStranded (of which `StrandedOnlyAtWork` is the safety half).
No module declares a RECURSIVE operator; what was a fold over the
cards, a `SelectSeq` or a sort of the community modules is a recursive function or stated by its
order (`Total`, `AtPositions`, `InOrder`), so that it can be proved about.

## 5. What is not modelled, and why

Cryptography, HTTP, SSH, the operating systems' service managers, downloads and the
engines themselves: external, represented by what the code can observe of them.
Formatting, logging and metrics: no state depends on them. Of the pages, those that
show one backend component and call it (`ServiceCard`, `CalibrateExplorer` and the
others listed in `PROJECT.json`): their calls are inputs of the models of those components.

What these parts risk, in the components that are `not_modelled` or `partly`:

- `internal/relay/e2e.go:204`: the send counter advances even when the frame is not
  sent, and every later frame is then refused; Control takes the link as ordered and
  broken for good, which is what results.
- `enroll.go:103`: a machine counts as connected while its client is in the table.
- `train.go:37`: a sidecar that is slow to answer is killed with its job;
  `sidecar/train.py:260`: a cancel after the last step makes a finished training a
  cancelled one.
- `internal/promptcache/cache.go:359`: each change postpones the save; the end of the
  program in between loses all since the last.
- `internal/svcapi/svcapi.go:481`: two merges of the config at once, one is lost.

## 6. Where the code and its comments disagree

Met while modelling; each is reachable in the module named. The properties above are
stated so as not to claim what these refute.

- *RelayServer*. `client.go:30` promises the peer's next frame; frames queued ahead of
  "paired" or "joined" are skipped by the handshake (`readCtrl`, line 114). A guest
  whose Join was under way when the host's code expired is told "joined" and keeps a link
  to nobody (`server.go:91`); it waits until it leaves.
- *Control*. `control.go:48` says to close the connection to stop the read loop; the
  loop waits for ever on the full channel of a call that gave up (line 146).
- *Supervisor*. `supervisor_windows.go` means to leave no engine behind; after ten seconds
  (line 88) it reports "stopped" and exits whatever the child does. `svcconfig.go:81` says
  MaxRestarts caps the restarts; the worker gives up at that many failures, one restart
  earlier, and the count goes back to earlier configs, so that one with a lower limit than
  what was counted gets a single try. A config sent through the API is without a limit
  unless it says one: `handleServe` inherits other fields, not this (`svcapi.go:481`). A failed
  or torn write of the status is not noticed or repeated (`supervisor.go:263`).
  `svcapi.go:458` says a new config is noticed within 5 s, and line 559 that
  stop terminates the child; nothing looks while a child runs (`supervisor.go:170`).
  `main_linux.go:100` speaks of SIGTERM with a hard kill after 5 s, and `deploy.go:367` of
  SIGTERM first; the cancelled context kills at once. `svcconfig.go:166` counts respawns; the
  count is reset after a minute of uptime.
- *Calibration*. `calibrate.go:203`: the phase tells when the step is done; a scanner's late
  rewrite, or its truncation, leaves "imatrix" for ever (line 308).
- *Relay*. `relay.go:124` says Cancel is for a host that disconnected before it was paired;
  only the timeout calls it.
- *Registry*. `hosts.go:94` and `remotes.go:62` speak of a debounce; every change is
  written at once.
- *LocalServe*. `maintain.go:174` stops the server so as not to remove a file it has
  mapped; nothing waits for it to end.
- *RemoteViews*. The row of a finished pull is meant to clear itself
  (`DashboardExplorer.tsx:1555-1570`), but the timer asks the `alive` of an effect that its own
  answer tore down. `pull.go:126` calls the start idempotent; two starts make two
  downloaders. After a change of host the list of models may still be the old host's
  (`fetchModels` asks no `alive`), and the row of a pull polls the new host. A restart of the
  host's service loses its table of pulls (`pull.go:19-22`): the status is a 404 from then on
  (lines 194-199), the page takes it for transient (`DashboardExplorer.tsx:1572`), and the row shows
  "pulling" until the user leaves it.
- *HostsPage*. Remove while a Connect is in flight leaves a live client of a host that is
  no longer saved.
- *DeployPage*. A page opened with a server running and then stopped starts it again,
  though lines 203-208 say a stop is respected. A page opened again while the runtime
  installs starts a second install. An event of another model's download clears the
  error, and the page stays "Queued" with no Retry (`meddled`). A refetch may be overwritten by an older one.
- *Chat*. `DashboardExplorer.tsx:1210` filters events by host: the stream of a chat that was left
  still mixes into a later answer of the same host (`left`). The card is not keyed, so a
  conversation with one host goes on with another. Stop does nothing during the cache's
  lookup. The cache's key lacks the model and several parameters. A refresh of the
  cache's card (`PromptCacheCard.tsx:33`) that began before the first edit puts the saved
  settings in the place of the draft, and the card goes on calling it a draft.
- *Wizard*. HelpMeChoose keeps earlier `notGated` and `needMultilingual`. When no provider has a
  configuration, the break-even shows $0 a month and self-hosting wins (`cost.ts:156`).
  `noteForTier` says "Meets your SLA" of the recommended tier without checking it. Serve on
  the card of models on disk ignores the file's quantisation.
- `svcapi.go:462` says fields not set are inherited; four of them are.

## 7. Plan

Done: the coordinator and its server, control, supervisor, registries, calibration, the
local server; the planner and the wizard, the deploy page, the chats, the hosts page and the
remote views; the proofs of section 4.

Left, in this order:

1. **HostApi**: config merges by two writers, composed with Supervisor's view of the file.
2. **SecureLink, Enrollment**: counters over a link that may lose frames, with symbolic
   keys; the table of connections.
3. **Training**: jobs, health checks, cancel and restart. **PyRuntime**: install in
   flight, manifest.
4. **PromptCache, Router**: the debounced save, the order of eviction; a bounded cache as the
   abstract specification.
5. The safety halves of the other liveness properties, as `StrandedOnlyAtWork` is of
   `NeverStranded`: that who waits waits for something that is still to come.
