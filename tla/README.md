# TLA+ models of Ophanim

Ophanim is a homelab monitoring hub in Go (`cmd/ophanim`, `pkg/`), an edge agent
(`cmd/ophanim-monitor`, `pkg/monitor`) and a React dashboard (`web/`). These modules
model the parts of the Go code in which goroutines, connections, locks and database rows
interact, and the parts of the dashboard in which requests, timers, events and the
operator do. TLC checks them on small instances, and TLAPS proves every invariant and action
property of the passing runs, and the two refinements, for every instance; the liveness
properties stay with TLC. `PROJECT.json` lists the runs, the properties, the lines every
definition stands for, and the hazards the properties are for.

    tlc -workers 2 -config MCHub.cfg MCHub        # one of the runs of PROJECT.json
    tlapm HubProofs.tla                           # the proofs of one module

## 1. The system

| part | code | state | operations | talks to |
|---|---|---|---|---|
| agent hub | `pkg/hub/hub.go` | `clients` map, a `SendChan` per connection, `pendingReqs`, enrolment tokens | enrol, telemetry, heartbeat, response (readPump), writePump, unregister, `DispatchAction` | agents by WebSocket; storage; called by the executor |
| edge agent | `pkg/monitor/agent.go` | its connection | dial and enrol, telemetry ticks, run a command, answer | hub; local Docker |
| executor | `pkg/remediation/executor.go` | one mutex, execution times per container | `ExecuteAction` | hub or local Docker; audit table |
| incident handlers | `pkg/web/server.go`, `cmd/ophanim/main.go` (ChatOps approval), `pkg/agent/rca.go` | a copy of an incident row each | approve, resolve, diagnose | executor; table `incidents` |
| correlator | `pkg/correlator/correlator.go` | `failingItems` under `c.mu` | `ProcessContainers`, `ProcessProbeResult`, `ProcessHostMetrics` | graph; table `incidents`; starts the RCA goroutine |
| topology graph | `pkg/topology/graph.go` | dependency maps under an `RWMutex` | rebuild, find the root, find dependents, export | correlator, `handleTopology` |
| ingestion | `cmd/ophanim/main.go` | node status and failure counts | boot collection, 2-second loop, 1 Hz sampler, 1-minute history | collectors, storage, correlator, graph, dashboard |
| storage | `pkg/storage/sqlite.go`, `ringbuffer.go` | SQLite tables, metrics cache, log ring | rows, history, logs | everything |
| web server | `pkg/web/server.go` | WebSocket clients of the dashboard, configuration | REST handlers, `BroadcastUIEvent`, settings | everything |
| main component | `web/src/App.tsx` | containers, incidents, devices, topology, metrics, the spinner, the page | 2 s and 1 s polling, the event socket, refetch after a request, keys | REST, events; hands its data to every page |
| incidents page | `web/src/pages/IncidentsView.tsx` | `actingId` | approve, resolve | its parent's handlers |
| log page, chart, inspector | `web/src/pages/LogsView.tsx`, `components/TelemetryChart.tsx`, `components/HardwareInspector.tsx` | what is chosen, what is shown, a timer each | choose, fetch, poll, late answers | REST; refreshes of the main component |
| settings page | `web/src/pages/SettingsView.tsx` | a form over a copy of the settings | load, edit, list models, save, test a channel | `handleSettings`, `ListAvailableModels` |
| devices pages | `web/src/components/AddDeviceModal.tsx`, `pages/DevicesView.tsx` | enrolment form, edit form, confirmations | enrol, edit, delete, copy a snippet | `handleDevices`, table `devices` |
| overview layout | `web/src/pages/Dashboard.tsx` | presets of widgets, columns | select, customise, create, delete, reset | local storage, shared by tabs |
| assistant drawer | `web/src/components/AIChatDrawer.tsx` | conversation, one request, width | ask, clear, reload, drag | `/api/chat`; local storage |
| shell | `App.tsx`, `components/CommandPalette.tsx`, `Header.tsx`, `Sidebar.tsx` | page, palette, key listeners | navigate, Cmd+K, Cmd+/ | the drawer |
| auth | `pkg/auth/auth.go` | users, sessions, a rate limiter | not constructed by any command | - |

What is hard in it, and what must hold:

* **Hub.** Two goroutines per connection, a map under one lock, pending requests under
  another, a device row under none, and connections of one node that overlap. The map must
  not hold a dead connection, no call may wait for ever or leave its entry behind, and an
  answer must be one an agent gave.
* **Incidents.** Four kinds of handlers read a row, go away for seconds, and write the whole
  row, and every error of a write is discarded. One action at a time; an approval closes
  an incident only after it acted, and leaves its audit row if that can be written; a closed
  incident is opened again by nothing but its diagnosis.
* **Correlator.** Two loops and the web server share `failingItems` and the graph. A failure
  must be reported once, with a root that is down too, and recovery must be noticed.
* **Devices.** Heartbeats, a 45-second monitor, deletion and unregistration all write a
  device's status; the dashboard's forms write its name, address and token.
* **The dashboard.** Nothing cancels a request, and one that failed for the page may have been
  carried out. Polls, events and refetches overlap and their answers are applied in the order
  they come; timers hold the choice they were set
  up with; effects run after renders and store what they captured. The screen must show
  what was true at some time, come to what is chosen, leave no spinner or disabled button
  behind, and not write a stale form over a newer row.
* **Buffers and caches.** A ring that wraps, a metrics cache with aliases, a sliding window.

The list of places where this bites, each with its line, is `hazards` in `PROJECT.json`.

## 2. Modules

| module | models | composed with |
|---|---|---|
| `Hub` | `hub.go` and the agent as its peer | the executor as the caller of `DispatchAction` (`MaxInFlight`) |
| `RemoteAction` | the abstract promise of `DispatchAction` to its caller | implemented by `Hub` |
| `Remediation` | `executor.go`, the approval and resolution handlers, the RCA goroutine, rows `incidents` and `audit_logs` | outcomes of the hub's call as a choice |
| `Correlator` | `correlator.go`, `graph.go`, the boot collection, the 2-second loop, the sampler, `handleTopology` | collectors as the constant `Round` |
| `Requests` | the requests of one kind a page has running | extended by `Observability`, `Settings`, `Enrolment` |
| `LaggingView` | the abstract promise of a polling view | implemented by `Console` |
| `Console` | the main component of the dashboard and the incidents page | the server as versions of its data |
| `Observability` | log page, chart, inspector, and the pages around them | refreshes of the main component as an event |
| `Settings` | settings page, `handleSettings`, `ListAvailableModels` | another operator's PUT |
| `Enrolment` | `AddDeviceModal`, `DevicesView`, `handleDevices`, table `devices` | the list as `fetchAllData` brings it |
| `Layout` | presets and columns of the overview page, one local storage for several tabs | |
| `Chat` | the assistant drawer | extended by `Shell` |
| `Shell` | pages, palette, key listeners | extends `Chat`: one next-state relation for both |
| `MC*` | the small instances for TLC | |
| `HubProofs`, `RemediationProofs`, `CorrelatorProofs`, `ConsoleProofs`, `EnrolmentProofs`, `LayoutProofs` | theorems and proofs | extend the component's module |
| `ShellProofs` | theorems and proofs about `Shell` and, in it, `Chat` | extends `Shell` |
| `PageProofs` | theorems and proofs about `Settings` and `Observability` | extends both, whose names are disjoint |

### Hub

A `Conn` is one WebSocket connection, a `Call` one invocation of `DispatchAction`; each is
used once. `reader` and `writer` are the program counters of `readPump` and `writePump`,
`inbox` the messages on the way to the hub, `sendChan` the channel of the connection,
`clients` and `pending` the maps, `call`, `respChan` and `result` a call's program counter,
one-slot channel and return value. Every action is a stretch no other goroutine can split:
one critical section, one channel operation or one socket operation. So `Lookup`,
`AddPending`, `Send`, `Receive`/`Timeout` and `Return` are five steps of `DispatchAction`,
and everything else happens between them. `Send` on a closed channel panics and goes to
`Return`, as the deferred cleanup does. `Closed(c)` is `close(client.SendChan)`.
Commands and responses carry the call they belong to as a history field; no guard reads it.

`RemoteAction` is what is left of this when connections, queues and goroutines are taken
away: a call asks (`Ask`), is refused, answered or gives up, and the other machine carries
the command out (`CarryOut`) at most once per call, never for a refused one, but possibly
after the call gave up. `RemoteSpec` is the refinement, with `Hub`'s own `req`, `executed`
and `result` as the abstract variables: `Lookup` implements `Ask`, `FinishJob` implements
`CarryOut`, `Send` on a closed channel `Refuse`, `Receive` `Answer`, `Timeout` `GiveUp`, and
every other step stutters. That an answer reports a command with the call's action id is
part of it; that it is the call's own command is not (section 5). The limit of the promise
is the call: two calls with one action id are two commands.

### Remediation

An `Op` is one request of an operator. `op` is its program counter, `copy` the
`*types.Incident` it has read: `GetIncident` reads, `BeginAction` .. `RecordAuditLog` are
`ExecuteAction` under `mu`, `ResolveApproved` and `ResolveManually` write the row back
whole, as `UpdateIncident` does. `AnalyzeIncident` writes the copy the correlator made when
it created the row. Every write may fail and leave its table as it was, because no caller
looks at the error (`executor.go:121`, `server.go:432`, `main.go:114`, `rca.go:105`);
`unrecorded` remembers the requests whose audit row was lost. `Crash` may come at any step; it
keeps the two tables and drops everything else. `HourPasses` lets the window of an hour slide.
Nothing but `remediation_test.go` sets `AutoExecute`, so the limit of executions never holds
anybody back in the program as it is; the instance has one such incident so that the branch is
explored, and no property rests on it.

### Correlator

`c.mu` serialises failures, so `holder`, `stage`, `event`, `cursor` and `gread` are one
`handleFailure` call: `FindRoot` is one (recursive) call of `FindRootCauseCandidate`,
`CreateIncident` the rest, with an insertion that may fail: `correlator.go:215` discards the
error, the target stays tracked and `onIncident` is called all the same. Of the rows the last
one is kept (`latest`), as nothing here reads them. Two history variables say what failed last
(`lastDown`) and how often that was handed on (`alerts`); a restart forgets both with
`failingItems`, and a recovery its own. `g.mu` follows Go's `RWMutex`: a waiting writer
(`gwait`) keeps new readers out. `at` and `rest` walk the loop of `main` through its
collectors. Whether an item fails is decided where its result is first looked at (`Process`,
`Sample`); nothing reads it between the collection and that moment, so no behaviour is lost.
Left out: `flapHistory` (written, never read), texts and severities, rows that leave
`ListContainers` because of their age, containers of edge monitors (which are stored but never
reach the correlator), and the order of the dependency labels (any order is allowed).

### Console and LaggingView

A slice is one of the five things the main component fetches; its data is the number of its
version. `fetch[f]` is one running call: the responses still outstanding, the version each one
carried when it was made (0 for a status that is not ok), the slices still to be parsed, and
the request that awaits it. `Respond` is a response, `Apply` one `await res.json()` with the
`set...` after it, `ParseFails` one that rejects, so that the slices before it are set and
those after it are not, `Reject` a rejected `Promise.all`, and `Finish` the `finally` all of
them end in. `request[r]` is one run of `handleApprove` or `handleResolve`: `Act` up to its
POST, `Resolve` the server's side (whose write may fail), `PostFails` a `fetch` that rejects,
be it before the server acted, after it, or while it has yet to (`GivenUp`), `Refetch` the
call of `fetchAllData` it awaits; `here` says whether the page that started it is still
mounted (`Remount`). `OnMessage` is `ws.onmessage`; a socket that closed is never opened
again, as in the code. `LaggingView` has two actions: a slice moves on, and the view shows
some version the slice has had. `LagSpec` is the refinement: `INSTANCE LaggingView WITH` the
main component's `truth` and `view` in place of the abstract ones. It is why "once true" is
the promise and "up to date" is not: an older poll may be applied after a newer one, which
both modules allow.

### Observability

What a view shows is reduced to what it was fetched for. `Render` is a render of the log
page with the effects whose dependencies changed, so it says which changes run the effect of
the tail (`LogsView.tsx:72`) and which fetch (65). `tails` are the intervals that exist, each
with the source its closure captured; `TailEffect` clears the one the last run has set
(`tail`) and sets another, so that one forgotten would go on polling. `Reconciled` is the
effect at 38. `Tick` counts seconds while the stream is on the screen, because there the
refresh of the containers and the tail meet. The chart and the inspector have an action per
interval, per answer and per choice. Of late answers the code keeps whatever comes last.

### Settings

`form` is the page's fields, `load`, `queries`, `saves` and `tests` its running requests.
`HandleProviderChange` sets the model and the endpoint of the new provider and asks for a
list with the endpoint of the form as rendered, that is the old one; `ModelsArrive` keeps the
model captured when the list was asked for if the list has it, and else takes the first one.
`ListOf` is `ListAvailableModels`: the provider `custom` has no case of its own there and gets
one mixed list (`Unlisted`, `Mixture`). `Payload` is what a save sends, `enabled: true`
included, and `Merged` what the server makes of it; an endpoint may be blank and a
temperature zero. `Refuse` is a PUT whose `fetch` rejects, with or without its effect.
`Put` and `Get` are `handleSettings`; `SavedElsewhere` is a PUT by somebody else. Models and
endpoints are reduced to the provider they belong to.

### Enrolment

`table` is the table `devices`; `EnrollDevice` is the upsert of `sqlite.go:1000`, which
updates name and address of an existing row and nothing else, `UpdateDevice` leaves a blank
token out. A token is a prefix `PVEAPIToken=` or none, a head (`user@realm!id`) or none, and
a secret. `Composed` and `Parsed` are what the forms do with them: the prefix goes, a secret
alone gets the default head, and of a secret that itself has a `=` the part before it stays
(`Cut`). `Header` is what the scraper makes of a token, and so what it authenticates as. A
request may be carried out, answered without effect (`NotStored`: no page looks at the
status), fail, or fail for the page and be carried out after all (`Failed`); the list fetched
after it may come or not. The modal stays mounted, the page does not (`Remount`), and
requests of both outlive the form they were made from.

### Layout

Each tab's `page` is its `Dashboard` with the effects that are due (`unsaved`); effects run
before the tab's next event. `stored` is the local storage all tabs share; `SavePresets` may
be refused after the first of its two writes.

### Chat and Shell

`Chat` is the drawer in one window: `HandleSend` is `handleSend` up to its await and
captures the end of the conversation, `HandleReply` the rest of it on every path. `Persist`
is the effect that stores the conversation and swallows a full storage. `Shell` models a
press of Cmd+K as what the two listeners make of it one after the other (`AfterK`): React
renders after a listener that changed the state, and with that render the palette's listener
is removed and subscribed again, behind the other one.

## 3. Runs

| run | instance | checks | result |
|---|---|---|---|
| `hub` | 2 connections of 1 node, 2 calls, 2 action ids, channel sizes 1, symmetric | `TypeOK`, `RegisteredOpen`, `PendingInFlight`, `ReaderNotStuck`, refinement `RemoteSpec` | holds |
| `hub_live` | 2 connections, 1 call | `Reconverges`, `CallsReturn`, `PumpsEnd` | holds |
| `remediation` | 2 incidents (one remote, one automatic), 2 requests, limit 1; crashes and failed writes | `TypeOK`, `ApprovedAudited`, `ReopenedOnlyByRCA`, `RequestsEnd` | holds |
| `correlator` | chain of 3 containers on 2 nodes (one may vanish), sampler, 1 topology request, 2 failures, 1 restart | `TypeOK`, `TrackedAccurately`, `ReportedOnce`, `RootIsCause` | holds |
| `correlator_live` | 2 containers, 1 topology request, 2 failures, 1 restart | `OnlyTheLockStops` | holds |
| `console` | 2 incidents, 2 fetches and 2 requests in flight, 2 slices, 2 versions, 2 faults | `TypeOK`, `SpinnerHonest`, `ActingInFlight`, `DuplicateNeedsDetour`, refinement `LagSpec` | holds |
| `observability` | 2 containers, 3 nodes (1 without metrics), 2 requests per view, 2 intervals of the tail, 4 choices | `ViewTypeOK`, `OneTailTimer`, `SpinnersEnd`, `ViewsSettle` | holds |
| `settings` | 3 providers (1 with a fixed list, 1 self-hosted, 1 with the mixed list), 2 keys, 2 requests of a kind, 4 edits | `TypeOK`, `ModelOfProvider`, `UntouchedSaveKeepsRest` | holds |
| `enrolment` | 2 kinds of device, 1 name, 1 secret (with and without prefix and head), 5 acts | `TypeOK`, `TokenFitsType`, `UntouchedEditAuthenticates` | holds |
| `layout` | 2 tabs, 2 built-in presets, 2 new ones, 3 changes, 1 refused write | `TypeOK`, `StoredIsShown`, `LostOnlyByStaleTabs` | holds |
| `shell` | 4 questions, 3 messages of history, room for 6, 2 screens, 2 pages | `TypeOK`, `ModelSeesDialogue`, `ForgottenStaysForgotten`, `KeyTogglesOnce`, `GetsAnswered` | holds |
| `cor_active` | as `correlator_live`, with a probe, no restart | `ActiveFailing` | violated: host resources are never resolved, probes under another key |

Why the bounds are enough.

* **Go parts.** Every race of the hub is between an old and a new connection of one node or
  between two calls, and nodes share nothing but the maps' locks, so one node with two
  connections and two calls shows them; two action ids let an id be fresh or reused, and a
  send channel of capacity 1 is full after one message, where the code's 32 hide the case.
  With one call at a time (`hub_live`) the channel never fills; `MCHubCalls.cfg` checks
  `CallsReturn` and `PumpsEnd` with two calls on one connection, where it does. Two requests
  suffice for a lost update and for contention on the mutex, and a limit of 1 is reached by
  the first execution and met by the second. A chain of three containers needs a recursion two
  levels deep, one more than a fix of the first level would get right; failures are bounded by
  `MaxFailures`, recoveries and polls are not bounded. Two failures are a root and what
  depends on it, or one target failing again; `MCCorrelatorWide.cfg` has three, one per
  container, without the restart and the topology request. A topology request rebuilds the
  graph at most once in its life, so one request covers what it can do to a reader.
* **Console.** Two fetches show every overlap of an older and a newer answer, two requests
  and two incidents every use of `actingId`, two versions a stale one. The instance of the
  run has the slices `incidents` and `metrics`, and two faults, so that a request or a body may
  fail on each side of an overlap; `MCConsoleWide.cfg` adds `containers`, which polls and
  events both write, and is checked with one incident and one fault. The theorems of
  `ConsoleProofs` need none of these bounds.
* **Observability.** The periods are 1 and 2 instead of 2 and 3 seconds, which keeps the one
  thing that matters: the refresh is the shorter one. Two calls per view are an old and a new
  request; two intervals are the one there should be and one that was forgotten. `MaxChoices`
  counts what the operator does and what fails, so a behaviour ends with a choice that stays,
  which is what `ViewsSettle` is about.
* **Settings, Enrolment.** A race is between a request and one other step; two requests of a
  kind, or one of each kind, and four or five acts of an operator reach it. One name is
  enough for a device that is deleted and enrolled again under its old id, the only way two
  devices meet in one row. One act more than the run has shows that such a meeting can leave
  a device with the token of another type; this is why the properties are stated until
  `crossed`. `MCEnrolmentWide.cfg` adds a secret with a `=` and a whole token to paste, with
  four acts. One fetch of a join token and one copied mark at a time: what overlaps of these
  change is a spinner and a tick mark.
* **Layout.** Two tabs write over one another; three changes make a preset in one, and
  remove it or another in the second.
* **Shell.** Four questions exceed the history of three messages (12 in the code) and the
  storage (six messages); the drawer's widths are in units of its button's step.

Deadlock checking is off in all runs: connections, calls, requests and the operators' acts
are used up, and the system may then rest.

### Fairness

* `Hub`: weak fairness of every goroutine (the Go scheduler), which includes the timer of
  `DispatchAction` and the noticing of a broken stream; strong fairness of an agent's
  heartbeat, which has a ticker and must get room in the stream. Nobody is obliged to
  break a stream, crash, expire a token or dispatch.
* `Remediation`: strong fairness of `Execute` (Go's mutex does not starve a waiter) and weak
  fairness of the rest of a request. Approvals, crashes and the clock are not obliged.
* `Correlator`: weak fairness of the loop, the ticker and the requests, strong fairness of
  what waits for `c.mu` or for a read lock of `g.mu` (neither lock starves a waiter).
  `OnlyTheLockStops` has `[]~Deadlocked` as its premise; `SamplerRuns`, without it, is
  refuted (section 5).
* The liveness properties of `Hub` assume that action ids are not reused (`UniqueIDs`): with
  a reused id a late answer can block `readPump` until the connection's end, as
  `pkg/hub/hub.go:189` allows.
* `Observability`: time passes, the server answers, and the two intervals fire; strong
  fairness of the intervals, because an interval of the browser fires whenever its time has
  come even if the model has no free request at some moments in between. The operator is
  obliged to nothing.
* `Shell`: a request of the drawer gets an answer or fails: the server closes a connection
  after its `WriteTimeout` of 30 s (`pkg/web/server.go:186`), and `fetch` then rejects. The
  operator, reloads and renders are obliged to nothing.

## 4. Proofs

For every value of the constants that satisfies the named assumption of the component's
module, such as `HubAssumption`. These say that functions have the right domains, that
capacities are positive and bounds are numbers, and that `None` is not a member of the data.
Beyond that:

* `ConsoleAssumption`: `fetchAllData` fetches the incidents and some order of the others.
* `SettingsAssumption`: `None` is not the empty tuple, which stands for an answer awaited.
* `EnrolmentAssumption`: finitely many requests; the part of a secret before its first `=`
  (`Stem`) has none.
* `LayoutAssumption`: there is a built-in preset, and a generated id is never one of theirs.
* `ChatAssumption`: every screen has room for the drawer at its default width.
* `ObservabilityAssumption`: a container's name is not a node's.
* `ViewRequests`, `SettingsRequests`, `EnrolmentRequests`: `None`, which marks a slot of
  `Requests` as free, is not itself something a page asks for.

None of the theorems limits the number of tabs, rows, requests, messages or choices
further: the bounds in the guards are constants of any size.

| theorem | property | argument |
|---|---|---|
| `HubProofs!TypeCorrect` | `TypeOK` | inductive |
| `HubProofs!NoDeadEntry` | `RegisteredOpen` | strengthened by `EnrolledAsOwner`: a connection is only ever registered under the node that dialled it, so registering it again on a heartbeat leaves no entry under another id behind, and its unregistration deletes the one entry it can have |
| `HubProofs!NoPendingLeak` | `PendingInFlight` | inductive with the type: `Return` deletes before it ends |
| `HubProofs!NoInventedAnswer` | `AnswerIsReal`, which `RemoteSpec` implies | strengthened by `AnswersReal`: every response in a stream was executed, and one in a reader's hands or in a call's channel was executed for the call's action id; needs `PendingInFlight` |
| `HubProofs!ReaderNeverStuck` | `ReaderNotStuck` | strengthened by `OneToken`: of a call's command or its response there is one, in one of the queues, in a running job, in a reader's hands or in the channel, and once in it; so while a reader holds the answer the one slot is free. Every step moves the token on, or drops it |
| `HubProofs!ImplementsRemoteAction` | `RemoteSpec` | step simulation, with what each abstract guard needs: `NoResultYet` (a call returns nothing before its end), `OnlySent` (what is under way or carried out was sent by a call that has not been refused), `AnswersReal`, and `DoneOnce`: of a command that was carried out none is left in a queue or a job, which is the moment `OneToken` pays for; only `Send` puts one there, and its call is new |
| `HubProofs!NoSenderStranded` | `SendersServed` | `PumpsOutliveStream`: a pump that was started ends only after the stream broke; `FoundStarted`: what `clients` holds and what a call found there has a reader that was started, and a reader never goes back to its start |
| `RemediationProofs!TypeCorrect` | `TypeOK` | inductive |
| `RemediationProofs!MutualExclusion` | `MutexHeld` | inductive with the type; what the theorem says for every instance no run repeats |
| `RemediationProofs!ApprovalsAudited` | `ApprovedAudited` | strengthened by `AuditInv`: every write in a row, and in every copy some handler will still write back, is by a request that has ended, that acted, and whose audit row is there or was lost (`unrecorded`); a lemma shows that an ended request stays as it is |
| `RemediationProofs!OnlyRCAReopens` | `ReopenedOnlyByRCA` | from the type invariant, one case per action: every other write of a row, a whole stale copy though it is, writes RESOLVED |
| `CorrelatorProofs!TypeCorrect` | `TypeOK` | inductive; includes that a failure is handled under `c.mu` |
| `CorrelatorProofs!TrackingAccurate` | `TrackedAccurately` | inductive by itself; the lemma on one result splits on whether it is about the container |
| `CorrelatorProofs!ReportingExact` | `ReportedOnce` | inductive together with the type and `TrackedAccurately`; a lemma on one result, and the end of a failure, which reports the one in hand and no other |
| `CorrelatorProofs!RootCorrect` | `RootIsCause` | strengthened by `Walk` (`WalkConnected`): the cursor is the target itself, or the read lock is held and the cursor is reached from the target through failing dependencies of the graph as it is now; so no rebuild comes between the search and what it returns |
| `ConsoleProofs!TypeCorrect` | `TypeOK` | inductive; lemmas on a call, its end and a change of the active incidents |
| `ConsoleProofs!ShowsWhatWas` | `LagSpec` | step simulation under `Truthful`: no version on the screen, in a response or in an event is newer than the server's, which needs that versions only grow (`TruthGrows`); then each action is a `MoveOn`, a `Show` or a stutter of `LaggingView` |
| `ConsoleProofs!SpinnerCorrect` | `SpinnerHonest` | inductive with the type; a running call of `fetchAllData` stays one until its last slice or the body that rejects, because the metrics are not among its slices |
| `ConsoleProofs!ActingCorrect` | `ActingInFlight` | strengthened by `RequestInv`: a request of the page has its incident in `touched`; as long as the operator has touched one incident and never left, at most one request runs about it, so the end of a request cannot clear the mark of another |
| `ConsoleProofs!DuplicatesExplained` | `DuplicateNeedsDetour` | from the same invariant |
| `EnrolmentProofs!TypeCorrect` | `TypeOK` | strengthened by `Counted`: the rows inserted under an id and the requests still to insert one are counted together with the operator's acts, else `born` would have no bound |
| `EnrolmentProofs!TokensFit` | `TokenFitsType` | `EditsKept`: what a request enrols has a token with a secret if its type needs one; the page, the form and a request show a device of some birth, whose row is still of that type unless it is of a later birth (`ShownSeen`, `EditingSeen`, `SavesSeen`). A device that was enrolled anew is exactly where that fails, and there `crossed` is set |
| `EnrolmentProofs!UntouchedEditKeepsLogin` | `UntouchedEditAuthenticates` | `Harmless`, a part of `SavesSeen`: an untouched edit sends what composing the parts of the token gives; and the lemma `ComposedAgain`: with or without prefix and head, that authenticates as the token did |
| `EnrolmentProofs!NothingLeftBusy` | `BusyEnds` | inductive with the type and `Counted`, in two halves: the modal stays mounted and its answers come whatever is closed (`ModalEnds`); the page clears its flags when it is mounted again, and disowns the requests of its earlier life (`PageEnds`) |
| `LayoutProofs!TypeCorrect` | `TypeOK` | inductive; needs what `Without` returns, for lists of any length |
| `LayoutProofs!StorageShown` | `StoredIsShown` | with `Kept`: an unmounted tab has no effect due |
| `LayoutProofs!LostOnlyByStale` | `LostOnlyByStaleTabs` | `Kept`: a tab's list has the built-in presets and everything it has had and its operator did not remove; so what it writes lacks nothing else |
| `ShellProofs!TypeCorrect` | `TypeOK` | `ChatInv` and `FrameInv`; `QuestionsAsked` bounds the numbers of the questions |
| `ShellProofs!DialogueSent` | `ModelSeesDialogue` | `Dialogue`: what is shown and what is stored alternates, and what is shown ends with the question under way or with an answer; `OneCall`: there is at most one; lemmas: the end of a dialogue is one, and so is a dialogue with the other speaker's turn appended |
| `ShellProofs!ForgottenForGood` | `ForgottenStaysForgotten` | with `QuestionsAsked`: a question asked later is another one, and an answer is appended only to what its question still stands in |
| `ShellProofs!PressTogglesOnce` | `KeyTogglesOnce` | `OpenIsRendered`: while the palette is open its listener is the one behind the other, so the application's runs first and its render takes the palette's away for this press |
| `PageProofs!TypeCorrect` | `TypeOK` | strengthened by `Counted`: versions and timers are counted with the saves under way |
| `PageProofs!ModelFitsProvider` | `ModelOfProvider` | `ModelsFit`: the server's copy, the answer under way, the form and every save under way fit too, or are of a provider with the mixed list |
| `PageProofs!UntouchedSaveAltersTwo` | `UntouchedSaveKeepsRest` | `CopiesFit`: every copy that claims the current version shows what the server has, but for a zero temperature and the flag; and no copy claims a later one |
| `PageProofs!ViewsTyped` | `ViewTypeOK` | inductive |
| `PageProofs!TailFollowed` | `OneTailTimer` | strengthened by `TailFollows`: the interval the clean-up would clear is the only one there is, and it polls the source of the last render; every change of what the effect depends on runs it, on the page and on the way off it |
| `PageProofs!NothingLeftBusy` | `BusyEnds` of `Settings` | inductive with the type; an answer stops the spinner, be it the first or the last of two under way, and nothing but a request starts one |
| `PageProofs!NoSpinnerLeft` | `SpinnersEnd` | inductive with the type; one lemma on starting a request, one per fetch, and one on a render, which may fetch and which may unmount the chart |

`MutexHeld`, `SendersServed` and the two `BusyEnds` are in no run. The last three are the part
of "it ends in time" that a prover without `ENABLED` can say, that whatever waits has something
under way to end it; they hold for every instance by proof alone.

Induction over numbers is available in one form: `LayoutProofs!LeastNat` (a set of numbers
with a member has a least one, from the library's theorem on well-founded relations) turns
an induction into a least counterexample, and `RecursionExists` proves that way that
the recursion behind `Without` defines a function.

Only model-checked:

* The liveness properties `Reconverges`, `CallsReturn`, `PumpsEnd`, `RequestsEnd`,
  `ViewsSettle` and `GetsAnswered`, because the provers have no `ENABLED`.
* `OnlyTheLockStops`, which is liveness too.
* What `FindDownstreamDependents` computes for every graph. Its recursion is over sets of
  nodes and not over numbers, and nothing but the `impacted` field of an incident depends
  on it; `TypeOK` of `Correlator` therefore leaves that field untyped.

## 5. Where the code and its words part

The run `cor_active` shows the first. The others have a configuration beside the runs, which
TLC refutes on small instances; each property is defined, with its comment, in the
component's module.

| property | configuration | what the code does | what it says |
|---|---|---|---|
| `ActiveFailing` | `MCCorrelatorActiveFailing.cfg` | `ProcessHostMetrics` never resolves a target, and a probe is tracked by name and resolved by id (`correlator.go:103`, `:110`, `:123`) | `correlator.go:31`: "active failing targets" |
| `ConnectedListed` | `MCHubConnectedListed.cfg` | the late unregistration of an old connection deletes the new one (`hub.go:232`) | `hub.go:284`: "a list of actively connected node IDs" |
| `AnswersOwnCommand` | `MCHubAnswersOwnCommand.cfg` | responses are matched by action id alone, and a repeated approval reuses it (`hub.go:186`) | `hub.go:248`: "sends a remediation command ... and waits for response" |
| `ResolvedMeansFixed` | `MCRemediationResolvedMeansFixed.cfg` | an approval closes the incident when the call returned no error, whatever `resp.Success` is (`main.go:109`, `server.go:428`) | `executor.go:16`: "post-fix verification" |
| `StaysClosed` | `MCRemediationStaysClosed.cfg` | the RCA goroutine writes back the whole row it read, status included (`rca.go:105`) | `sqlite.go:862`: "all unclosed incidents" |
| `ActionsAudited` | `MCRemediationActionsAudited.cfg` | the error of `RecordAuditLog` is discarded and the action reported as done (`executor.go:121`) | `executor.go:36`: "with rate-limiting and audit logging" |
| `RestartsLimited` | `MCRemediationRestartsLimited.cfg` | the limit is looked at for automatic executions only, and nothing makes one; approvals restart without limit (`executor.go:56`) | `README.md:40`: "per-container rate limiters (max 2 restarts/hr)" |
| `Grouped` | `MCCorrelatorGrouped.cfg` | every failure that was not tracked inserts an incident of its own, with the common root only named in it (`correlator.go:163`) | `README.md:32`: "grouping 10 downstream 502s into a single Incident Thread" |
| `SamplerRuns` | `MCCorrelatorSamplerRuns.cfg` | a recursive `RLock` with a writer in between stops both loops (`graph.go:204`, `server.go:366`) | `main.go:183`: "True 1Hz In-Memory Sampling" |
| `FieldIsSubmitted` | `MCEnrolmentField.cfg` | the form of one tab submits the address typed on another: `url \|\| ip_address \|\| endpoint` (`AddDeviceModal.tsx:72`) | `AddDeviceModal.tsx:306`: "Metrics Endpoint URL" |
| `SecretSurvivesEdit` | `MCEnrolmentSecret.cfg` | the edit form splits a token with `split('=', 2)`, which drops what follows a second `=`, and an untouched save sends what is left (`DevicesView.tsx:63`) | `DevicesView.tsx:60`: "Parse existing Proxmox credentials if present" |
| `ChoiceKept` | `MCObservabilityChoice.cfg` | after a "Logs" button each refresh of the containers selects its container and the stream again (`LogsView.tsx:38`) | `LogsView.tsx:26`: "default source" |
| `LiveStreaming` | `MCObservabilityLive.cfg` | the effect of the tail depends on the containers, which are new every 2 seconds, so its 3 seconds never end (`LogsView.tsx:78`) | `LogsView.tsx:71`: "Live auto-tail polling interval"; 252: "LIVE STREAMING" |

Seen while modelling, and in the models as the code has it:

* With the tail that never goes off, a late answer for an earlier source of the log page stays
  on the screen until the operator asks again; `ViewsSettle` is about the chart and the
  inspector only.
* Every save of the settings page sends `enabled: true` (`SettingsView.tsx:180`,
  `server.go:863`), so saving anything switches the LLM on, which the shipped configuration
  has off.
* The provider `custom` has no case in `ListAvailableModels` (`llm.go:530`) and is offered a
  fixed list of models of four other providers; the first of them replaces what was typed.
* A change of provider asks for the models with the endpoint of the provider before.
* Errors of writes are discarded all over (`executor.go:121`, `server.go:432`, `main.go:114`,
  `correlator.go:215`, `rca.go:105`), and the pages of devices and incidents never look at the
  status of an answer (`App.tsx:164`): what was not stored is shown as done until the next poll.
* An untouched edit of a Proxmox device rewrites its token, without `PVEAPIToken=` or with the
  default head; the scraper takes the result for the same.
* A test of a channel is sent the channel's fields, but a save leaves them out
  (`SettingsView.tsx:178-192`).
* Enrolling a name again keeps the row's token and type (`sqlite.go:1000`), so a corrected
  secret is ignored; a device that was renamed keeps its old name as its id, and enrolling
  that name takes the row over.
* The SNMP community is asked for (`AddDeviceModal.tsx:466`) and sent nowhere.
* A zero among the numbers of the settings is replaced by its default on loading
  (`SettingsView.tsx:84`) and then saved as that.
* The LLM client waits 45 s (`llm.go:30`), the server's connection 30 s (`server.go:186`): a
  slow answer reaches the drawer as an error.

## 6. Not modelled

Collectors, the Prometheus scraper, the LLM calls and the bot protocols are I/O and
parsing; the configuration file is read once; the demo seeder and `pkg/auth` have no caller.
Of the dashboard: the drawing of the topology, the Markdown renderer, the theme, the
geometry of the chart, the filters, sorting and grouping of the container table
(`Dashboard.tsx:373-409`), the filters and the download of log lines, the collapsed sidebar
(`App.tsx:40-57`): each is a function of the data shown and of a field of its own that
nothing else reads. Telemetry payloads, log texts and metric values are abstracted
everywhere. Two writers on one WebSocket (the reject path of `readPump` against
`writePump`) are not distinguished from two writes in sequence, and neither are unlocked
reads of the settings while a PUT changes them.

## 7. Plan

In order; each item is a module with its instance, and its proofs where noted.

1. `RingBuffer`: `ringbuffer.go` refining a bounded sequence; refinement and index lemmas
   proved.
2. `Devices`: device rows under heartbeats, the 45-second monitor (`main.go:299`),
   unregistration, deletion, with the status lines in the log ring (composes `RingBuffer` and
   the table of `Enrolment`).
3. `Remediation` over `RemoteAction` instead of a choice of outcomes.
4. `MetricsCache`: the aliases of the cache, and the thresholds copied by the correlator
   before the saved ones are read.
5. `EventBroadcast`: dashboard sockets, two broadcasters, a slow client; composed with
   `Console`.
6. `RateLimiter`: the sliding window of `auth.go`; its bound proved.
7. `MonitorAgent`: `Stop` against a dial in progress.
8. The correlator composed with `Remediation`: an incident's life from failure to closure.
9. More of the safety part of the liveness properties, proved. Done: who waits to send on a
   connection is served (`SendersServed`), and what shows as busy has something under way
   that ends it (`BusyEnds`, `SpinnersEnd`). Left: that a goroutine which holds a lock is at
   a step that releases it.
