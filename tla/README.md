# Kiali: a TLA+ verification project

TLA+ models of the stateful parts of Kiali - the caches of the server and the
pages of the web console - with TLC configurations that model-check them on
small instances, and TLAPS proofs for every value of the constants. Source
paths below are relative to the root of the Kiali repository.

Kiali is a console for Istio. Most of its code turns what it read into
something else: the server queries Kubernetes, Prometheus and a tracing backend
and answers in JSON, and the browser draws that JSON. What can go wrong in an
order nobody tested is in two places:

* **The server's caches**, shared by request handlers, tickers and background
  goroutines; first among them the session graph cache with its refresh jobs:
  three mutexes, one goroutine per session, one more per change of interval, one
  per tick, and objects shared by pointer.
* **The console's pages**. A browser runs one task at a time, but a page is a
  concurrent program all the same: answers arrive in any order and after the
  user went on, timers outlive what set them, one React instance serves one
  object after another, and the same fact is kept in redux, in the URL and in
  component state.

Contents: inventory, the modules, the runs, the bounds, fairness, the proofs,
where code and documentation differ, what is left out, the plan.

## 1. Inventory

### Modelled: the server

| Component | State | Operations | What makes it correct |
|---|---|---|---|
| Graph cache (`graph/graph_cache.go`) | `sessionGraphs`: session to `CachedGraph` pointer; the objects; one shared generator | `GetSessionGraph`, `SetSessionGraph` (with `checkMemoryLimits` and `evictLRU`), `Evict`, `Clear`, `SetGraphGenerator` | memory stays near the limit; eviction takes the least recently used; a session only gets its own graph |
| Refresh jobs (`graph/refresh_job.go`) | the manager's map of jobs; per job `refreshInterval`, `ticker`, `stopped`, `resetChan`, `stopChan`, `updateIntervalCancel`, `ctx` | `Start`, `Stop`, `UpdateInterval`, `refresh`; `StartJob`, `StopJob`, `GetJob`, `StopAll` | one live job per session, always reachable; a job that is live gets ticks; a job that is stopped leaves no goroutine; inactivity is noticed |
| Cached graph requests (`handlers/graph.go`) | the handler's local pointers to a graph and a job | `graphNamespacesWithCache`: bypass, hit, hit with another interval, options changed, miss | the graph served is the one asked for, from the session's own client |
| FIFO store (`store/fifo_store.go`) | the wrapped store; `order`, a list of keys | `Set`, `Remove`, `Replace` | never above capacity; evicts the oldest |
| Expiring store (`store/expiration_store.go` over `store/threadsafe_store.go`) | the wrapped store; `keyTTLs`; a background sweep | `Set`, `Remove`, `Replace`, `checkAndRemoveExpiredKeys` | every key expires |

How they interact. A handler calls the cache, the manager and a job in turn,
each under its own mutex, with no lock held in between or while a graph is
generated. A job's loop starts `refresh()` in a new goroutine at every tick;
`UpdateInterval` starts a goroutine that refreshes once and hands the loop a new
ticker through `resetChan`. `refresh()` reads the cache, generates with the
generator of the job's own request, and stores; when it finds no graph, an
inactive session or a panic it evicts and stops its own job. The expiring store
is the base of the Kubernetes, Prometheus, health and Tempo caches; Tempo puts a
FIFO store under it.

The hard behaviours: a refresh that outlives its job; handlers holding a
pointer to a replaced graph or a stopped job; unlocked writes to a shared
`CachedGraph`; overlapping `UpdateInterval` calls; a `select` with several ready
cases; memory at its limit; a stopped loop that nobody reads `resetChan` for;
two stores written one after the other while the sweep does the same.

### Modelled: the web console (`frontend/src`)

| Component | State | Operations | What makes it correct |
|---|---|---|---|
| Session and login (`reducers/LoginState.ts`, `actions/LoginThunkActions.ts`, `services/Login.ts`, `app/App.tsx`, `app/AuthenticationController.tsx`, `UserDropdown.tsx`) | redux login state; the controller's `stage`; the loading counter; post-login promises and their timer | mount, login, its answer, the three post-login answers, the timer, page requests, logout | the spinner counts requests; nobody who is logged in is asked again; every login settles |
| Graph page (`pages/Graph/GraphPage.tsx`, `services/GraphDataSource.ts`, `components/Time/Replay.tsx`) | settings in store and URL, the data source, the page's copy of the graph, the replay and its timer | mount, first load, changes of settings, refresh, answers, cancelled answers, replay, unmount | the graph shown is the one of the settings shown with it; every change the server must know of reaches the graph; the replay ends |
| Istio object editor (`pages/IstioConfigDetails/IstioConfigDetailsPage.tsx`) | the object of the route, the details loaded, dirty flag, dialogs, blocked navigation, requests by generation | open, leave, type, save, delete, reload, cancel, confirm, close, answers | the newest answer counts; edits are not lost unasked; a text goes to the object it was typed for |
| Refresh clock (`hooks/refresh.ts`) | count of subscribers and timer in module variables; hook state of each component | mount, unmount, change of interval, tick, passive effects | one timer with the interval picked while somebody listens; content is shown unless refresh is manual |
| List pages (`pages/AppList`, `ServiceList`, `WorkloadList`, `IstioConfigList`) | rows, requests of the registry, selection, filter, sort, managed columns in redux and URL | mount, unmount, a link to the page shown, each change, tick, answers, column dialog | rows are those of what is selected; columns agree |
| Details pages (`pages/WorkloadDetails`, `AppDetails`, `ServiceDetails`) | the resource of the route, cluster and tab of URL and state, requests for details, gateways and peer authentications, health given to the chat | navigation, tabs, refresh, fetch after a save, answers, unmount | the state follows the URL; the chat is told of the page shown; requests end |

How they interact. Pages are children of `AuthenticationController`, whose
interceptors see every answer; a 401 to any of them ends the session. The list
pages, the graph page and others get `lastRefreshAt` and the interval from the
refresh clock. Settings go through redux and the URL. Requests are tied to a
page by a `PromisesRegistry` (graph, lists, post-login: a new registration
cancels the one before), by a generation counter (editor), or by nothing
(details).

### Not modelled

* **Istio validations** (`controller/validations.go`, writers in
  `business/istio_config.go` and `business/istio_validations.go`): a reconciler
  that computes from a snapshot, compares the store's version and replaces two
  stores. Correct when a newer single update is not overwritten by an older
  full result.
* **Kubernetes client factory** (`kubernetes/client_factory.go`): per-token
  clients, expiry timers feeding a channel, shutdown closing it.
* **AI conversation store** (`ai/store.go`), **health monitor and cache**
  (`business/health_cache.go`, `cache/cache.go`), **port pool, lazy Prometheus
  client**: small caches of the kinds above.
* **Graph generation and appenders, validation checkers, business services,
  models, mesh discovery, tracing clients, server-side authentication, TLS
  policy and configuration, AI providers, routing**: request-scoped
  transformations of external data, or I/O, without shared state that
  interleavings could disturb (the caches they use are listed above).
* **Mesh page**: a smaller copy of the graph page and its data source.
* **Istio wizards**: sequential builders of Kubernetes objects from forms.
* **Pod logs, namespaces and overview pages, chat**: registered requests that
  fill cards, as in the lists; the chat's stream is a conversation of its own.
* **Find and hide, charts, tables, labels, the API client, types, mocks**:
  rendering and declarations, which is most of the console's 120,000 lines. They
  hold no state whose order of change matters, so a state machine would say
  nothing about them. This is why the modules cover a small share of the lines:
  they cover the handlers that decide, not the code that draws.

`PROJECT.json` lists all of them, and the hazards of the code line by line.

## 2. The modules

| Module | Models | Used by |
|---|---|---|
| `GraphCache` | the cache and its memory limit; a cache-only specification `CacheSpec` | `MCGraphCache`, `GraphRefresh` |
| `RefreshJobOps` | what the methods of a job do to the job record, as functions | `GraphRefresh`, `JobLifecycle` |
| `GraphRefresh` | handlers, jobs and refreshes over the cache, composed | `MCGraphRefresh`, `GraphRefreshProofs` |
| `JobLifecycle` | abstract job: what the rest of the system sees of it | refined by `RefreshTicker` |
| `RefreshTicker` | one job in detail: loop, ticker, `resetChan`, update goroutines | `RefreshTickerProofs` |
| `FifoStore`, `ExpirationStore` | the two stores | `FifoStoreProofs` |
| `Session` | login, interceptors and what the user sees | `SessionProofs` |
| `GraphPage` | graph page, data source and replay, composed | `MCGraphPage`, `GraphPageProofs` |
| `ConfigEditor` | the editor of an Istio object | `ConfigEditorProofs` |
| `RefreshHook` | the refresh clock and React's passive effects | `ListPage` |
| `ListPage` | the list pages on that clock | `MCListPage`, `ListPageProofs` |
| `DetailsPage` | the details pages | `MCDetailsPage`, `DetailsPageProofs` |

`MC*` modules add what only TLC needs (symmetry, a view, sets of records);
`*Proofs` modules hold theorems. Those of `GraphCache` are in
`GraphRefreshProofs`, which needs most of their lemmas for the cache in use.

**GraphCache.** Cached graphs are shared by pointer, so they live in `heap`,
and `sessionGraphs` maps a session to a cell. `LastAccessed` is an age. The
`TrafficMap` is reduced to whose client it was made with (`owner`), for which
options, and its estimated size `mb`. Since every method holds `cache.mu`, one
method is one step. `evictLRU` sorts with an unstable sort over random map
order: `EvictLRU` gives every victim set that some order of equal ages gives.

**GraphRefresh.** One action per step between two locks. A handler's `pc` says
where in `graphNamespacesWithCache` it is: `bypass`, `bypassEvict` (interval
at most 0); `lookup`; `hit`, `getJob`, `update`, `write`, `reset`, `serve`
(same options; the middle ones only for another interval); `invalidate`,
`stopStale` (other options); `generate`, `checkGenerator`, `setGenerator`,
`start` (miss). `CompareInterval` and `WriteInterval` are the unlocked read and
write of `cached.RefreshInterval`. A refresh has `lookup`, `check`, `generate`,
`set`, `evict`, `stop`. Graph generation succeeds with any size, fails, or
panics. `StopAll` and `Shutdown` (the server's context ends) may happen at any
moment. Heap cells and job objects that nothing refers to are reused, as Go's
collector would let them be; which free cell is taken does not matter and is a
fixed choice. Options are equivalence classes under `graphOptionsMatch`.

**RefreshTicker and JobLifecycle.** `GraphRefresh` moves its jobs by the
operators of `RefreshJobOps` only. `JobLifecycle` is the specification of a job
that moves by these operators and by nothing else; `RefreshTicker` has the
`Start` loop, the one-slot channel, the cancelled contexts and every `select`,
and implements `JobLifecycle` under the refinement mapping at its end. That is
what justifies leaving the tickers out of `GraphRefresh`.

**FifoStore.** `inserted` is a history variable: the stored keys in the order
they came. `Remove` leaves `order` alone because the code hands `list.Remove` a
new `list.Element`, which belongs to no list. The capacity comes unchecked from
the configuration; with capacity 0 the store holds one key (`Limit`), because
`Set` evicts before it adds and finds nothing to evict.

**ExpirationStore.** The wrapped store and `keyTTLs` have a lock each, so every
call is two steps (or one per key, in `Replace`). A deadline is absent, running
or passed. The sweep works on a snapshot of the keys. `Replace` does not: it
ranges over the map it gave to the wrapped store, without that store's lock, so
it misses keys that other calls remove meanwhile and may meet keys they add
(`Ranging`), until another `Replace` gives the store a map of its own. That Go's
runtime may stop the program when it notices such a range is not modelled.

**The console modules.** A browser task with every dispatch, render, effect and
promise reaction it causes is one step, because nothing can come in between;
where React does let something in between (passive effects), that is a step of
its own. What interleaves is the order of answers, timers and the user's acts. A
page is React 17, whose `setState` outside of event handlers renders at once.

**Session.** `login` and `post` hold the calls of `performLogin` and
`doPostLoginActions`; `flight` the axios requests. An answer is data, a 401,
another error, or a lost connection, which has no `error.response`: the
interceptor has counted the request down by then, and the reducer throws and
leaves the state. `StartPostLogin` registers the promises of a new call under
the keys of the earlier one, which cancels those. `StageAfter` is
`componentDidUpdate`, `Screen` is `render`.

**GraphPage.** A graph is known by the parameters it was generated for. `view`
stands for the settings that `isPreviousDataInvalid` compares (namespaces, node,
graph type and so on; 0 is no namespace), `detail` for the others of which every
change asks for a new graph. Edge labels and the values of find and hide ask only
when the new value needs something of the server: response times or throughput
(`Appended`), or labels (`LabelSearches`). `urlRefresh` is the interval in the
URL, which also makes the refresh manual while the one in the store did not just
change (`ManualRefresh`). `Triggers` is the condition of `componentDidUpdate`.
`Mount` opens the page with a link: the constructors of the toolbar and its
children dispatch what the URL says while the page renders with the properties
of before, and one update follows `componentDidMount`; the first fetch comes from
that update, from the timeout, from both or from neither. `Controls`, `Stored`
and `Links` are what a control sets, the settings found in the store, and what a
URL says; the theorems hold for any. `live` is the request registered under the
key, `cancelled` counts the ones it replaced, which still answer. `ds` is the
data source and `page` the copy the page makes of it in its handlers. A replay
has a length in half frames, so that one shorter than a frame is there: it has no
second frame, but it has a timer, since `updateRefresher` tests the length.
`FrameToQueryTime` adds frames to the start. `CloseReplay` makes two updates:
with the replay gone the refresh dropdown is constructed again and takes the
interval of the URL. The speed button of the replay is left out, since a timer
fires at any moment.

**ConfigEditor.** The text is abstracted to the object it was loaded from
(`details`) and the route at which it was typed (`typedAt`). `Page` collects the
state in a record, so a handler is written as the composition of the changes it
makes, in their order. `calls` are saves and deletes, which outlive the page;
their continuations use the state setters of the instance that made them.

**RefreshHook and ListPage.** `batch` is what the last commit left to run: the
cleanups of removed components, then new effects. A tick or click may come first,
and its first state change runs the batch. A tick inside a React handler renders
once (`TickBatched`); from the timer it renders each listener in turn
(`TickOneByOne`), and a listener replaced by the effects that the first render
runs misses it. `ListPage` composes the hook with the
lists: `kind` is one of the three item pages, which wait for all clusters and
replace their rows, or the Istio page, whose clusters answer one by one and add.
A list of column ids is the set of its pairs in order, so that order counts.
`Relink` is the menu's link to the page already shown, or the browser's history:
the page stays mounted and does not render, so columns and sort of the URL change
alone, and `relinked` remembers it until a render reads the sort and until a
mount or the dialog writes the columns. Clusters, selections, filters and sorts
are symmetric.

**DetailsPage.** Requests are a bag, since the same one may be under way twice.
`DidUpdate` is `componentDidUpdate`, applied in `Rendered` once for every state
change that an answer makes, the last being the continuation that takes over
cluster and tab (`sets`; the requests of the mount and after a save have none).
On the service page every fetch also asks for gateways, registered, and for peer
authentications, not registered; their answers render the page and so may fetch
again. `Published` files the health of an answer under the resource the props
have when it arrives. `Refetch` is what a save of labels or a wizard ends with.

Definitions whose comment begins with *Faulty*, and in the console modules the
unused definition before the real one (`DecrementUnguarded` before
`Decrement`), are plausible mistakes in that piece of code. Nothing uses them in
a run; `PROJECT.json` pairs each with the property that notices it when it takes
the place of the real definition.

## 3. The runs

| Run | Configuration | Shows |
|---|---|---|
| `graph_cache` | `MCGraphCache.cfg` | Three sessions, graphs of size 0 to above the limit, any sequence of operations. `MemoryOvershootBounded`: the limit is exceeded by at most one graph and the excess does not build up. `InsertRestoresLimit`: a graph for a session that had none brings the total under the limit. `OnlyLeastRecentEvicted`: nobody is evicted before somebody idle for longer, nor needlessly. |
| `refresh_sessions` | `RefreshSessions.cfg` | Two overlapping requests of one or two sessions, two overlapping refreshes, room for one graph. `OneLiveJob`: a job that is not stopped is the one in the manager's map. `SessionIsolation`: no session is given a graph of another. `ServedMatchesRequest`: between the comparison of options and the response nothing changes what the handler is about to serve. |
| `refresh_ends` | `RefreshEnds.cfg` | `GoroutinesEnd`: once requests stop coming, every goroutine of every job ends, although refreshes keep reading the graph and copy its access time. |
| `refresh_ticker` | `RefreshTicker.cfg` | `NeverDeaf`: a live job has a running ticker, one in `resetChan`, or a goroutine on its way with one. `StoppedJobEnds`: no goroutine stays blocked on `resetChan`. `ImplementsLifecycle`: the refinement. |
| `fifo_store` | `FifoStore.cfg` | `OrderCoversData`, `CapacityRespected`: the capacity holds although `Remove` leaves keys in `order`. |
| `expiration_store` | `ExpirationStore.cfg` | `PassedDeadlineHandled`: under all overlaps a stored key whose deadline passed is removed, or its deadline changed. `SerialKeysExpire`: as long as no two operations overlap, every key goes. |
| `session` | `Session.cfg` | All four kinds of strategy. `SpinnerCountsRequests`: the counter of the masthead is the number of requests under way, also after lost connections. `LoggedInNotAskedAgain`: overlapping post-login calls, late timers and late 401s never send a logged-in user to the form. `LoginSettles`: a login that succeeded ends in the protected area, an error message or the login form, never in an endless loading screen. |
| `graph_page` | `GraphPage.cfg` | `ShownGraphMatchesParams`, `OldGraphOfSameView`: graph and settings belong together, at rest and while loading. `SettingsReachGraph`: unless refresh is manual, the last fetch has every setting that the toolbar needs of the server now, from any link, through manual mode, pauses and replays. `FrameShown`, `TimerIffPlaying`: the replay. `GoneUntouched`: nothing reaches a page that is gone. `LoadingEnds`: loading comes to rest. `PlayingEnds`: a replay that plays does not play for ever, also one shorter than a frame (the exception is length zero, section 6). |
| `config_editor` | `ConfigEditor.cfg` | `NewestAnswerShown`; `WaitingLeaveIsAsked` and `LeavingIsConfirmed`: no navigation waits without a dialog and no edits are left without one, although a fetch, a reload dialog and the Cancel button meet; `PatchTypedForTarget`: nothing typed for one object is sent to another. |
| `list_page` | `ListPage.cfg` | `OneTimerForSubscribers`, `LoadedUnlessManual`: the clock. `ListMatchesSelection`, `OneCallAtATime`: rows of one selection, all clusters once. `ColumnsAgree`: redux and URL have the same columns in the same order, from any link; a link to the page shown is the exception, until the next mount or use of the dialog. |
| `details_page` | `DetailsPage.cfg` | `QuietFollowsUrl`: with every answer applied in the order of arrival the page still ends at the place of the URL. `ChatNamesPage`: the chat ends up with the resource of the route, although answers to requests for earlier resources may be the last to come. `FetchingEnds`: once the user does nothing more, requests end. On the service page the renders do feed themselves, through gateways and peer authentications, but only until details asked for at the place of the URL arrive. |
| `stale_patch` | `StalePatch.cfg` | a counterexample, section 6 |

`InactiveEvicted.cfg`, `MemoryLimit.cfg`, `LastIntervalWins.cfg`,
`EvictsOldest.cfg`, `KeysExpire.cfg` and `ProtectedArea.cfg` are not runs: each
reproduces a behaviour of section 6 when given to TLC by hand.

The type invariants of `GraphRefresh` (which includes that of `GraphCache`),
`RefreshTicker` and `ConfigEditor` are checked in their runs, and proved. The
other modules state theirs as documentation of the state; their proofs carry
what they need of it in their own invariants.

### Bounds, and why they are enough

* `Threads` = 2, `Refreshers` = 1 or 2: handlers and refreshes share only the
  variables of the cache and the manager, and every conflict is between two
  parties: a handler and a handler, a handler and a refresh, two refreshes.
* `MaxRequests` = 2: what a refresh or another request can leave behind for a
  request is the work of one other request and of refreshes, which are not
  bounded in number.
* `Jobs`: one for every request that may start one. `Graphs`: one cell for each
  cached graph and each process that can hold one; a step that finds no free
  cell waits for one, and the proofs hold for any number.
* `AgeCap` = 1 and `InactivityTimeout` = 0 in `GraphRefresh`: recent and
  inactive are the two ages that the code tells apart there. `GraphCache`, where
  ages are compared with each other, has three.
* `Sizes` in `graph_cache`: 0, below, and above the limit.
* `Updaters` and `MaxUpdates` = 3: one goroutine that is superseded, one that
  supersedes it, and one more.
* `Capacity` = 3 with four keys (the theorems cover any, 0 included); `MaxWrites`
  = 3 with two keys and two writers (a `Set`, and the two calls that may surround
  the sweep).
* `Session`: two logins (one superseded by the other), one page request and one
  logout, so that a late 401 or logout meets each stage.
* `GraphPage`: two views and none, two details, edge labels and searches that
  need the server and that do not; replays of length 0 (which a URL can ask for),
  half a frame and one frame (which has a first, a last and a next one); a store
  with and without a namespace; six links (`MCLinks`): one for each way the first
  fetch can come, one of them manual, and two to a replay beside an interval that
  the store lacks. View 2 and a search in hide come with links only, and the
  reset button brings view 1 and everything else back. Three acts of the user are
  enough to change a setting, start and leave a replay with requests under way;
  one refresh.
* `ConfigEditor`: two objects, four requests of an instance and two calls: a
  navigation, a save, its continuation, and a reload on top of each other.
* `ListPage`: three calls are one that is superseded, one that supersedes it and
  one more; two clusters are what "all" and "the last" need; intervals paused,
  manual and running; a link without columns, and one with the name column
  hidden, unknown columns and another order; one use of the column dialog or one
  link to the page shown. Two components are one that a tick reaches first and
  one it reaches last, or one that stays and one that comes or goes.
* `DetailsPage`: two resources, two clusters and two changes, with links to each
  cluster and one that names none (`MCLinks`); the tabs of the page lead to the
  other places. How many requests a change starts in turn is not bounded, since
  `FetchingEnds` is about that. `MaxInFlight` = 2 only stops renders for gateways
  and peer authentications from asking for details once more while two such
  requests wait already: the answer to the one that matters does not depend on
  how many others there are.

`refresh_ends` runs one refresh at a time to keep the liveness check small. A
refresh copies the age of the object it found and never lowers one, so two
together cannot look like an access either.

`VIEW LiveState` leaves out the contents of heap cells and jobs that nothing
refers to; they are overwritten before they are used again. Symmetry
(sessions, handlers, refreshes) is used in safety runs only. Jobs and graph
cells are not symmetric, because a new object goes to a fixed free place.

The `GraphRefresh`, `RefreshTicker`, `ExpirationStore` and console runs do not
check for deadlock: with no requests to come and every goroutine gone, the server
rests, and so does a page nobody uses.

## 4. Fairness

* Handlers and refreshes take their next step (`WF`): generation is bounded by
  the timeouts of the queries it makes, and no lock is held for long.
* The loop of a stopped job returns (`WF`): its `select` has a ready case.
* Ticks and interval/2 timers happen (`SF`). A running `time.Ticker` always
  fires again. Strong fairness is needed only because `Refreshers` bounds how
  many refreshes exist: a slot is free again and again, not for good, where Go
  would start a goroutine at once. That a live job does have a running ticker
  is `NeverDeaf`.
* Time passes (`WF`).
* Nothing is assumed of clients (no request has to come) nor of shutdown.
* In `RefreshTicker` every goroutine that can move does; `Stop`,
  `UpdateInterval` and `Shutdown` need not happen. In `ExpirationStore` calls
  return, the sweep runs and deadlines pass.
* In the console modules every request is answered or fails (browsers give up
  in the end) and a timer that is set fires, each with `WF`. In `DetailsPage` the
  details have a `WF` of their own: with one for all answers those for gateways
  and peer authentications could go on starting each other while the details
  never come. Nothing is assumed of the user: no click, navigation or refresh has
  to come. That users, and in `GraphPage` refreshes, stop in the end comes from
  the bounds; with refreshes for ever faster than the answers a graph page would
  load for ever, since each cancels the one before.

## 5. Proofs

Every safety property and action property of the runs that pass is also a
theorem, for any values of the constants: any number of sessions, handlers,
jobs, refreshes, requests, objects, components, clusters and changes.

| Module | Theorem | States, of `Spec` |
|---|---|---|
| `GraphRefreshProofs` | `TypeCorrect` | `[]TypeOK` |
| | `LiveJobIsUnique` | `[]OneLiveJob` |
| | `SessionsAreIsolated` | `[]SessionIsolation` |
| | `ServesWhatWasAsked` | `[]ServedMatchesRequest` |
| | `RefreshMemoryBounded` | `[]MemoryOvershootBounded` |
| | `RefreshInsertsRestoreLimit` | `InsertRestoresLimit` |
| | `RefreshEvictsLeastRecent` | `OnlyLeastRecentEvicted` |
| | `CacheMemoryBounded` | `[]MemoryOvershootBounded`, of `CacheSpec` |
| | `InsertsRestoreLimit` | `InsertRestoresLimit`, of `CacheSpec` |
| | `LeastRecentEvicted` | `OnlyLeastRecentEvicted`, of `CacheSpec` |
| `RefreshTickerProofs` | `TypeCorrect` | `[]TypeOK` |
| | `JobIsNeverDeaf` | `[]NeverDeaf` |
| | `JobImplementsLifecycle` | `ImplementsLifecycle`, the refinement |
| `FifoStoreProofs` | `OrderCovers` | `[]OrderCoversData` |
| | `CapacityIsRespected` | `[]CapacityRespected` |
| `SessionProofs` | `SpinnerCounts` | `[]SpinnerCountsRequests` |
| | `NotAskedAgain` | `[]LoggedInNotAskedAgain` |
| `GraphPageProofs` | `GraphOfParams` | `[]ShownGraphMatchesParams` |
| | `OldGraphStays` | `[]OldGraphOfSameView` |
| | `SettingsReach` | `[]SettingsReachGraph` |
| | `FrameReaches` | `[]FrameShown` |
| | `ReplayTimer` | `[]TimerIffPlaying` |
| | `GoneStays` | `GoneUntouched` |
| `ConfigEditorProofs` | `EditorTypes` | `[]TypeOK` |
| | `EditorShowsNewest` | `[]NewestAnswerShown` |
| | `EditorAsks` | `[]WaitingLeaveIsAsked` |
| | `EditorPatches` | `[]PatchTypedForTarget` |
| | `EditorLeavesConfirmed` | `LeavingIsConfirmed` |
| `ListPageProofs` | `HookTimer` | `[]OneTimerForSubscribers` |
| | `HookLoads` | `[]LoadedUnlessManual` |
| | `ListShowsSelection` | `[]ListMatchesSelection` |
| | `ListOfOneCall` | `[]OneCallAtATime` |
| | `ListColumns` | `[]ColumnsAgree` |
| `DetailsPageProofs` | `DetailsFollowUrl` | `[]QuietFollowsUrl` |
| | `ChatNamesRoute` | `[]ChatNamesPage` |

The assumptions are the named `ASSUME`s of the modules, which TLC evaluates in
every run: `CacheConstants`, `RefreshConstants`, `TickerConstants`,
`FifoConstants`, `SessionBounds`, `GraphPageAssumption`, `EditorBounds`,
`HookConstants`, `ListConstants` and `DetailsConstants`. They say that the
markers for "none" are not elements, that the sets inputs come from are not
empty, that 0 is not an interval of a job, that sizes and limits are naturals
and there is a largest size, that the components of the console and the clusters
of a mesh are finite in number, and that every page has a name column.

**GraphRefresh.** `TypeOK` is not inductive: that `job'` is a job needs the
handler at `update` to hold a job, that `heap'` is well typed needs a refresh at
`generate` to hold a graph. `WellFormed` adds what each process has set before
it gets to a step, and that job objects in use belong to a session. `OwnersOK`
adds that a job's generator is that of its own session; `Consistent` is both.
`OneLiveJob` is inductive relative to `Consistent`: the argument is that no
operation but creation un-stops a job (`OpsKeepJob`), that creation happens in
the same critical section as stopping the job replaced, and that `jobs` changes
only together with a `Stop`. For `SessionIsolation` ownership has to be followed
through graphs that are generated and not stored yet, and through a refresh
whose job is no longer in the map: `Owned` says it of the cache, of the handlers
and of the refreshes. `ObjectsStay` shows that an object somebody refers to
never changes its owner, its options or its size; it rests on new objects taking
unused cells. `ServedMatchesRequest` follows from it relative to `Consistent`.

**GraphCache.** The total is a sum over a set (`MapThenSumSet`), which is
defined by recursion with an arbitrary choice of the next element. `MemCounts`
turns it into counting: a graph of n MB stands for n blocks, and the memory of a
set of sessions is the number of their blocks. Counting solves the recursive
equation, so the function that is chosen solves it too; it agrees with counting
because among the sets on which it did not there would be a smallest one. What
the proofs need of sums is then known of cardinalities. `Victims` says of
`evictLRU`, for every order the sort may give, that it frees the target or
everything, that victims are no younger than those who stay, and that the victim
before which it stopped was needed. With it, one store brings the memory within
the limit and one graph from *any* memory before (`StoreRestores`): the excess is
the old graph of the same session, counted as replaced and again as freed. So the
bound needs no more than the types and that finitely many sessions are cached.
`CacheChanges` shows that the steps of handlers and refreshes are such stores, or
store nothing and keep the sizes of what is stored, so the three properties of
`CacheSpec` hold of the cache in use as well. That is not a refinement: a refresh
also writes objects that are not stored yet, and a request with a new interval
stores the object it found again.

**RefreshTicker.** `NeverDeaf` needs to know which updater is `latest`: an
updater that is not idle and not cancelled can only be that one, so cancelling
it and starting the next happens in one step. The refinement needs the same
(`OnlyLatestCounts`), since the abstract job has one pending goroutine and a
number of superseded ones, and it needs that number to exist: the superseded
ones are finite, whatever set `Updaters` is. Each step of the detailed job is
then shown to be an operation of `RefreshJobOps`, or not to be seen.

**FifoStore.** `OrderCoversData` with the types is inductive, and by counting
gives `CapacityRespected`.

**Session.** The counter is right only if no request is made twice.
`Accounted` says who made the requests under way: a login is sent once, and the
requests of `doPostLoginActions` follow the answer of the login they belong to.
`NothingBefore` says that nothing happens before the controller is mounted, with
which `LoggedInNotAskedAgain` is inductive.

**GraphPage.** `Sourced`: the page follows its data source, and the request that
counts is for the parameters of the last fetch, unless that was for no
namespace. `Reached`: unless refresh is manual or the timeout is still to come,
the last fetch serves the settings of now (`Serves`), also while it is under way.
`Replayed`: the query time in the store is that of the replay's frame, the timer
follows its status, and without a replay store and URL have the same interval,
which makes leaving manual mode safe: every way out of it changes the interval of
the store, which fetches, or ends a replay, after which the dropdown does.
`FrameShown` needs all three.

**ConfigEditor.** The handlers compose changes to one record, so the invariant
is one of such a record (`Sound`), and each change has a lemma with the
condition in which its handlers call it. `PatchTypedForTarget` needs that unsaved
text was typed under the route that is shown (`TypedHere`); `NewestAnswerShown`
needs the type of the generations. `LeavingIsConfirmed` follows from
`WaitingLeaveIsAsked`: a blocked navigation that goes on has had a dialog.

**ListPage.** Properties of the clock hold once effects have run; the invariant
`HookInv` says what holds while they wait: who listens (all but what the last
commit mounted, and what it removed), that count and timer agree with that, and
what the manual state of a component may lack. `InStep` says of the list, unless
updates wait for the user: the requests of the newest call and the rows add up to
all clusters, each once, and there is nothing else. `ColumnsAgree` is inductive
with the redux settings being valid ones, shown page or not.

**DetailsPage.** Every step of a mounted page ends with a `componentDidUpdate`,
which asks again or finds the state where the URL is (`Follows`). For the chat,
a change of the route's resource asks at once and the props name the resource
when the answer comes, so a name that is not the route's means that details are
awaited (`ChatFollows`); the cluster of the health is the one the continuation of
the same answer puts into the state.

The proofs found one fault of a model: in `ConfigEditor` two cases of `Arrive`
overlapped for a page without an object, which TLC resolved by taking the first.
The cases are now disjoint. Assumptions that had been left implicit (a page has a
name column that is not the marker for an absent setting, sizes have a largest
one, a replay has a start and a length) are stated.

Only model-checked: the liveness properties, `GoroutinesEnd`, `StoppedJobEnds`,
`PassedDeadlineHandled`, `SerialKeysExpire`, `LoginSettles`, `LoadingEnds`,
`PlayingEnds` and `FetchingEnds`. They rest on fairness, that is on `ENABLED`,
which the prover does not reach. `ExpirationStore` therefore has no theorem: that
keys expire is all it promises. The counterexample of section 6 is TLC's.

## 6. Where code and documentation differ

**The run `stale_patch`.** The editor keeps one instance for all objects, and
after a navigation it holds the details and the text of the earlier object until
the later one is fetched. Neither the editor nor Save is disabled meanwhile, so
a change typed then is sent to the later object as a patch made from the
earlier object's YAML (`handleUpdate`,
`frontend/src/pages/IstioConfigDetails/IstioConfigDetailsPage.tsx:599`), and the
same holds when that fetch never answers. The comment at line 717 says "Clear
dirty before leave so the reused route instance cannot PATCH stale YAML."
Clearing the flag closes the way it names (`PatchTypedForTarget` holds), not
this one.

By hand, on the server:

* (`InactiveEvicted.cfg` with `MCGraphRefresh`) A bypass request stops the job and evicts the graph
  while a refresh of that job is generating. The refresh looks at neither
  `stopped` nor the cache before it stores, and no job is left to notice
  inactivity: the graph stays until memory pressure or the session's next
  request. `design/KEPS/graph-cache/proposal.md:164`: "Sessions inactive (no
  cache hit) longer than this are evicted to free memory." The same can follow
  a change of options whose generation panics, since that path stops the job
  too.
* (`MemoryLimit.cfg` with `MCGraphCache`) Replacing a graph subtracts its old size from the
  projection, and `evictLRU` may pick that old graph and count its size as
  freed again. `graph/graph_cache.go:201`: "checkMemoryLimits ensures we don't
  exceed memory limits". `MemoryOvershootBounded` says how far it can go.
* (`LastIntervalWins.cfg` with `RefreshTicker`) An update goroutine past its wait may still win the
  `select` with its context cancelled, or send after the newer one.
  `docs/agents/graph-engine.md:396`: "A context (`updateIntervalCancel`) guards
  against concurrent `UpdateInterval` calls racing each other."
* (`EvictsOldest.cfg` with `FifoStore`) `Remove` does not take the key out of `order`, so a later
  `Set` may evict a key that is not the oldest, from a store that is not full.
  `docs/agents/kubernetes-client.md:176`: "evicts the oldest entry when capacity
  is exceeded".
* (`KeysExpire.cfg` with `ExpirationStore`) The sweep removes a key and then its deadline; a `Set` whose
  two steps fall in between leaves a key without a deadline, which no sweep
  removes. `store/expiration_store.go:19`: "expires keys after a certain time".

Also: `ActiveJobCount` counts jobs that stopped themselves,
because they stay in the manager's map until the session's next request.

In the console:

* (`ProtectedArea.cfg` with `Session`) A 401 that ends the session while
  `doPostLoginActions` still waits does not stop it: its last step shows the
  protected area without a session.
* A connection lost during a login: the login reducer reads
  `error.response.data` of an error without a response and throws, so the status
  stays `logging` and the login button disabled until the page is reloaded.
* `shouldRelogin` in `AuthenticationController` reads inverted, but the calls
  that would show it cannot happen: at mount the store either has a session, and
  it is not called, or has none.
* After a save is answered, `ConfigEditor` fetches the object of the render in
  which Save was clicked. If the user went on meanwhile, that fetch is newer than
  the one of the object now in the URL, and replaces it in the editor.
* The details pages apply every answer. `QuietFollowsUrl` holds for cluster and
  tab; the details themselves may be those of an earlier place until the next
  answer. The chat is given the health of such an answer under the name that the
  route has by then (`ChatNamesPage` is about the name, not the figures), and
  the answer to the request of the mount under the cluster of the mount.
* An edge label that is removed, or a search without `label:`, does not fetch:
  the graph keeps what it has. `SettingsReachGraph` says that nothing is missing.
* `isNodeChanged` (`frontend/src/pages/Graph/GraphPage.tsx:280`) ignores a node's
  namespace and cluster. At mount this means that a URL with a node of the same
  name in another namespace does not replace the node in the store, although the
  comment at line 347 says "Let URL override current redux state at mount time".
  In `componentDidUpdate` it misses nothing: the node in the store changes only
  at mount, under that same test, and when the user leaves a node graph, to none.
* A replay of length zero (from the URL) gets no timer (`Replay.tsx:455`) and
  stays `playing` until the user stops it.
* The menu's link to the list page that is shown drops the column settings from
  the URL while redux and the table keep them.
* `extendSession` is never called by the console.

## 7. What the models leave out

* Contents of graphs, queries, HTTP, metrics, logging, and the wording of
  errors. Requests that never touch the cache (cache disabled, no session
  cookie, explicit query time) are stuttering steps.
* `graphOptionsMatch` itself: `Options` are taken up to it. It compares
  appender names by number and inclusion, so repeated names are a case of its
  own; planned as a checked operator.
* `EstimateGraphMemory`: a size is any element of `Sizes`.
* Torn reads of `LastAccessed`: the race is modelled as reading the old or the
  new time.
* The wall clock: timers fire at any moment, ages grow together.
* Values held by the stores; only keys matter to the properties.
* In the console: layout, notices, wording, metrics; the landing route after a
  login; folding, markers and the drawer of the editor; the contents of wizards
  and of label edits on the details pages; what find and hide find, and the side
  panels of the graph.
* Requests that axios repeats or aborts: the console does neither.

## 8. Plan

1. *(done)* `GraphCache`, `GraphRefresh`, `RefreshTicker`, the two stores; the
   theorems of section 5.
2. *(done)* The console: `Session`, `GraphPage`, `ConfigEditor`, `RefreshHook`
   with `ListPage`, `DetailsPage`.
3. *(done)* Proofs for the console and the rest of the server: every safety and
   action property, and the refinement of the job.
4. Further theorems: lemmas that liveness arguments would rest on (what a step
   towards the end of a job or of a login decreases).
5. Further components, by shared state: the validations reconciler (abstract
   specification: a store in which the last writer by version wins), the client
   factory, the FIFO store under the expiring store as in Tempo, the AI
   conversation store and the health cache, `graphOptionsMatch` over sequences
   of appender names.
