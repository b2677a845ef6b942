----------------------------- MODULE GraphPage -----------------------------
(***************************************************************************)
(* The traffic graph page of the web console: the toolbar settings in the  *)
(* redux store, GraphPage (pages/Graph/GraphPage.tsx), which decides when  *)
(* a change of them asks for a new graph, GraphDataSource                  *)
(* (services/GraphDataSource.ts), which keeps at most one request that     *)
(* counts, and the replay of past traffic (components/Time/Replay.tsx),    *)
(* which moves the query time frame by frame.                              *)
(*                                                                         *)
(* A step is a browser task: a user event, a timer or an answer with every *)
(* dispatch, render and componentDidUpdate it causes.                      *)
(***************************************************************************)
EXTENDS Naturals

CONSTANTS
  Views,         \* positive: the settings a change of which empties the graph
  Details,       \* the settings a change of which keeps the old graph meanwhile
  EdgeLabels,    \* sets of edge labels
  Appended,      \* the ones with response times or throughput
  Searches,      \* values of find and of hide
  LabelSearches, \* the ones with "label:"
  Controls,      \* what a control of the toolbar sets: functions of settings
  Stored,        \* settings in the redux store when the page is opened
  Links,         \* URLs the page is opened with
  Starts,        \* replay start times
  Intervals,     \* replay lengths
  DefaultReplayInterval,
  MaxChanges,    \* changes by the user (bound)
  MaxTicks       \* refreshes (bound)

GraphSettings == {"view", "detail", "edgeLabels", "findValue", "hideValue"}
RefreshIntervals == {"manual", "pause", "running"}

ASSUME GraphPageAssumption ==
  /\ Views \subseteq Nat \ {0} /\ Details \subseteq Nat /\ Starts \subseteq Nat \ {0}
  /\ Appended \subseteq EdgeLabels /\ LabelSearches \subseteq Searches
  /\ \A c \in Controls : DOMAIN c \subseteq GraphSettings
  /\ \A p \in Stored : DOMAIN p = GraphSettings
  /\ \A l \in Links : DOMAIN l.settings \subseteq GraphSettings
  /\ Intervals \subseteq Nat /\ DefaultReplayInterval \in Intervals \ {0}
  /\ Starts # {} /\ MaxChanges \in Nat /\ MaxTicks \in Nat

VARIABLES
  props,         \* GraphPage: its properties from the redux store, and the
                 \* refresh interval of the URL (urlRefresh)
  ds,            \* GraphDataSource
  live,          \* the registered request under way, or NoRequest
  cancelled,     \* cancelled requests under way
  page,          \* GraphPage: state.graphData
  mounted,       \* "new", "yes" or "gone"
  pending,       \* the setTimeout of componentDidMount
  replay,        \* Replay: its state and its timer
  changes, ticks

gds == <<ds, live, cancelled, page>>
vars == <<props, ds, live, cancelled, page, mounted, pending, replay, changes, ticks>>

\* View 0: no namespace is selected.
Params ==
  [view : {0} \cup Views, detail : {0} \cup Details, queryTime : Nat,
   edgeLabels : {{}} \cup {{e} : e \in EdgeLabels}, includeLabels : BOOLEAN]
NoParams ==
  [view |-> 0, detail |-> 0, queryTime |-> 0, edgeLabels |-> {}, includeLabels |-> FALSE]
EmptyGraph == NoParams     \* a graph is known by the parameters it was generated for
NoRequest == NoParams

Settings ==
  [view : {0} \cup Views, detail : Details, edgeLabels : EdgeLabels,
   findValue : Searches, hideValue : Searches,
   refreshInterval : RefreshIntervals, urlRefresh : RefreshIntervals \cup {"none"},
   replayActive : BOOLEAN, replayQueryTime : Nat]

\* Settings p after a control or a URL set the ones of c.
Set(p, c) == [f \in DOMAIN p |-> IF f \in DOMAIN c THEN c[f] ELSE p[f]]

ReplayState ==
  [status : {"initialized", "playing", "paused", "done"}, frame : Nat, start : Starts,
   interval : Intervals, custom : BOOLEAN, timer : BOOLEAN]

\* The variables range over the values the component states and the redux state
\* declare; a cancelled request is counted until it is answered.
TypeOK ==
  /\ props \in Settings
  /\ ds \in [params : Params, elements : Params, isLoading : BOOLEAN, isError : BOOLEAN]
  /\ live \in Params /\ cancelled \in Nat
  /\ page \in [params : Params, elements : Params, isLoading : BOOLEAN, isError : BOOLEAN]
  /\ mounted \in {"new", "yes", "gone"} /\ pending \in BOOLEAN
  /\ replay \in ReplayState
  /\ changes \in 0..MaxChanges /\ ticks \in 0..MaxTicks

---------------------------------------------------------------------------
(* GraphDataSource                                                         *)

\* loadGraphDataFromBackend: the parameters of a fetch.
FetchParams(p) ==
  [view |-> p.view, detail |-> p.detail, queryTime |-> p.replayQueryTime,
   edgeLabels |-> {p.edgeLabels},
   includeLabels |-> p.findValue \in LabelSearches \/ p.hideValue \in LabelSearches]

EmitAlways(handler) == page' = handler

\* Handlers are connected between componentDidMount and componentWillUnmount.
Emit(handler) == page' = IF mounted' = "yes" THEN handler ELSE page

ComparedWithItself(p) == p.view # p.view

\* isPreviousDataInvalid: one of the settings that make the old graph useless.
IsPreviousDataInvalid(p) == ds.params.view # p.view

\* handleGraphDataSourceEmpty and handleGraphDataSourceStart.
PageEmpty(p) ==
  [params |-> p, elements |-> EmptyGraph, isLoading |-> FALSE, isError |-> FALSE]
PageStart(p) ==
  [params |-> p, isLoading |-> TRUE, isError |-> FALSE,
   elements |-> IF IsPreviousDataInvalid(p) THEN EmptyGraph ELSE page.elements]

FetchEmpty(p) ==
  /\ ds' = [params |-> p, elements |-> EmptyGraph, isLoading |-> FALSE, isError |-> FALSE]
  /\ Emit(PageEmpty(p))
  /\ UNCHANGED <<live, cancelled>>

FetchUnlessBusy(p, n) ==
  /\ ds' = [params |-> p, isLoading |-> TRUE, isError |-> FALSE,
            elements |-> IF IsPreviousDataInvalid(p) THEN EmptyGraph ELSE ds.elements]
  /\ Emit(PageStart(p))
  /\ live' = IF live = NoRequest THEN p ELSE live
  /\ UNCHANGED cancelled

\* register cancels the request of the fetch before; n: the page asks n times
\* for p in the same task.
FetchRegistered(p, n) ==
  /\ ds' = [params |-> p, isLoading |-> TRUE, isError |-> FALSE,
            elements |-> IF IsPreviousDataInvalid(p) THEN EmptyGraph ELSE ds.elements]
  /\ Emit(PageStart(p))
  /\ live' = p
  /\ cancelled' = cancelled + n - (IF live = NoRequest THEN 1 ELSE 0)

\* fetchGraphData.  Without a namespace the request under way is left alone.
FetchGraphData(p, n) == IF p.view = 0 THEN FetchEmpty(p) ELSE FetchRegistered(p, n)

\* handleGraphDataSourceSuccess.
PageSuccess(elements) ==
  [params |-> ds.params, elements |-> elements, isLoading |-> FALSE, isError |-> FALSE]

PageErrorLoading ==
  [params |-> ds.params, elements |-> EmptyGraph, isLoading |-> page.isLoading, isError |-> TRUE]

\* handleGraphDataSourceError.
PageError ==
  [params |-> ds.params, elements |-> EmptyGraph, isLoading |-> FALSE, isError |-> TRUE]

\* The request that counts is answered: a graph, an answer without elements, or
\* an error.
Answered(outcome) ==
  LET elements == IF outcome = "graph" THEN live ELSE EmptyGraph IN
  /\ live # NoRequest
  /\ live' = NoRequest
  /\ UNCHANGED <<props, cancelled, mounted, pending, replay, changes, ticks>>
  /\ \/ /\ outcome \in {"graph", "nothing"}
        /\ ds' = [ds EXCEPT !.elements = elements, !.isLoading = FALSE, !.isError = FALSE]
        /\ Emit(PageSuccess(elements))
     \/ /\ outcome = "error"
        /\ ds' = [ds EXCEPT !.isLoading = FALSE, !.isError = TRUE]
        /\ Emit(PageError)

\* A cancelled request is answered: its promise is rejected with isCanceled.
CancelledAnswered ==
  /\ cancelled > 0
  /\ cancelled' = cancelled - 1
  /\ ds' = [ds EXCEPT !.isLoading = FALSE]
  /\ UNCHANGED <<props, live, page, mounted, pending, replay, changes, ticks>>

---------------------------------------------------------------------------
(* GraphPage                                                               *)

\* manualRefresh: the URL counts while the interval in the store is the old one.
ManualRefresh(old, new) ==
  \/ new.refreshInterval = "manual"
  \/ old.refreshInterval = new.refreshInterval /\ new.urlRefresh = "manual"

TriggersOnOldLabels(old, new, tick) ==
  \/ tick /\ new.replayQueryTime = 0
  \/ /\ ~ManualRefresh(old, new)
     /\ \/ old.view # new.view \/ old.detail # new.detail
        \/ old.edgeLabels # new.edgeLabels /\ old.edgeLabels \in Appended
        \/ old.findValue # new.findValue /\ new.findValue \in LabelSearches
        \/ old.hideValue # new.hideValue /\ new.hideValue \in LabelSearches
        \/ /\ old.refreshInterval # new.refreshInterval
           /\ new.refreshInterval # "pause" \/ old.refreshInterval = "manual"
        \/ old.replayQueryTime # new.replayQueryTime
        \/ old.replayActive /\ ~new.replayActive

\* componentDidUpdate: does the change from old to new ask for a graph?  A
\* refresh (tick) is left to the replay while it sets the query time; in manual
\* mode nothing but a refresh does.  Edge labels and searches ask only if they
\* need something of the server.
Triggers(old, new, tick) ==
  \/ tick /\ new.replayQueryTime = 0
  \/ /\ ~ManualRefresh(old, new)
     /\ \/ old.view # new.view \/ old.detail # new.detail
        \/ old.edgeLabels # new.edgeLabels /\ new.edgeLabels \in Appended
        \/ old.findValue # new.findValue /\ new.findValue \in LabelSearches
        \/ old.hideValue # new.hideValue /\ new.hideValue \in LabelSearches
        \/ /\ old.refreshInterval # new.refreshInterval
           /\ new.refreshInterval # "pause" \/ old.refreshInterval = "manual"
        \/ old.replayQueryTime # new.replayQueryTime
        \/ old.replayActive /\ ~new.replayActive

\* The store has new settings, or the refresh time changed.
Update(new, tick) ==
  /\ props' = new
  /\ IF Triggers(props, new, tick) THEN FetchGraphData(FetchParams(new), 1) ELSE UNCHANGED gds

\* toggleReplayActive also resets the query time.
Toggled(p) == [p EXCEPT !.replayActive = ~@, !.replayQueryTime = 0]

\* The constructor of the refresh dropdown, which is not there during a replay:
\* the interval of the URL u, if it has one, goes to the store.
RefreshShown(p, u) ==
  LET i == IF u = "none" THEN p.refreshInterval ELSE u
  IN  [p EXCEPT !.refreshInterval = i, !.urlRefresh = i]

\* The replay of a page that shows none.
NoReplay ==
  [status |-> "initialized", frame |-> 0, start |-> CHOOSE s \in Starts : TRUE,
   interval |-> DefaultReplayInterval, custom |-> FALSE, timer |-> FALSE]

\* The constructor of Replay: length and start time of the URL, or defaults.
NewReplay(s, n, c) == [NoReplay EXCEPT !.start = s, !.interval = n, !.custom = c]

\* componentDidMount, after the constructors of the toolbar and its children
\* took over what the URL says: the settings, maybe a replay (of start s and
\* length n, c: the start is in the URL) and the refresh interval.  The page has
\* the properties from before; they change, all at once, right after.  A timeout
\* makes the first fetch unless it is left to that update, because the graph
\* type (type) is among the changes, or the refresh is manual.
Mount(l, s, n, c) ==
  LET set == Set(props, l.settings)
      new == IF l.replay THEN [Toggled(set) EXCEPT !.urlRefresh = l.refresh]
                         ELSE RefreshShown(set, l.refresh)
  IN
  /\ mounted = "new"
  /\ mounted' = "yes"
  /\ pending' = /\ ~(l.type /\ new.view # props.view)
                /\ "manual" \notin {props.refreshInterval, new.urlRefresh}
  /\ replay' = IF l.replay THEN NewReplay(s, n, c) ELSE NoReplay
  /\ UNCHANGED <<changes, ticks>>
  /\ Update(new, FALSE)

\* The timeout of componentDidMount; it is not cleared when the page goes.
InitialLoad ==
  /\ pending
  /\ pending' = FALSE
  /\ UNCHANGED <<props, mounted, replay, changes, ticks>>
  /\ FetchGraphData(FetchParams(props), 1)

\* The user changes something.
ByUser ==
  /\ mounted = "yes" /\ changes < MaxChanges
  /\ changes' = changes + 1
  /\ UNCHANGED <<mounted, pending, ticks>>

\* A control of the toolbar; the reset button sets all of its settings.
ChangeSettings(c) ==
  /\ ByUser
  /\ Set(props, c) # props
  /\ Update(Set(props, c), FALSE)
  /\ UNCHANGED replay

\* The refresh dropdown is not shown during a replay.
SetRefreshInterval(i) ==
  /\ ByUser
  /\ ~props.replayActive /\ i # props.refreshInterval
  /\ Update([props EXCEPT !.refreshInterval = i, !.urlRefresh = i], FALSE)
  /\ UNCHANGED replay

\* The button of EmptyGraphLayout.
EmptyGraphAction ==
  /\ ByUser
  /\ page.elements = EmptyGraph /\ ~page.isLoading /\ props.view # 0
  /\ FetchGraphData(FetchParams(props), 1)
  /\ UNCHANGED <<props, replay>>

\* lastRefreshAt changes: the refresh timer, or a click on the refresh button,
\* which is not shown during a replay.
Refresh ==
  /\ mounted = "yes" /\ ticks < MaxTicks
  /\ props.replayActive => props.refreshInterval = "running"
  /\ ticks' = ticks + 1
  /\ UNCHANGED <<mounted, pending, replay, changes>>
  /\ Update(props, TRUE)

\* componentWillUnmount of the page, its toolbar and the replay.
Unmount ==
  /\ mounted = "yes"
  /\ mounted' = "gone"
  /\ props' = IF props.replayActive THEN Toggled(props) ELSE props
  /\ replay' = NoReplay
  /\ live' = NoRequest
  /\ cancelled' = cancelled + (IF live = NoRequest THEN 0 ELSE 1)
  /\ UNCHANGED <<ds, page, pending, changes, ticks>>

---------------------------------------------------------------------------
(* Replay                                                                  *)

FrameInterval == 2     \* time in units of half a frame

\* getFrameCount: the number of the last frame.
FrameCount(r) == r.interval \div FrameInterval

FrameToQueryTime(r) == r.start + r.frame * FrameInterval

RefresherUnlessPlaying(r) == IF r.status = "playing" THEN r.interval # 0 ELSE replay.timer

\* updateRefresher, called when the status changed.
Refresher(r) ==
  IF r.status # replay.status THEN r.status = "playing" /\ r.interval # 0 ELSE replay.timer

QueryTimeOnPlay(r) ==
  IF r.status # "playing" THEN props.replayQueryTime ELSE FrameToQueryTime(r)

\* The query time componentDidUpdate leaves in the store.
QueryTime(r) ==
  IF r.status = "initialized" THEN props.replayQueryTime ELSE FrameToQueryTime(r)

\* componentDidUpdate of Replay after its state became r, and of GraphPage.
ReplayUpdate(r) ==
  /\ replay' = [r EXCEPT !.timer = Refresher(r)]
  /\ Update([props EXCEPT !.replayQueryTime = QueryTime(r)], FALSE)

OpenReplay(s, n, c) ==
  /\ ByUser
  /\ ~props.replayActive
  /\ replay' = NewReplay(s, n, c)
  /\ Update(Toggled(props), FALSE)

\* With the replay gone the refresh dropdown is constructed again, and what the
\* URL says of the interval makes a second update.
CloseReplay ==
  LET closed == Toggled(props)
      final == RefreshShown(closed, closed.urlRefresh)
      n == (IF Triggers(props, closed, FALSE) THEN 1 ELSE 0)
             + (IF Triggers(closed, final, FALSE) THEN 1 ELSE 0)
  IN
  /\ ByUser
  /\ props.replayActive
  /\ replay' = NoReplay
  /\ props' = final
  /\ IF n > 0 THEN FetchGraphData(FetchParams(final), n) ELSE UNCHANGED gds

Replaying == ByUser /\ props.replayActive

\* play starts again at the first frame when the last one was shown.
PlayState ==
  [replay EXCEPT !.status = "playing", !.frame = IF @ >= FrameCount(replay) THEN 0 ELSE @]

Play == Replaying /\ replay.status # "playing" /\ ReplayUpdate(PlayState)

Pause == Replaying /\ replay.status = "playing" /\ ReplayUpdate([replay EXCEPT !.status = "paused"])

\* setReplayFrame: the user moves the slider.
SetReplayFrame(f) ==
  /\ Replaying
  /\ f \in 0..FrameCount(replay) /\ f # replay.frame
  /\ ReplayUpdate([replay EXCEPT !.frame = f,
                     !.status = IF f = FrameCount(replay) THEN "done"
                                ELSE IF @ = "initialized" THEN @ ELSE "paused"])

\* setReplayInterval, to one of the dropdown's lengths, and
\* toggleCustomStartTime: componentDidUpdate calls initReplay, which takes a new
\* start time unless it is the user's, and the default for a length of zero.
InitReplay(s, n, c) ==
  /\ Replaying
  /\ \/ c = replay.custom /\ n # replay.interval /\ n >= FrameInterval
     \/ /\ c # replay.custom
        /\ n = IF replay.interval = 0 THEN DefaultReplayInterval ELSE replay.interval
  /\ c => s = replay.start
  /\ ReplayUpdate([replay EXCEPT !.status = "initialized", !.frame = 0, !.start = s,
                     !.interval = n, !.custom = c])

\* onPickerChange: a custom start time.
SetReplayStartTime(s) ==
  /\ Replaying
  /\ replay.custom /\ s # replay.start
  /\ ReplayUpdate([replay EXCEPT !.frame = 0, !.start = s])

NextFrameAround(r) == [r EXCEPT !.frame = IF @ + 1 > FrameCount(r) THEN 0 ELSE @ + 1]

\* handleRefresh: one frame further, or done.
NextFrame(r) ==
  IF r.frame + 1 > FrameCount(r) THEN [r EXCEPT !.status = "done"] ELSE [r EXCEPT !.frame = @ + 1]

\* The timer of the replay.
HandleRefresh ==
  /\ mounted = "yes" /\ replay.timer
  /\ UNCHANGED <<mounted, pending, changes, ticks>>
  /\ ReplayUpdate(NextFrame(replay))

---------------------------------------------------------------------------
Init ==
  /\ \E p \in Stored, i \in RefreshIntervals :
       props = [view |-> p.view, detail |-> p.detail, edgeLabels |-> p.edgeLabels,
                findValue |-> p.findValue, hideValue |-> p.hideValue,
                refreshInterval |-> i, urlRefresh |-> "none",
                replayActive |-> FALSE, replayQueryTime |-> 0]
  /\ ds = [params |-> NoParams, elements |-> EmptyGraph, isLoading |-> FALSE, isError |-> FALSE]
  /\ live = NoRequest /\ cancelled = 0
  /\ page = ds
  /\ mounted = "new" /\ pending = FALSE
  /\ replay = NoReplay
  /\ changes = 0 /\ ticks = 0

ReplayNext ==
  \/ \E s \in Starts, n \in Intervals, c \in BOOLEAN : OpenReplay(s, n, c) \/ InitReplay(s, n, c)
  \/ \E s \in Starts : SetReplayStartTime(s)
  \/ \E f \in 0..FrameCount(replay) : SetReplayFrame(f)
  \/ CloseReplay \/ Play \/ Pause \/ HandleRefresh

Next ==
  \/ \E l \in Links, s \in Starts, n \in Intervals, c \in BOOLEAN : Mount(l, s, n, c)
  \/ InitialLoad
  \/ \E c \in Controls : ChangeSettings(c)
  \/ \E i \in RefreshIntervals : SetRefreshInterval(i)
  \/ EmptyGraphAction \/ Refresh \/ Unmount
  \/ \E o \in {"graph", "nothing", "error"} : Answered(o)
  \/ CancelledAnswered
  \/ ReplayNext

\* Every request is answered or fails, and timers that are set fire.
Fairness ==
  /\ WF_vars(\E o \in {"graph", "nothing", "error"} : Answered(o))
  /\ WF_vars(InitialLoad)
  /\ WF_vars(HandleRefresh)

Spec == Init /\ [][Next]_vars /\ Fairness
---------------------------------------------------------------------------
\* The graph on the screen is the one of the parameters shown with it, whatever
\* the order in which answers of earlier and of cancelled requests come.
\* (Without a namespace EmptyGraphLayout shows no graph, so a late answer, which
\* fetchGraphData does not cancel then, is not seen.)
ShownGraphMatchesParams ==
  ~page.isLoading /\ page.elements # EmptyGraph /\ page.params.view # 0 =>
    page.elements = page.params

\* While a new graph is awaited the old one stays only when it shows the same
\* nodes: same namespaces, node, graph type and the other settings of the view.
OldGraphOfSameView ==
  page.isLoading /\ page.elements # EmptyGraph => page.elements.view = page.params.view

\* Manual mode, by the store or by the URL.
Manual == "manual" \in {props.refreshInterval, props.urlRefresh}

\* Unless the refresh is manual, the graph shown or awaited was asked for with
\* what the toolbar says now, whatever was changed, opened or closed in
\* between, in manual mode too: the settings and the query time, the edge labels
\* if they need response times or throughput of the server, and the labels if
\* find or hide needs them.  (A change to other edge labels or another search
\* does not ask, and the graph may have more than they need.)
SettingsReachGraph ==
  mounted = "yes" /\ ~pending /\ ~Manual =>
    LET asked == FetchParams(props) IN
    /\ page.params.view = asked.view /\ page.params.detail = asked.detail
    /\ page.params.queryTime = asked.queryTime
    /\ props.edgeLabels \in Appended => page.params.edgeLabels = asked.edgeLabels
    /\ asked.includeLabels => page.params.includeLabels

\* During a replay the graph of a page at rest is the one of the frame at which
\* the slider stands.
FrameShown ==
  /\ mounted = "yes" /\ props.replayActive /\ replay.status # "initialized"
  /\ ~Manual /\ ~pending /\ ~page.isLoading
  => page.params.queryTime = FrameToQueryTime(replay)

\* The replay has a timer exactly while it plays, and none after the page is
\* gone; the frame stays within the replay.  The exception is a replay of length
\* zero, which only a URL can ask for: updateRefresher gives it no timer.
TimerIffPlaying ==
  /\ replay.timer <=> replay.status = "playing" /\ replay.interval # 0
  /\ mounted = "gone" => ~replay.timer
  /\ replay.frame <= FrameCount(replay)

\* A page that is gone is not changed by answers, timers or the first load.
GoneUntouched == [][mounted = "gone" => page' = page]_vars

\* A page that loads comes to rest.
LoadingEnds == page.isLoading /\ mounted = "yes" ~> ~page.isLoading \/ mounted = "gone"

\* A replay that plays comes to its end, or the user stops it, also one that is
\* shorter than a frame.  A replay of length zero plays until the user stops it.
PlayingEnds ==
  replay.status = "playing" /\ replay.interval # 0 ~> replay.status # "playing"
=============================================================================
