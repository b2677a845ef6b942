-------------------------- MODULE GraphPageProofs --------------------------
(***************************************************************************)
(* The invariants of the graph page, for any settings and any number of    *)
(* changes, refreshes and requests.                                        *)
(*                                                                         *)
(* Three invariants carry them.  Sourced: the page follows its data source *)
(* and the request that counts is for the parameters of the last fetch,    *)
(* unless that fetch was for no namespace.  Reached: the last fetch was    *)
(* for what the toolbar needs, also while it is under way.  Replayed: the  *)
(* query time in the store is the one of the replay's frame, the replay's  *)
(* timer follows its status, and without a replay store and URL have the   *)
(* same refresh interval.                                                  *)
(***************************************************************************)
EXTENDS GraphPage, TLAPS

DataFields == {"params", "elements", "isLoading", "isError"}
SettingFields ==
  GraphSettings \cup {"refreshInterval", "urlRefresh", "replayActive", "replayQueryTime"}
ReplayFields == {"status", "frame", "start", "interval", "custom", "timer"}

Sourced ==
  /\ DOMAIN ds = DataFields /\ page.isLoading \in BOOLEAN
  /\ mounted \in {"new", "yes", "gone"}
  /\ mounted # "gone" => page.params = ds.params
  /\ live # NoRequest /\ ds.params.view # 0 => live = ds.params
  /\ ShownGraphMatchesParams /\ OldGraphOfSameView

\* A fetch with the parameters d has what the settings p need.
Serves(d, p) ==
  /\ d.view = p.view /\ d.detail = p.detail /\ d.queryTime = p.replayQueryTime
  /\ p.edgeLabels \in Appended => d.edgeLabels = {p.edgeLabels}
  /\ p.findValue \in LabelSearches \/ p.hideValue \in LabelSearches => d.includeLabels

ManualIn(p) == p.refreshInterval = "manual" \/ p.urlRefresh = "manual"

Reached == mounted = "yes" /\ ~pending /\ ~ManualIn(props) => Serves(ds.params, props)

\* A state of the replay, its timer aside.
Player(r) ==
  /\ DOMAIN r = ReplayFields
  /\ r.frame \in Nat /\ r.interval \in Nat /\ r.start \in Nat /\ r.frame <= FrameCount(r)

Replayed ==
  /\ Player(replay) /\ TimerIffPlaying /\ DOMAIN props = SettingFields
  /\ replay.timer \in BOOLEAN
  /\ props.replayActive /\ replay.status # "initialized"
       => props.replayQueryTime = FrameToQueryTime(replay)
  /\ mounted = "yes" /\ ~props.replayActive => props.urlRefresh = props.refreshInterval
  /\ mounted = "new" => ~pending /\ props.replayActive = FALSE

PageInv == Sourced /\ Reached /\ Replayed

-----------------------------------------------------------------------------
LEMMA ServedByOwn ==
  ASSUME NEW p
  PROVE  Serves(FetchParams(p), p)
BY DEF Serves, FetchParams

LEMMA FrameCountNat ==
  ASSUME NEW r, r.interval \in Nat
  PROVE  FrameCount(r) \in Nat
BY DEF FrameCount, FrameInterval

\* A fetch, from a page that is there or gone.
LEMMA FetchKeeps ==
  ASSUME Sourced, NEW p, NEW n, FetchGraphData(p, n), mounted' \in {"yes", "gone"},
         mounted' = "yes" => mounted # "gone"
  PROVE  Sourced' /\ ds'.params = p
<1>1. CASE p.view = 0
  <2>1. FetchEmpty(p)
    BY <1>1 DEF FetchGraphData
  <2>2. /\ ds'.params = p /\ DOMAIN ds' = DataFields /\ live' = live
        /\ page' = IF mounted' = "yes" THEN PageEmpty(p) ELSE page
    BY <2>1 DEF FetchEmpty, Emit, DataFields
  <2>3. CASE mounted' = "yes"
    BY <1>1, <2>2, <2>3
       DEF Sourced, PageEmpty, ShownGraphMatchesParams, OldGraphOfSameView
  <2>4. CASE mounted' # "yes"
    BY <1>1, <2>2, <2>4 DEF Sourced, ShownGraphMatchesParams, OldGraphOfSameView
  <2>. QED BY <2>3, <2>4
<1>2. CASE p.view # 0
  <2>1. FetchRegistered(p, n)
    BY <1>2 DEF FetchGraphData
  <2>2. /\ ds'.params = p /\ DOMAIN ds' = DataFields /\ live' = p
        /\ page' = IF mounted' = "yes" THEN PageStart(p) ELSE page
    BY <2>1 DEF FetchRegistered, Emit, DataFields
  <2>3. CASE mounted' = "yes"
    <3>1. /\ page'.params = p /\ page'.isLoading = TRUE
          /\ page'.elements = IF ds.params.view # p.view THEN EmptyGraph ELSE page.elements
      BY <2>2, <2>3 DEF PageStart, IsPreviousDataInvalid
    <3>2. page.params = ds.params
      BY <2>3 DEF Sourced
    <3>3. OldGraphOfSameView'
      BY <1>2, <3>1, <3>2 DEF Sourced, ShownGraphMatchesParams, OldGraphOfSameView
    <3>. QED BY <2>2, <3>1, <3>3 DEF Sourced, ShownGraphMatchesParams
  <2>4. CASE mounted' # "yes"
    BY <2>2, <2>4 DEF Sourced, ShownGraphMatchesParams, OldGraphOfSameView
  <2>. QED BY <2>3, <2>4
<1>. QED BY <1>1, <1>2

\* New settings, or a refresh: the page fetches what they need, or nothing.
LEMMA UpdateFetches ==
  ASSUME Sourced, NEW new, NEW tick, Update(new, tick), mounted # "gone", mounted' = "yes"
  PROVE  /\ Sourced' /\ props' = new
         /\ IF Triggers(props, new, tick) THEN Serves(ds'.params, new) ELSE ds' = ds
<1>1. CASE Triggers(props, new, tick)
  <2>1. FetchGraphData(FetchParams(new), 1) /\ props' = new
    BY <1>1 DEF Update
  <2>2. Sourced' /\ ds'.params = FetchParams(new)
    BY <2>1, FetchKeeps
  <2>. QED BY <1>1, <2>1, <2>2, ServedByOwn
<1>2. CASE ~Triggers(props, new, tick)
  <2>1. props' = new /\ UNCHANGED gds
    BY <1>2 DEF Update
  <2>2. Sourced'
    BY <2>1 DEF gds, Sourced, ShownGraphMatchesParams, OldGraphOfSameView
  <2>. QED BY <1>2, <2>1, <2>2 DEF gds
<1>. QED BY <1>1, <1>2

\* No fetch is needed where there is none: a page that is not manual any more
\* was manual by the store.
LEMMA UpdateKeeps ==
  ASSUME Sourced, Reached, NEW new, NEW tick, Update(new, tick), mounted = "yes",
         UNCHANGED <<mounted, pending>>,
         \/ new.refreshInterval = props.refreshInterval /\ new.urlRefresh = props.urlRefresh
         \/ props.refreshInterval = props.urlRefresh
  PROVE  Sourced' /\ Reached' /\ props' = new
<1>1. /\ Sourced' /\ props' = new
      /\ IF Triggers(props, new, tick) THEN Serves(ds'.params, new) ELSE ds' = ds
  BY UpdateFetches
<1>2. CASE Triggers(props, new, tick)
  BY <1>1, <1>2 DEF Reached
<1>3. CASE ~Triggers(props, new, tick)
  <2>1. ~ManualIn(new)
          => /\ new.view = props.view /\ new.detail = props.detail
             /\ new.replayQueryTime = props.replayQueryTime
             /\ new.edgeLabels \in Appended => new.edgeLabels = props.edgeLabels
             /\ new.findValue \in LabelSearches => new.findValue = props.findValue
             /\ new.hideValue \in LabelSearches => new.hideValue = props.hideValue
             /\ ~ManualIn(props)
    BY <1>3 DEF Triggers, ManualRefresh, ManualIn
  <2>. QED BY <1>1, <1>3, <2>1 DEF Reached, Serves
<1>. QED BY <1>1, <1>2, <1>3

\* The replay becomes r and the store follows it.
LEMMA ReplayUpdateKeeps ==
  ASSUME PageInv, NEW r, Player(r), ReplayUpdate(r), mounted = "yes",
         UNCHANGED <<mounted, pending>>,
         r.status = replay.status => r.interval = replay.interval \/ r.status # "playing"
  PROVE  PageInv'
<1>. DEFINE new == [props EXCEPT !.replayQueryTime = QueryTime(r)]
            on == Refresher(r)
<1>1. Update(new, FALSE) /\ replay' = [r EXCEPT !.timer = on]
  BY DEF ReplayUpdate
<1>2. /\ DOMAIN new = SettingFields
      /\ new.replayQueryTime = QueryTime(r) /\ new.replayActive = props.replayActive
      /\ new.refreshInterval = props.refreshInterval /\ new.urlRefresh = props.urlRefresh
  BY DEF PageInv, Replayed, SettingFields, GraphSettings
<1>. HIDE DEF new
<1>3. Sourced' /\ Reached' /\ props' = new
  BY <1>1, <1>2, UpdateKeeps DEF PageInv
<1>4. on <=> r.status = "playing" /\ r.interval # 0
  BY DEF Refresher, PageInv, Replayed, TimerIffPlaying
<1>5. on \in BOOLEAN
  BY DEF Refresher, PageInv, Replayed
<1>. HIDE DEF on
<1>6. /\ DOMAIN replay' = ReplayFields /\ replay'.timer = on /\ replay'.status = r.status
      /\ replay'.frame = r.frame /\ replay'.interval = r.interval /\ replay'.start = r.start
  BY <1>1 DEF Player, ReplayFields
<1>7. /\ FrameCount(replay') = FrameCount(r)
      /\ FrameToQueryTime(replay') = FrameToQueryTime(r)
  BY <1>6 DEF FrameCount, FrameToQueryTime
<1>8. Player(replay)' /\ TimerIffPlaying'
  BY <1>4, <1>5, <1>6, <1>7 DEF Player, TimerIffPlaying
<1>9. props'.replayActive /\ replay'.status # "initialized"
        => props'.replayQueryTime = FrameToQueryTime(replay)'
  BY <1>2, <1>3, <1>6, <1>7 DEF QueryTime
<1>. QED BY <1>2, <1>3, <1>5, <1>6, <1>8, <1>9 DEF PageInv, Replayed

LEMMA NoReplayPlayer ==
  /\ Player(NoReplay) /\ NoReplay.status = "initialized" /\ NoReplay.timer = FALSE
  /\ NoReplay.custom = FALSE
<1>. DEFINE s == CHOOSE t \in Starts : TRUE
<1>1. s \in Nat /\ DefaultReplayInterval \in Nat
  BY GraphPageAssumption
<1>2. NoReplay = [status |-> "initialized", frame |-> 0, start |-> s,
                  interval |-> DefaultReplayInterval, custom |-> FALSE, timer |-> FALSE]
  BY DEF NoReplay
<1>. HIDE DEF s
<1>3. FrameCount(NoReplay) \in Nat
  BY <1>1, <1>2, FrameCountNat
<1>. QED BY <1>1, <1>2, <1>3 DEF Player, ReplayFields

LEMMA NewReplayPlayer ==
  ASSUME NEW s \in Starts, NEW n \in Intervals, NEW c
  PROVE  LET r == NewReplay(s, n, c) IN
         Player(r) /\ r.status = "initialized" /\ r.timer = FALSE
<1>. DEFINE r == NewReplay(s, n, c)
<1>1. s \in Nat /\ n \in Nat
  BY GraphPageAssumption
<1>2. /\ DOMAIN r = ReplayFields /\ r.frame = 0 /\ r.start = s /\ r.interval = n
      /\ r.status = "initialized" /\ r.timer = FALSE
  BY DEF NewReplay, NoReplay, ReplayFields
<1>. HIDE DEF r
<1>3. FrameCount(r) \in Nat
  BY <1>1, <1>2, FrameCountNat
<1>4. Player(r)
  BY <1>1, <1>2, <1>3 DEF Player
<1>. QED BY <1>2, <1>4 DEF r

\* Changes of the settings that do not concern the replay.
LEMMA SettingsKeep ==
  ASSUME PageInv, NEW new, NEW tick, Update(new, tick), mounted = "yes",
         UNCHANGED <<mounted, pending, replay>>, DOMAIN new = SettingFields,
         new.replayActive = props.replayActive, new.replayQueryTime = props.replayQueryTime,
         \/ new.refreshInterval = props.refreshInterval /\ new.urlRefresh = props.urlRefresh
         \/ ~props.replayActive /\ new.refreshInterval = new.urlRefresh
  PROVE  PageInv'
<1>1. Sourced' /\ Reached' /\ props' = new
  BY UpdateKeeps DEF PageInv, Replayed
<1>2. Replayed'
  BY <1>1 DEF PageInv, Replayed, TimerIffPlaying, FrameToQueryTime, FrameCount
<1>. QED BY <1>1, <1>2 DEF PageInv

-----------------------------------------------------------------------------
LEMMA PageStarts == Init => PageInv
<1>. SUFFICES ASSUME Init PROVE PageInv
  OBVIOUS
<1>1. Sourced /\ Reached
  BY DEF Init, Sourced, Reached, DataFields, ShownGraphMatchesParams, OldGraphOfSameView
<1>2. DOMAIN props = SettingFields /\ props.replayActive = FALSE
  BY DEF Init, SettingFields, GraphSettings
<1>3. Player(replay) /\ replay.status = "initialized" /\ replay.timer = FALSE
  BY NoReplayPlayer DEF Init
<1>. QED BY <1>1, <1>2, <1>3 DEF Init, PageInv, Replayed, TimerIffPlaying, Player

LEMMA PageStep ==
  ASSUME PageInv, [Next]_vars
  PROVE  PageInv'
<1>. USE DEF PageInv
<1>1. ASSUME NEW l \in Links, NEW s \in Starts, NEW n \in Intervals, NEW c \in BOOLEAN,
             Mount(l, s, n, c)
      PROVE  PageInv'
  <2>. DEFINE set == Set(props, l.settings)
              new == IF l.replay THEN [Toggled(set) EXCEPT !.urlRefresh = l.refresh]
                                 ELSE RefreshShown(set, l.refresh)
  <2>1. /\ mounted = "new" /\ mounted' = "yes" /\ Update(new, FALSE)
        /\ replay' = IF l.replay THEN NewReplay(s, n, c) ELSE NoReplay
        /\ pending' = /\ ~(l.type /\ new.view # props.view)
                      /\ "manual" \notin {props.refreshInterval, new.urlRefresh}
    BY <1>1 DEF Mount
  <2>2. /\ DOMAIN set = SettingFields /\ set.replayActive = FALSE
        /\ set.refreshInterval = props.refreshInterval
    BY <2>1, GraphPageAssumption DEF Set, Replayed, SettingFields, GraphSettings
  <2>. HIDE DEF set
  <2>3. /\ DOMAIN new = SettingFields
        /\ ~new.replayActive => new.urlRefresh = new.refreshInterval
    BY <2>2 DEF Toggled, RefreshShown, SettingFields
  <2>. HIDE DEF new
  <2>4. /\ Sourced' /\ props' = new
        /\ IF Triggers(props, new, FALSE) THEN Serves(ds'.params, new) ELSE ds' = ds
    BY <2>1, UpdateFetches
  <2>5. ~pending' /\ ~ManualIn(new) => Triggers(props, new, FALSE)
    BY <2>1 DEF Triggers, ManualRefresh, ManualIn
  <2>6. Reached'
    BY <2>4, <2>5 DEF Reached
  <2>7. Player(replay') /\ replay'.status = "initialized" /\ replay'.timer = FALSE
    BY <2>1, NoReplayPlayer, NewReplayPlayer
  <2>8. Replayed'
    BY <2>1, <2>3, <2>4, <2>7 DEF Replayed, TimerIffPlaying, Player
  <2>. QED BY <2>4, <2>6, <2>8
<1>2. CASE InitialLoad
  <2>1. FetchGraphData(FetchParams(props), 1) /\ UNCHANGED <<props, mounted, replay>>
    BY <1>2 DEF InitialLoad
  <2>2. CASE mounted = "new"
    <3>1. FALSE
      BY <1>2, <2>2 DEF InitialLoad, Replayed
    <3>. QED BY <3>1
  <2>3. CASE mounted # "new"
    <3>1. mounted' \in {"yes", "gone"} /\ (mounted' = "yes" => mounted # "gone")
      BY <2>1, <2>3 DEF Sourced
    <3>2. Sourced' /\ Serves(ds'.params, props)
      BY <2>1, <3>1, FetchKeeps, ServedByOwn
    <3>. QED BY <2>1, <2>3, <3>2 DEF Reached, Replayed, TimerIffPlaying, FrameToQueryTime,
                                     FrameCount
  <2>. QED BY <2>2, <2>3
<1>3. ASSUME NEW c \in Controls, ChangeSettings(c) PROVE PageInv'
  <2>. DEFINE new == Set(props, c)
  <2>1. /\ DOMAIN new = SettingFields /\ new.replayActive = props.replayActive
        /\ new.replayQueryTime = props.replayQueryTime
        /\ new.refreshInterval = props.refreshInterval /\ new.urlRefresh = props.urlRefresh
    BY GraphPageAssumption DEF Set, Replayed, SettingFields, GraphSettings
  <2>2. Update(new, FALSE) /\ mounted = "yes" /\ UNCHANGED <<mounted, pending, replay>>
    BY <1>3 DEF ChangeSettings, ByUser
  <2>. HIDE DEF new, PageInv
  <2>. QED BY <2>1, <2>2, SettingsKeep
<1>4. ASSUME NEW i, SetRefreshInterval(i) PROVE PageInv'
  <2>. DEFINE new == [props EXCEPT !.refreshInterval = i, !.urlRefresh = i]
  <2>1. /\ DOMAIN new = SettingFields /\ new.replayActive = props.replayActive
        /\ new.replayQueryTime = props.replayQueryTime
        /\ new.refreshInterval = new.urlRefresh
    BY DEF Replayed, SettingFields, GraphSettings
  <2>2. /\ Update(new, FALSE) /\ mounted = "yes" /\ UNCHANGED <<mounted, pending, replay>>
        /\ ~props.replayActive
    BY <1>4 DEF SetRefreshInterval, ByUser
  <2>. HIDE DEF new, PageInv
  <2>. QED BY <2>1, <2>2, SettingsKeep
<1>5. CASE EmptyGraphAction
  <2>1. /\ FetchGraphData(FetchParams(props), 1) /\ mounted = "yes"
        /\ UNCHANGED <<props, mounted, pending, replay>>
    BY <1>5 DEF EmptyGraphAction, ByUser
  <2>2. Sourced' /\ Serves(ds'.params, props)
    BY <2>1, FetchKeeps, ServedByOwn
  <2>. QED BY <2>1, <2>2 DEF Reached, Replayed, TimerIffPlaying, FrameToQueryTime, FrameCount
<1>6. CASE Refresh
  <2>1. Update(props, TRUE) /\ mounted = "yes" /\ UNCHANGED <<mounted, pending, replay>>
    BY <1>6 DEF Refresh
  <2>2. DOMAIN props = SettingFields
    BY DEF Replayed
  <2>. HIDE DEF PageInv
  <2>. QED BY <2>1, <2>2, SettingsKeep
<1>7. CASE Unmount
  <2>1. /\ mounted' = "gone" /\ replay' = NoReplay /\ live' = NoRequest
        /\ UNCHANGED <<ds, page>>
        /\ props' = IF props.replayActive THEN Toggled(props) ELSE props
    BY <1>7 DEF Unmount
  <2>2. Sourced' /\ Reached'
    BY <2>1 DEF Sourced, Reached, ShownGraphMatchesParams, OldGraphOfSameView
  <2>3. DOMAIN props' = SettingFields
    BY <2>1 DEF Toggled, Replayed, SettingFields, GraphSettings
  <2>4. Replayed'
    BY <2>1, <2>3, NoReplayPlayer DEF Replayed, TimerIffPlaying, Player
  <2>. QED BY <2>2, <2>4
<1>8. ASSUME NEW o \in {"graph", "nothing", "error"}, Answered(o) PROVE PageInv'
  <2>. DEFINE elements == IF o = "graph" THEN live ELSE EmptyGraph
  <2>1. /\ live # NoRequest /\ live' = NoRequest
        /\ UNCHANGED <<props, mounted, pending, replay>>
    BY <1>8 DEF Answered
  <2>2. DOMAIN ds' = DataFields /\ ds'.params = ds.params
    BY <1>8 DEF Answered, Sourced, DataFields
  <2>3. \/ page' = IF mounted = "yes" THEN PageSuccess(elements) ELSE page
        \/ page' = IF mounted = "yes" THEN PageError ELSE page
    BY <1>8 DEF Answered, Emit
  <2>4. elements # EmptyGraph /\ ds.params.view # 0 => elements = ds.params
    BY <2>1 DEF Sourced, NoRequest, EmptyGraph
  <2>. HIDE DEF elements
  <2>5. Sourced'
    <3>1. CASE page' = page
      BY <2>1, <2>2, <3>1 DEF Sourced, ShownGraphMatchesParams, OldGraphOfSameView
    <3>2. CASE page' = PageSuccess(elements)
      BY <2>1, <2>2, <2>4, <3>2
         DEF PageSuccess, Sourced, ShownGraphMatchesParams, OldGraphOfSameView
    <3>3. CASE page' = PageError
      BY <2>1, <2>2, <3>3
         DEF PageError, Sourced, ShownGraphMatchesParams, OldGraphOfSameView
    <3>. QED BY <2>3, <3>1, <3>2, <3>3
  <2>. QED BY <2>1, <2>2, <2>5 DEF Reached, Replayed, TimerIffPlaying, FrameToQueryTime, FrameCount
<1>9. CASE CancelledAnswered
  <2>1. /\ ds' = [ds EXCEPT !.isLoading = FALSE]
        /\ UNCHANGED <<props, live, page, mounted, pending, replay>>
    BY <1>9 DEF CancelledAnswered
  <2>2. DOMAIN ds' = DataFields /\ ds'.params = ds.params
    BY <2>1 DEF Sourced, DataFields
  <2>. QED BY <2>1, <2>2 DEF Sourced, Reached, Replayed, TimerIffPlaying, FrameToQueryTime,
                             FrameCount, ShownGraphMatchesParams, OldGraphOfSameView
<1>10. CASE UNCHANGED vars
  BY <1>10 DEF vars, Sourced, Reached, Replayed, TimerIffPlaying, FrameToQueryTime,
               FrameCount, ShownGraphMatchesParams, OldGraphOfSameView
<1>11. ASSUME NEW s \in Starts, NEW n \in Intervals, NEW c \in BOOLEAN, OpenReplay(s, n, c)
       PROVE  PageInv'
  <2>. DEFINE new == Toggled(props)
  <2>1. /\ Update(new, FALSE) /\ mounted = "yes" /\ UNCHANGED <<mounted, pending>>
        /\ replay' = NewReplay(s, n, c) /\ ~props.replayActive
    BY <1>11 DEF OpenReplay, ByUser
  <2>2. /\ DOMAIN new = SettingFields /\ new.replayActive = ~props.replayActive
        /\ new.refreshInterval = props.refreshInterval /\ new.urlRefresh = props.urlRefresh
    BY DEF Toggled, Replayed, SettingFields, GraphSettings
  <2>. HIDE DEF new
  <2>3. Sourced' /\ Reached' /\ props' = new
    BY <2>1, <2>2, UpdateKeeps
  <2>4. Player(replay') /\ replay'.status = "initialized" /\ replay'.timer = FALSE
    BY <2>1, NewReplayPlayer
  <2>. QED BY <2>1, <2>2, <2>3, <2>4 DEF Replayed, TimerIffPlaying, Player
<1>12. ASSUME NEW s \in Starts, NEW n \in Intervals, NEW c \in BOOLEAN, InitReplay(s, n, c)
       PROVE  PageInv'
  <2>. DEFINE r == [replay EXCEPT !.status = "initialized", !.frame = 0, !.start = s,
                      !.interval = n, !.custom = c]
  <2>1. ReplayUpdate(r) /\ mounted = "yes" /\ UNCHANGED <<mounted, pending>>
    BY <1>12 DEF InitReplay, Replaying, ByUser
  <2>2. s \in Nat /\ n \in Nat
    BY GraphPageAssumption
  <2>3. /\ DOMAIN r = ReplayFields /\ r.status = "initialized"
        /\ r.frame = 0 /\ r.start = s /\ r.interval = n
    BY DEF Replayed, Player, ReplayFields
  <2>. HIDE DEF r, PageInv
  <2>4. Player(r)
    BY <2>2, <2>3, FrameCountNat DEF Player
  <2>. QED BY <2>1, <2>3, <2>4, ReplayUpdateKeeps
<1>13. ASSUME NEW s \in Starts, SetReplayStartTime(s) PROVE PageInv'
  <2>. DEFINE r == [replay EXCEPT !.frame = 0, !.start = s]
  <2>1. ReplayUpdate(r) /\ mounted = "yes" /\ UNCHANGED <<mounted, pending>>
    BY <1>13 DEF SetReplayStartTime, Replaying, ByUser
  <2>2. s \in Nat
    BY GraphPageAssumption
  <2>3. /\ DOMAIN r = ReplayFields /\ r.frame = 0 /\ r.start = s
        /\ r.interval = replay.interval /\ r.interval \in Nat
    BY DEF Replayed, Player, ReplayFields
  <2>. HIDE DEF r, PageInv
  <2>4. Player(r)
    BY <2>2, <2>3, FrameCountNat DEF Player
  <2>. QED BY <2>1, <2>3, <2>4, ReplayUpdateKeeps
<1>14. ASSUME NEW f, SetReplayFrame(f) PROVE PageInv'
  <2>. DEFINE r == [replay EXCEPT !.frame = f,
                      !.status = IF f = FrameCount(replay) THEN "done"
                                 ELSE IF @ = "initialized" THEN @ ELSE "paused"]
  <2>1. /\ ReplayUpdate(r) /\ mounted = "yes" /\ UNCHANGED <<mounted, pending>>
        /\ f \in 0..FrameCount(replay)
    BY <1>14 DEF SetReplayFrame, Replaying, ByUser
  <2>2. FrameCount(replay) \in Nat
    BY FrameCountNat DEF Replayed, Player
  <2>3. DOMAIN r = ReplayFields /\ r.frame = f /\ r.start = replay.start
        /\ r.interval = replay.interval
    BY DEF Replayed, Player, ReplayFields
  <2>4. Player(r)
    BY <2>1, <2>2, <2>3 DEF Replayed, Player, FrameCount
  <2>. HIDE DEF r, PageInv
  <2>. QED BY <2>1, <2>3, <2>4, ReplayUpdateKeeps
<1>15. CASE Play
  <2>1. ReplayUpdate(PlayState) /\ mounted = "yes" /\ UNCHANGED <<mounted, pending>>
    BY <1>15 DEF Play, Replaying, ByUser
  <2>2. FrameCount(replay) \in Nat
    BY FrameCountNat DEF Replayed, Player
  <2>3. /\ DOMAIN PlayState = ReplayFields /\ PlayState.start = replay.start
        /\ PlayState.frame \in {0, replay.frame} /\ PlayState.interval = replay.interval
    BY DEF PlayState, Replayed, Player, ReplayFields
  <2>4. Player(PlayState)
    BY <2>2, <2>3 DEF Replayed, Player, FrameCount
  <2>. HIDE DEF PageInv
  <2>. QED BY <2>1, <2>3, <2>4, ReplayUpdateKeeps
<1>16. CASE Pause
  <2>. DEFINE r == [replay EXCEPT !.status = "paused"]
  <2>1. ReplayUpdate(r) /\ mounted = "yes" /\ UNCHANGED <<mounted, pending>>
    BY <1>16 DEF Pause, Replaying, ByUser
  <2>2. Player(r) /\ r.interval = replay.interval
    BY DEF Replayed, Player, ReplayFields, FrameCount
  <2>. HIDE DEF r, PageInv
  <2>. QED BY <2>1, <2>2, ReplayUpdateKeeps
<1>17. CASE HandleRefresh
  <2>1. ReplayUpdate(NextFrame(replay)) /\ mounted = "yes" /\ UNCHANGED <<mounted, pending>>
    BY <1>17 DEF HandleRefresh
  <2>. DEFINE r == NextFrame(replay)
  <2>2. FrameCount(replay) \in Nat
    BY FrameCountNat DEF Replayed, Player
  <2>3. /\ DOMAIN r = ReplayFields /\ r.start = replay.start /\ r.interval = replay.interval
        /\ r.frame \in Nat /\ r.frame <= FrameCount(replay)
    BY <2>2 DEF NextFrame, Replayed, Player, ReplayFields
  <2>. HIDE DEF r
  <2>4. Player(r)
    BY <2>3 DEF Replayed, Player, FrameCount
  <2>. HIDE DEF PageInv
  <2>. QED BY <2>1, <2>3, <2>4, ReplayUpdateKeeps DEF r
<1>18. CASE CloseReplay
  <2>. DEFINE closed == Toggled(props)
              final == RefreshShown(closed, closed.urlRefresh)
              a == IF Triggers(props, closed, FALSE) THEN 1 ELSE 0
              b == IF Triggers(closed, final, FALSE) THEN 1 ELSE 0
              n == a + b
  <2>1. /\ mounted = "yes" /\ UNCHANGED <<mounted, pending>> /\ props.replayActive
        /\ replay' = NoReplay /\ props' = final
        /\ IF n > 0 THEN FetchGraphData(FetchParams(final), n) ELSE UNCHANGED gds
    BY <1>18 DEF CloseReplay, ByUser
  <2>2. /\ DOMAIN closed = SettingFields /\ closed.replayActive = ~props.replayActive
        /\ closed.refreshInterval = props.refreshInterval
        /\ closed.urlRefresh = props.urlRefresh
    BY DEF Toggled, Replayed, SettingFields, GraphSettings
  <2>. HIDE DEF closed
  <2>3. /\ DOMAIN final = SettingFields
        /\ final.refreshInterval = final.urlRefresh
        /\ closed.urlRefresh # "none" => final.urlRefresh = closed.urlRefresh
        /\ closed.urlRefresh = "none" => final.refreshInterval = closed.refreshInterval
    BY <2>2 DEF RefreshShown, SettingFields, GraphSettings
  <2>. HIDE DEF final
  \* The end of the replay asks, unless that update finds the page manual; then
  \* the URL makes it manual, or ends manual mode and asks.
  <2>4. ~ManualIn(final) => Triggers(props, closed, FALSE) \/ Triggers(closed, final, FALSE)
    BY <2>1, <2>2, <2>3 DEF Triggers, ManualRefresh, ManualIn
  <2>5. ~ManualIn(final) => n > 0
    <3>1. a \in {0, 1} /\ b \in {0, 1} /\ (~ManualIn(final) => a = 1 \/ b = 1)
      BY <2>4
    <3>. HIDE DEF a, b
    <3>. QED BY <3>1
  <2>. HIDE DEF a, b, n
  <2>6. Sourced' /\ (n > 0 => Serves(ds'.params, final))
    <3>1. CASE n > 0
      BY <2>1, <3>1, FetchKeeps, ServedByOwn
    <3>2. CASE ~(n > 0)
      BY <2>1, <3>2 DEF gds, Sourced, ShownGraphMatchesParams, OldGraphOfSameView
    <3>. QED BY <3>1, <3>2
  <2>7. Reached'
    BY <2>1, <2>5, <2>6 DEF Reached
  <2>8. Replayed'
    BY <2>1, <2>3, NoReplayPlayer DEF Replayed, TimerIffPlaying, Player
  <2>. QED BY <2>6, <2>7, <2>8
<1>. HIDE DEF PageInv
<1>. QED BY <1>1, <1>2, <1>3, <1>4, <1>5, <1>6, <1>7, <1>8, <1>9, <1>10, <1>11, <1>12,
           <1>13, <1>14, <1>15, <1>16, <1>17, <1>18 DEF Next, ReplayNext

LEMMA PageAlways == Spec => []PageInv
<1>1. PageInv /\ [Next]_vars => PageInv'
  BY PageStep
<1>. QED BY PageStarts, <1>1, PTL DEF Spec

-----------------------------------------------------------------------------
\* For any number of requests that overtake each other: the graph shown is the
\* one of the parameters shown with it.
THEOREM GraphOfParams == Spec => []ShownGraphMatchesParams
<1>1. PageInv => ShownGraphMatchesParams
  BY DEF PageInv, Sourced
<1>. QED BY PageAlways, <1>1, PTL

\* An old graph stays on the screen only while one of the same view loads.
THEOREM OldGraphStays == Spec => []OldGraphOfSameView
<1>1. PageInv => OldGraphOfSameView
  BY DEF PageInv, Sourced
<1>. QED BY PageAlways, <1>1, PTL

\* componentDidUpdate misses no change the server must know of, from any link and
\* store, through manual mode, replays and searches: unless the refresh is
\* manual, the last fetch had the settings, the query time, the edge labels with
\* response times or throughput and the labels that the toolbar needs.
THEOREM SettingsReach == Spec => []SettingsReachGraph
<1>1. PageInv => SettingsReachGraph
  BY DEF PageInv, Sourced, Reached, SettingsReachGraph, Manual, ManualIn, Serves, FetchParams
<1>. QED BY PageAlways, <1>1, PTL

\* The graph of a replay at rest is the one of the frame shown.
THEOREM FrameReaches == Spec => []FrameShown
<1>1. PageInv => FrameShown
  BY DEF PageInv, Sourced, Reached, Replayed, FrameShown, Manual, ManualIn, Serves
<1>. QED BY PageAlways, <1>1, PTL

\* updateRefresher leaves a timer exactly while the replay plays, a replay of
\* length zero aside.
THEOREM ReplayTimer == Spec => []TimerIffPlaying
<1>1. PageInv => TimerIffPlaying
  BY DEF PageInv, Replayed
<1>. QED BY PageAlways, <1>1, PTL

\* The handlers are disconnected from a page that is gone: neither the timeout
\* of componentDidMount, which is not cleared, nor a late answer changes it.
THEOREM GoneStays == Spec => GoneUntouched
<1>1. [Next]_vars => [mounted = "gone" => page' = page]_vars
  <2>. SUFFICES ASSUME Next, mounted = "gone" PROVE page' = page
    OBVIOUS
  <2>1. ASSUME NEW p, NEW n, FetchGraphData(p, n), mounted' = mounted PROVE page' = page
    BY <2>1 DEF FetchGraphData, FetchEmpty, FetchRegistered, Emit
  <2>2. CASE InitialLoad
    BY <2>1, <2>2 DEF InitialLoad
  <2>3. ASSUME NEW o \in {"graph", "nothing", "error"}, Answered(o) PROVE page' = page
    BY <2>3 DEF Answered, Emit
  <2>4. CASE CancelledAnswered
    BY <2>4 DEF CancelledAnswered
  <2>5. /\ ~ByUser /\ ~Refresh /\ ~Unmount /\ ~HandleRefresh
        /\ \A l, s, n, c : ~Mount(l, s, n, c)
    BY DEF ByUser, Refresh, Unmount, HandleRefresh, Mount
  <2>. QED BY <2>2, <2>3, <2>4, <2>5
       DEF Next, ReplayNext, ChangeSettings, SetRefreshInterval, EmptyGraphAction,
           OpenReplay, CloseReplay, InitReplay, SetReplayStartTime, SetReplayFrame, Play, Pause,
           Replaying
<1>. QED BY <1>1, PTL DEF Spec, GoneUntouched
=============================================================================
