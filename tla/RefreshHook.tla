---------------------------- MODULE RefreshHook ----------------------------
(***************************************************************************)
(* The refresh clock of the web console (frontend/src/hooks/refresh.ts):   *)
(* every component that calls useRefreshInterval listens for refreshTick   *)
(* events, and all of them share one timer through the module variables    *)
(* numSubscribers and intervalId.                                          *)
(*                                                                         *)
(* The two effects of the hook are passive: React 17 runs them after the   *)
(* commit, in a later task or before the next render, the cleanups of      *)
(* unmounted components first, then those of updated ones, then the new    *)
(* effects.  batch holds what the last commit left to run, and a timer or  *)
(* a click may come before it.                                             *)
(***************************************************************************)
EXTENDS Naturals, FiniteSets

CONSTANTS
  Components,   \* components that use the hook
  Intervals,    \* refresh intervals the user can pick
  MaxTicks      \* refreshTick events of a behaviour (bound)

RefreshIntervalPause == 0
RefreshIntervalManual == 1

ASSUME HookConstants ==
  /\ IsFiniteSet(Components) /\ MaxTicks \in Nat
  /\ Intervals \subseteq Nat
  /\ {RefreshIntervalPause, RefreshIntervalManual} \subseteq Intervals

VARIABLES
  refreshInterval,  \* redux: userSettings.refreshInterval
  mounted,          \* components in the tree
  comp,             \* their hook state
  listeners,        \* components listening for refreshTick
  numSubscribers,
  intervalId,       \* period of the timer that runs, 0: none
  batch,            \* passive effects to run
  clock             \* Date.now(), advanced by the events

hookVars == <<refreshInterval, mounted, comp, listeners, numSubscribers,
              intervalId, batch, clock>>

\* lastRefreshAt, and the state of useManualRefreshState: loaded, the initial
\* lastRefreshAt and prevRefreshInterval.
Comp == [last : 0..MaxTicks, initial : 0..MaxTicks, loaded : BOOLEAN,
         prevInterval : Intervals]

Batch == [deleted : SUBSET Components, fresh : SUBSET Components,
          ticked : SUBSET Components, retimed : SUBSET Components]

NoEffects == [deleted |-> {}, fresh |-> {}, ticked |-> {}, retimed |-> {}]

HookTypeOK ==
  /\ refreshInterval \in Intervals
  /\ mounted \subseteq Components
  /\ comp \in [Components -> Comp]
  /\ listeners \subseteq Components
  /\ numSubscribers \in 0..Cardinality(Components)
  /\ intervalId \in Intervals \ {1}
  /\ batch \in Batch
  /\ clock \in 0..MaxTicks

\* The hook's state as a record, for the effects that run before a render.
Hook == [comp |-> comp, listeners |-> listeners, n |-> numSubscribers,
         timer |-> intervalId]

----------------------------------------------------------------------------
\* Cleanups of unmounted components: each leaves the count, then looks at it.
CleanUpTimerFirst(h, deleted) ==
  [h EXCEPT !.listeners = @ \ deleted, !.n = @ - Cardinality(deleted)]

CleanUp(h, deleted) ==
  [h EXCEPT !.listeners = @ \ deleted, !.n = @ - Cardinality(deleted),
            !.timer = IF deleted # {} /\ h.n = Cardinality(deleted) THEN 0 ELSE @]

\* New effects.  A component that ticked leaves the count and enters it again
\* in one go; every component that mounts or sees another interval drops the
\* timer and sets its own.
Subscribe(h, fresh, retimed) ==
  [h EXCEPT !.listeners = @ \cup fresh, !.n = @ + Cardinality(fresh),
            !.timer = IF fresh \cup retimed = {} THEN @
                      ELSE IF refreshInterval > 1 THEN refreshInterval ELSE 0]

ManualStateByTick(h, c) ==
  LET s == h.comp[c] IN
  [s EXCEPT !.prevInterval = refreshInterval, !.loaded = @ \/ s.last # s.initial]

\* The two effects of useManualRefreshState, for c in the tree.
ManualState(h, c) ==
  LET s == h.comp[c] IN
  [s EXCEPT !.prevInterval = refreshInterval,
            !.loaded = @ \/ s.last # s.initial
                         \/ /\ s.prevInterval = RefreshIntervalManual
                            /\ refreshInterval # RefreshIntervalManual]

Flushed ==
  LET h == Subscribe(CleanUp(Hook, batch.deleted), batch.fresh, batch.retimed)
      ran == batch.fresh \cup batch.ticked \cup batch.retimed
  IN  [h EXCEPT !.comp = [c \in Components |-> IF c \in ran THEN ManualState(h, c) ELSE @[c]]]

Becomes(h, effects) ==
  /\ comp' = h.comp /\ listeners' = h.listeners /\ numSubscribers' = h.n
  /\ intervalId' = h.timer /\ batch' = effects

----------------------------------------------------------------------------
HookInit ==
  /\ refreshInterval \in Intervals
  /\ mounted = {} /\ listeners = {} /\ numSubscribers = 0 /\ intervalId = 0
  /\ comp = [c \in Components |-> [last |-> 0, initial |-> 0, loaded |-> FALSE,
                                   prevInterval |-> RefreshIntervalPause]]
  /\ batch = NoEffects /\ clock = 0

\* The first render of a component, in a page whose URL says url (the interval
\* of redux where it says nothing).
Initial(url) ==
  [last |-> clock, initial |-> clock, prevInterval |-> refreshInterval,
   loaded |-> RefreshIntervalManual \notin {refreshInterval, url}]

\* A commit that removes some components and renders others.  Its effects are
\* still to run when redux does not change in it; a Refresh component whose
\* URL overrides the interval makes every component render again, so the
\* effects of the first commit run, and those on refreshInterval are next.
Commit(gone, new, url) ==
  LET h == [Flushed EXCEPT !.comp =
              [c \in Components |-> IF c \in new THEN Initial(url) ELSE @[c]]]
      tree == (mounted \ gone) \cup new
      first == [NoEffects EXCEPT !.deleted = gone, !.fresh = new]
  IN  /\ gone \subseteq mounted /\ new \cap mounted = {}
      /\ mounted' = tree
      /\ refreshInterval' = url
      /\ IF url = refreshInterval
         THEN Becomes(h, first)
         ELSE LET g == Subscribe(CleanUp(h, gone), new, {})
              IN  Becomes([g EXCEPT !.comp = [c \in Components |->
                             IF c \in new THEN ManualState(g, c) ELSE @[c]]],
                          [NoEffects EXCEPT !.retimed = tree])
      /\ UNCHANGED clock

\* The user picks another interval.
SetRefreshInterval(i) ==
  /\ i # refreshInterval
  /\ refreshInterval' = i
  /\ Becomes(Flushed, [NoEffects EXCEPT !.retimed = mounted])
  /\ UNCHANGED <<mounted, clock>>

\* doTick: the listeners of the moment get the event, those of components that
\* are gone for nothing.
Called == listeners \cap mounted

Ticked(h, heard) ==
  [h EXCEPT !.comp = [c \in Components |->
     IF c \in heard THEN [@[c] EXCEPT !.last = clock + 1] ELSE @[c]]]

\* Within a handler of React all state changes make one render, before which
\* the effects that wait run.
TickBatched ==
  /\ Called # {}
  /\ Becomes(Ticked(Flushed, Called), [NoEffects EXCEPT !.ticked = Called])

\* Outside of one each listener renders at once.  The first render runs the
\* effects that wait: components that start to listen then are not called any
\* more, and those that ticked before listen anew and miss this event.  Each
\* render runs the effects of the one before; those of the last one wait.
TickOneByOne(first, last) ==
  LET heard == {first} \cup (Called \ batch.ticked)
      h == Ticked(Flushed, heard)
  IN  /\ last \in heard
      /\ last = first => heard = {first}
      /\ Becomes([h EXCEPT !.comp = [c \in Components |->
                     IF c \in heard \ {last} THEN ManualState(h, c) ELSE @[c]]],
                 [NoEffects EXCEPT !.ticked = {last}])

TickUnheard == Called = {} /\ Becomes(Hook, batch)

\* The timer and the promises that call triggerRefresh are outside, its
\* buttons are inside of a handler.
DoTick ==
  /\ clock < MaxTicks
  /\ clock' = clock + 1
  /\ \/ TickUnheard
     \/ \E first, last \in Called : TickOneByOne(first, last)
  /\ UNCHANGED <<refreshInterval, mounted>>

TimerFires == intervalId # 0 /\ DoTick

TriggerRefresh ==
  \/ DoTick
  \/ /\ clock < MaxTicks
     /\ clock' = clock + 1
     /\ TickBatched
     /\ UNCHANGED <<refreshInterval, mounted>>

RunEffects ==
  /\ batch # NoEffects
  /\ Becomes(Flushed, NoEffects)
  /\ UNCHANGED <<refreshInterval, mounted, clock>>

----------------------------------------------------------------------------
Settled == batch = NoEffects

\* The count and the timer of refresh.ts: whatever mounts, unmounts and ticks
\* in between, once the effects have run each component of the tree listens
\* and is counted once, and the one timer runs with the interval picked if and
\* only if somebody listens and the interval is longer than 1 ms.
OneTimerForSubscribers ==
  Settled => /\ listeners = mounted
             /\ numSubscribers = Cardinality(mounted)
             /\ intervalId = IF mounted # {} /\ refreshInterval > 1
                             THEN refreshInterval ELSE 0

\* useManualRefreshState: a component shows its content unless the interval is
\* manual, wherever the interval came from (redux or the URL) and in whatever
\* order it, the mount and the ticks arrive.
LoadedUnlessManual ==
  Settled => \A c \in mounted :
    comp[c].loaded \/ (refreshInterval = RefreshIntervalManual
                         /\ comp[c].last = comp[c].initial)

=============================================================================
