--------------------------- MODULE ListPageProofs ---------------------------
(***************************************************************************)
(* The refresh clock and the list pages, for any components, intervals,    *)
(* clusters, selections and columns and any number of events.              *)
(*                                                                         *)
(* The hook's invariant says what holds while effects wait to run: who     *)
(* listens (everybody but the components mounted by the last commit, and   *)
(* those it removed), that the count and the timer agree with that, and    *)
(* what the manual state of a component may lack.  The effects that wait   *)
(* then restore what OneTimerForSubscribers and LoadedUnlessManual say.    *)
(***************************************************************************)
EXTENDS ListPage, FiniteSetTheorems, TLAPS

HookFields == {"comp", "listeners", "n", "timer"}
CompFields == {"last", "initial", "loaded", "prevInterval"}

\* The period of the timer when the components of s listen.
Period(s) == IF s # {} /\ refreshInterval > 1 THEN refreshInterval ELSE 0

CompShape(f) ==
  /\ DOMAIN f = Components
  /\ \A c \in Components : DOMAIN f[c] = CompFields /\ f[c].loaded \in BOOLEAN

\* The manual state of a component whose effects have run, and of one whose
\* effects wait.
Ran(s) ==
  /\ s.prevInterval = refreshInterval
  /\ s.loaded \/ (refreshInterval = RefreshIntervalManual /\ s.last = s.initial)

MayRun(s) ==
  \/ s.loaded \/ s.last # s.initial
  \/ RefreshIntervalManual \in {refreshInterval, s.prevInterval}

ToRun == batch.fresh \cup batch.ticked \cup batch.retimed

Subscriptions ==
  /\ refreshInterval \in Intervals
  /\ mounted \subseteq Components
  /\ batch.deleted \subseteq Components /\ batch.deleted \cap mounted = {}
  /\ batch.fresh \subseteq mounted /\ batch.retimed \subseteq mounted
  /\ listeners = (mounted \ batch.fresh) \cup batch.deleted
  /\ numSubscribers = Cardinality(listeners)
  /\ batch.fresh \cup batch.retimed = {} => intervalId = Period(listeners)

ManualStates ==
  /\ CompShape(comp)
  /\ \A c \in mounted : IF c \in ToRun THEN MayRun(comp[c]) ELSE Ran(comp[c])

HookInv == Subscriptions /\ ManualStates

-----------------------------------------------------------------------------
LEMMA IntervalNat ==
  ASSUME NEW i \in Intervals
  PROVE  i \in Nat
BY HookConstants

LEMMA FiniteTree ==
  ASSUME NEW s \in SUBSET Components
  PROVE  IsFiniteSet(s) /\ Cardinality(s) \in Nat
BY HookConstants, FS_Subset, FS_CardinalityType

\* Components that leave: count and timer follow.
LEMMA CleanUpKeeps ==
  ASSUME NEW h, DOMAIN h = HookFields, h.listeners \subseteq Components,
         h.n = Cardinality(h.listeners), NEW deleted \in SUBSET h.listeners
  PROVE  LET g == CleanUp(h, deleted) IN
         /\ DOMAIN g = HookFields /\ g.comp = h.comp
         /\ g.listeners = h.listeners \ deleted
         /\ g.n = Cardinality(g.listeners)
         /\ h.timer = Period(h.listeners) => g.timer = Period(g.listeners)
<1>. DEFINE g == CleanUp(h, deleted)
<1>1. /\ DOMAIN g = HookFields /\ g.comp = h.comp
      /\ g.listeners = h.listeners \ deleted
      /\ g.n = h.n - Cardinality(deleted)
      /\ g.timer = IF deleted # {} /\ h.n = Cardinality(deleted) THEN 0 ELSE h.timer
  BY DEF CleanUp, HookFields
<1>. HIDE DEF g
<1>2. IsFiniteSet(h.listeners) /\ IsFiniteSet(deleted)
  BY FiniteTree
<1>3. Cardinality(h.listeners \ deleted) = Cardinality(h.listeners) - Cardinality(deleted)
  <2>. DEFINE both == h.listeners \cap deleted
  <2>1. both = deleted
    OBVIOUS
  <2>2. Cardinality(h.listeners \ deleted) = Cardinality(h.listeners) - Cardinality(both)
    BY <1>2, FS_Difference
  <2>. HIDE DEF both
  <2>. QED BY <2>1, <2>2
<1>4. h.n = Cardinality(deleted) <=> h.listeners = deleted
  BY <1>2, FS_Subset
<1>5. h.timer = Period(h.listeners) => g.timer = Period(g.listeners)
  BY <1>1, <1>4 DEF Period
<1>. QED BY <1>1, <1>3, <1>5 DEF g

\* Components that come or see another interval.
LEMMA SubscribeKeeps ==
  ASSUME NEW h, DOMAIN h = HookFields, h.listeners \subseteq Components,
         h.n = Cardinality(h.listeners),
         NEW fresh \in SUBSET Components, fresh \cap h.listeners = {},
         NEW retimed \in SUBSET (h.listeners \cup fresh),
         fresh \cup retimed = {} => h.timer = Period(h.listeners)
  PROVE  LET g == Subscribe(h, fresh, retimed) IN
         /\ DOMAIN g = HookFields /\ g.comp = h.comp
         /\ g.listeners = h.listeners \cup fresh
         /\ g.n = Cardinality(g.listeners)
         /\ g.timer = Period(g.listeners)
<1>. DEFINE g == Subscribe(h, fresh, retimed)
<1>1. /\ DOMAIN g = HookFields /\ g.comp = h.comp
      /\ g.listeners = h.listeners \cup fresh
      /\ g.n = h.n + Cardinality(fresh)
      /\ g.timer = IF fresh \cup retimed = {} THEN h.timer
                   ELSE IF refreshInterval > 1 THEN refreshInterval ELSE 0
  BY DEF Subscribe, HookFields
<1>. HIDE DEF g
<1>2. /\ IsFiniteSet(h.listeners) /\ IsFiniteSet(fresh)
      /\ Cardinality(h.listeners) \in Nat /\ Cardinality(fresh) \in Nat
  BY FiniteTree
<1>3. Cardinality(h.listeners \cup fresh) = Cardinality(h.listeners) + Cardinality(fresh)
  <2>. DEFINE both == h.listeners \cap fresh
  <2>1. both = {}
    OBVIOUS
  <2>2. Cardinality(h.listeners \cup fresh)
          = Cardinality(h.listeners) + Cardinality(fresh) - Cardinality(both)
    BY <1>2, FS_Union
  <2>. HIDE DEF both
  <2>3. Cardinality(both) = 0
    BY <2>1, FS_EmptySet
  <2>. QED BY <1>2, <2>2, <2>3
<1>4. g.timer = Period(g.listeners)
  BY <1>1 DEF Period
<1>. QED BY <1>1, <1>3, <1>4 DEF g

\* The manual state of one component.
LEMMA ManualStateRan ==
  ASSUME NEW h, CompShape(h.comp), NEW c \in Components
  PROVE  LET s == h.comp[c]
             t == ManualState(h, c)
         IN  /\ DOMAIN t = CompFields /\ t.loaded \in BOOLEAN
             /\ t.last = s.last /\ t.initial = s.initial
             /\ t.prevInterval = refreshInterval
             /\ t.loaded = (s.loaded \/ s.last # s.initial
                              \/ /\ s.prevInterval = RefreshIntervalManual
                                 /\ refreshInterval # RefreshIntervalManual)
             /\ MayRun(s) => Ran(t)
<1>. DEFINE s == h.comp[c]
            t == ManualState(h, c)
<1>1. /\ DOMAIN t = CompFields /\ t.last = s.last /\ t.initial = s.initial
      /\ t.prevInterval = refreshInterval
      /\ t.loaded = (s.loaded \/ s.last # s.initial
                       \/ /\ s.prevInterval = RefreshIntervalManual
                          /\ refreshInterval # RefreshIntervalManual)
  BY DEF ManualState, CompShape, CompFields
<1>2. s.loaded \in BOOLEAN
  BY DEF CompShape
<1>. HIDE DEF s, t
<1>3. t.loaded \in BOOLEAN
  BY <1>1, <1>2
<1>4. MayRun(s) => Ran(t)
  BY <1>1, <1>2 DEF MayRun, Ran
<1>. QED BY <1>1, <1>3, <1>4 DEF s, t

-----------------------------------------------------------------------------
\* What the effects that wait leave behind.
LEMMA FlushedState ==
  ASSUME HookInv
  PROVE  /\ DOMAIN Flushed = HookFields
         /\ Flushed.listeners = mounted
         /\ Flushed.n = Cardinality(mounted)
         /\ Flushed.timer = Period(mounted)
         /\ CompShape(Flushed.comp)
         /\ \A c \in mounted : Ran(Flushed.comp[c])
         /\ \A c \in Components : Flushed.comp[c].last = comp[c].last
<1>. DEFINE h0 == CleanUp(Hook, batch.deleted)
            h == Subscribe(h0, batch.fresh, batch.retimed)
<1>. USE DEF HookInv, Subscriptions
<1>1. /\ DOMAIN Hook = HookFields /\ Hook.comp = comp /\ Hook.listeners = listeners
      /\ Hook.n = numSubscribers /\ Hook.timer = intervalId
  BY DEF Hook, HookFields
<1>2. /\ DOMAIN h0 = HookFields /\ h0.comp = comp
      /\ h0.listeners = listeners \ batch.deleted
      /\ h0.n = Cardinality(h0.listeners)
      /\ intervalId = Period(listeners) => h0.timer = Period(h0.listeners)
  <2>1. /\ Hook.listeners \subseteq Components /\ batch.deleted \in SUBSET Hook.listeners
        /\ Hook.n = Cardinality(Hook.listeners)
    BY <1>1
  <2>. QED BY <1>1, <2>1, CleanUpKeeps
<1>3. h0.listeners = mounted \ batch.fresh
  BY <1>2
<1>. HIDE DEF h0
<1>4. /\ DOMAIN h = HookFields /\ h.comp = comp /\ h.listeners = mounted
      /\ h.n = Cardinality(mounted) /\ h.timer = Period(mounted)
  <2>1. h0.listeners \cup batch.fresh = mounted
    BY <1>3
  <2>2. batch.fresh \cup batch.retimed = {} => h0.timer = Period(h0.listeners)
    BY <1>2
  <2>3. /\ h0.listeners \subseteq Components /\ batch.fresh \in SUBSET Components
        /\ batch.fresh \cap h0.listeners = {}
        /\ batch.retimed \in SUBSET (h0.listeners \cup batch.fresh)
    BY <1>3, <2>1
  <2>. HIDE DEF HookInv, Subscriptions
  <2>4. /\ DOMAIN h = HookFields /\ h.comp = h0.comp
        /\ h.listeners = h0.listeners \cup batch.fresh
        /\ h.n = Cardinality(h.listeners) /\ h.timer = Period(h.listeners)
    BY <1>2, <2>2, <2>3, SubscribeKeeps, SMTT(60)
  <2>. HIDE DEF h
  <2>5. h.listeners = mounted
    BY <2>1, <2>4
  <2>. QED BY <1>2, <2>4, <2>5
<1>5. Flushed = [h EXCEPT !.comp = [c \in Components |->
                   IF c \in ToRun THEN ManualState(h, c) ELSE @[c]]]
  BY DEF Flushed, ToRun, h0
<1>. HIDE DEF h
<1>6. /\ DOMAIN Flushed = HookFields /\ Flushed.listeners = mounted
      /\ Flushed.n = Cardinality(mounted) /\ Flushed.timer = Period(mounted)
      /\ Flushed.comp = [c \in Components |->
                           IF c \in ToRun THEN ManualState(h, c) ELSE comp[c]]
  BY <1>4, <1>5 DEF HookFields
<1>7. CompShape(h.comp) /\ CompShape(comp)
  BY <1>4 DEF ManualStates
<1>8. ASSUME NEW c \in Components
      PROVE  /\ DOMAIN Flushed.comp[c] = CompFields /\ Flushed.comp[c].loaded \in BOOLEAN
             /\ Flushed.comp[c].last = comp[c].last
  <2>1. CASE c \in ToRun
    <3>1. Flushed.comp[c] = ManualState(h, c)
      BY <1>6, <2>1
    <3>. QED BY <1>4, <1>7, <3>1, ManualStateRan
  <2>2. CASE c \notin ToRun
    <3>1. Flushed.comp[c] = comp[c]
      BY <1>6, <2>2
    <3>. QED BY <1>7, <3>1 DEF CompShape
  <2>. QED BY <2>1, <2>2
<1>9. ASSUME NEW c \in mounted
      PROVE  Ran(Flushed.comp[c])
  <2>. c \in Components
    OBVIOUS
  <2>1. CASE c \in ToRun
    <3>1. Flushed.comp[c] = ManualState(h, c)
      BY <1>6, <2>1
    <3>2. MayRun(h.comp[c])
      BY <1>4, <2>1 DEF ManualStates
    <3>. QED BY <1>7, <3>1, <3>2, ManualStateRan
  <2>2. CASE c \notin ToRun
    <3>1. Flushed.comp[c] = comp[c]
      BY <1>6, <2>2
    <3>. QED BY <2>2, <3>1 DEF ManualStates
  <2>. QED BY <2>1, <2>2
<1>. QED BY <1>6, <1>8, <1>9 DEF CompShape

-----------------------------------------------------------------------------
\* A component rendered for the first time, before and after its effects.
LEMMA InitialMayRun ==
  ASSUME NEW i
  PROVE  LET s == Initial(i) IN
         /\ DOMAIN s = CompFields /\ s.loaded \in BOOLEAN /\ s.last = s.initial
         /\ s.prevInterval = refreshInterval
         /\ s.loaded \/ RefreshIntervalManual \in {refreshInterval, i}
BY DEF Initial, CompFields

\* A commit, with or without an interval of the URL that replaces the one of
\* redux.
LEMMA CommitKeeps ==
  ASSUME HookInv, NEW gone \in SUBSET Components, NEW new \in SUBSET Components,
         NEW i \in Intervals, Commit(gone, new, i)
  PROVE  HookInv'
<1>. DEFINE h == [Flushed EXCEPT !.comp =
                    [c \in Components |-> IF c \in new THEN Initial(i) ELSE @[c]]]
            tree == (mounted \ gone) \cup new
<1>1. /\ gone \subseteq mounted /\ new \cap mounted = {}
      /\ mounted' = tree /\ refreshInterval' = i /\ mounted \subseteq Components
  BY DEF Commit, HookInv, Subscriptions
<1>2. /\ DOMAIN h = HookFields /\ h.listeners = mounted /\ h.n = Cardinality(mounted)
      /\ h.timer = Period(mounted)
      /\ h.comp = [c \in Components |-> IF c \in new THEN Initial(i) ELSE Flushed.comp[c]]
  BY FlushedState DEF HookFields
<1>3. /\ CompShape(h.comp)
      /\ \A c \in new : h.comp[c] = Initial(i)
      /\ \A c \in tree \ new : Ran(h.comp[c])
  <2>1. \A c \in new : h.comp[c] = Initial(i)
    BY <1>2
  <2>2. \A c \in Components \ new : h.comp[c] = Flushed.comp[c]
    BY <1>2
  <2>3. DOMAIN h.comp = Components
    BY <1>2
  <2>. HIDE DEF h
  <2>4. CompShape(h.comp)
    BY <2>1, <2>2, <2>3, FlushedState, InitialMayRun DEF CompShape
  <2>5. \A c \in tree \ new : Ran(h.comp[c])
    BY <1>1, <2>2, FlushedState
  <2>. QED BY <2>1, <2>4, <2>5
<1>4. CASE i = refreshInterval
  <2>1. Becomes(h, [NoEffects EXCEPT !.deleted = gone, !.fresh = new])
    BY <1>4 DEF Commit
  <2>. HIDE DEF h
  <2>2. /\ comp' = h.comp /\ listeners' = mounted /\ numSubscribers' = Cardinality(mounted)
        /\ intervalId' = Period(mounted)
        /\ batch'.deleted = gone /\ batch'.fresh = new
        /\ batch'.ticked = {} /\ batch'.retimed = {}
    BY <1>2, <2>1 DEF Becomes, NoEffects
  <2>3. mounted = (tree \ new) \cup gone
    BY <1>1
  <2>5. Subscriptions'
    <3>1. new = {} => intervalId' = Period(listeners)'
      BY <1>1, <1>4, <2>2 DEF Period
    <3>. QED BY <1>1, <2>2, <2>3, <3>1 DEF Subscriptions
  <2>6. ManualStates'
    <3>1. ToRun' = new
      BY <2>2 DEF ToRun
    <3>2. ASSUME NEW c \in new PROVE MayRun(comp[c])'
      BY <1>1, <1>3, <1>4, <2>2, InitialMayRun DEF MayRun
    <3>3. ASSUME NEW c \in tree \ new PROVE Ran(comp[c])'
      BY <1>1, <1>3, <1>4, <2>2 DEF Ran
    <3>4. CompShape(comp)'
      BY <1>3, <2>2 DEF CompShape
    <3>. QED BY <1>1, <3>1, <3>2, <3>3, <3>4 DEF ManualStates
  <2>. QED BY <2>5, <2>6 DEF HookInv
<1>5. CASE i # refreshInterval
  <2>. DEFINE h1 == CleanUp(h, gone)
              g == Subscribe(h1, new, {})
              k == [g EXCEPT !.comp = [c \in Components |->
                      IF c \in new THEN ManualState(g, c) ELSE @[c]]]
  <2>1. Becomes(k, [NoEffects EXCEPT !.retimed = tree])
    BY <1>5 DEF Commit
  <2>. HIDE DEF h
  <2>2. /\ DOMAIN h1 = HookFields /\ h1.comp = h.comp /\ h1.listeners = mounted \ gone
        /\ h1.n = Cardinality(h1.listeners) /\ h1.timer = Period(h1.listeners)
    BY <1>1, <1>2, CleanUpKeeps
  <2>. HIDE DEF h1
  <2>3. /\ DOMAIN g = HookFields /\ g.comp = h.comp
        /\ g.listeners = h1.listeners \cup new /\ g.n = Cardinality(g.listeners)
        /\ g.timer = Period(g.listeners)
    <3>1. /\ h1.listeners \subseteq Components /\ new \cap h1.listeners = {}
          /\ {} \in SUBSET (h1.listeners \cup new)
      BY <1>1, <2>2
    <3>. QED BY <2>2, <3>1, SubscribeKeeps, SMTT(60)
  <2>4. g.listeners = tree
    BY <2>2, <2>3
  <2>. HIDE DEF g
  <2>5. /\ k.listeners = tree /\ k.n = Cardinality(tree) /\ k.timer = Period(tree)
        /\ k.comp = [c \in Components |-> IF c \in new THEN ManualState(g, c) ELSE h.comp[c]]
    BY <2>3, <2>4 DEF HookFields
  <2>6. \A c \in new : k.comp[c] = ManualState(g, c)
    BY <2>5
  <2>7. \A c \in Components \ new : k.comp[c] = h.comp[c]
    BY <2>5
  <2>8. DOMAIN k.comp = Components
    BY <2>5
  <2>. HIDE DEF k
  <2>9. /\ comp' = k.comp /\ listeners' = tree /\ numSubscribers' = Cardinality(tree)
        /\ intervalId' = Period(tree)
        /\ batch'.deleted = {} /\ batch'.fresh = {}
        /\ batch'.ticked = {} /\ batch'.retimed = tree
    BY <2>1, <2>5 DEF Becomes, NoEffects
  <2>10. Subscriptions'
    <3>1. tree = {} => intervalId' = Period(listeners)'
      BY <2>9 DEF Period
    <3>2. tree \subseteq Components
      BY <1>1
    <3>. HIDE DEF tree
    <3>. QED BY <1>1, <2>9, <3>1, <3>2 DEF Subscriptions
  <2>11. CompShape(g.comp)
    BY <1>3, <2>3
  <2>12. CompShape(comp)'
    BY <1>3, <2>6, <2>7, <2>8, <2>9, <2>11, ManualStateRan DEF CompShape
  <2>13. ASSUME NEW c \in tree PROVE MayRun(comp[c])'
    <3>1. CASE c \in new
      <4>. DEFINE s == Initial(i)
                  t == ManualState(g, c)
      <4>1. g.comp[c] = s /\ comp'[c] = t
        BY <1>3, <2>3, <2>6, <2>9, <3>1
      <4>2. /\ s.loaded \in BOOLEAN
            /\ s.loaded \/ RefreshIntervalManual \in {refreshInterval, i}
        BY InitialMayRun
      <4>3. t.prevInterval = refreshInterval /\ (s.loaded => t.loaded)
        BY <2>11, <3>1, <4>1, ManualStateRan
      <4>. HIDE DEF s, t
      <4>. QED BY <1>1, <4>1, <4>2, <4>3 DEF MayRun
    <3>2. CASE c \notin new
      BY <1>1, <1>3, <2>7, <2>9, <3>2 DEF MayRun, Ran
    <3>. QED BY <3>1, <3>2
  <2>14. ToRun' = tree
    BY <2>9 DEF ToRun
  <2>. QED BY <1>1, <2>10, <2>12, <2>13, <2>14 DEF HookInv, ManualStates
<1>. QED BY <1>4, <1>5

\* Another interval: the components of the tree are still to see it.
LEMMA IntervalKeeps ==
  ASSUME HookInv, NEW i \in Intervals, SetRefreshInterval(i)
  PROVE  HookInv'
<1>1. /\ refreshInterval' = i /\ mounted' = mounted /\ comp' = Flushed.comp
      /\ listeners' = mounted /\ numSubscribers' = Cardinality(mounted)
      /\ intervalId' = Period(mounted)
      /\ batch'.deleted = {} /\ batch'.fresh = {}
      /\ batch'.ticked = {} /\ batch'.retimed = mounted
  BY FlushedState DEF SetRefreshInterval, Becomes, NoEffects
<1>2. Subscriptions'
  <2>1. mounted = {} => intervalId' = Period(listeners)'
    BY <1>1 DEF Period
  <2>. QED BY <1>1, <2>1 DEF Subscriptions, HookInv
<1>3. CompShape(comp)' /\ ToRun' = mounted
  BY <1>1, FlushedState DEF CompShape, ToRun
<1>4. ASSUME NEW c \in mounted PROVE MayRun(comp[c])'
  BY <1>1, FlushedState DEF MayRun, Ran
<1>. QED BY <1>1, <1>2, <1>3, <1>4 DEF HookInv, ManualStates

\* The effects run by themselves.
LEMMA EffectsKeep ==
  ASSUME HookInv, RunEffects
  PROVE  HookInv'
<1>1. /\ refreshInterval' = refreshInterval /\ mounted' = mounted /\ comp' = Flushed.comp
      /\ listeners' = mounted /\ numSubscribers' = Cardinality(mounted)
      /\ intervalId' = Period(mounted)
      /\ batch'.deleted = {} /\ batch'.fresh = {}
      /\ batch'.ticked = {} /\ batch'.retimed = {}
  BY FlushedState DEF RunEffects, Becomes, NoEffects
<1>2. Subscriptions'
  BY <1>1 DEF Subscriptions, HookInv, Period
<1>3. CompShape(comp)' /\ ToRun' = {}
  BY <1>1, FlushedState DEF CompShape, ToRun
<1>4. ASSUME NEW c \in mounted PROVE Ran(comp[c])'
  BY <1>1, FlushedState DEF Ran
<1>. QED BY <1>1, <1>2, <1>3, <1>4 DEF HookInv, ManualStates

\* Components that hear a tick, after the effects that wait have run.
LEMMA TickedState ==
  ASSUME HookInv, NEW heard \in SUBSET mounted
  PROVE  LET h == Ticked(Flushed, heard) IN
         /\ DOMAIN h = HookFields /\ h.listeners = mounted
         /\ h.n = Cardinality(mounted) /\ h.timer = Period(mounted)
         /\ CompShape(h.comp)
         /\ \A c \in heard : MayRun(h.comp[c])
         /\ \A c \in mounted \ heard : Ran(h.comp[c])
<1>. DEFINE h == Ticked(Flushed, heard)
<1>1. mounted \subseteq Components
  BY DEF HookInv, Subscriptions
<1>2. /\ DOMAIN h = HookFields /\ h.listeners = mounted
      /\ h.n = Cardinality(mounted) /\ h.timer = Period(mounted)
      /\ h.comp = [c \in Components |-> IF c \in heard
                     THEN [Flushed.comp[c] EXCEPT !.last = clock + 1]
                     ELSE Flushed.comp[c]]
  BY FlushedState DEF Ticked, HookFields
<1>. HIDE DEF h
<1>3. ASSUME NEW c \in Components
      PROVE  /\ DOMAIN h.comp[c] = CompFields
             /\ h.comp[c].loaded = Flushed.comp[c].loaded
             /\ c \notin heard => h.comp[c] = Flushed.comp[c]
  <2>1. DOMAIN Flushed.comp[c] = CompFields
    BY FlushedState DEF CompShape
  <2>2. h.comp[c] = IF c \in heard THEN [Flushed.comp[c] EXCEPT !.last = clock + 1]
                    ELSE Flushed.comp[c]
    BY <1>2
  <2>. QED BY <2>1, <2>2 DEF CompFields
<1>4. CompShape(h.comp)
  BY <1>2, <1>3, FlushedState DEF CompShape
<1>5. \A c \in heard : MayRun(h.comp[c])
  BY <1>1, <1>3, FlushedState DEF MayRun, Ran
<1>6. \A c \in mounted \ heard : Ran(h.comp[c])
  BY <1>1, <1>3, FlushedState
<1>. QED BY <1>2, <1>4, <1>5, <1>6 DEF h

\* A tick whose renders left the effects of some components to run.
LEMMA TickHeard ==
  ASSUME HookInv, NEW heard \in SUBSET mounted, NEW late \in SUBSET heard,
         UNCHANGED <<refreshInterval, mounted>>, listeners' = mounted,
         numSubscribers' = Cardinality(mounted), intervalId' = Period(mounted),
         batch' = [NoEffects EXCEPT !.ticked = late], DOMAIN comp' = Components,
         \A c \in Components :
           comp'[c] = IF c \in heard \ late THEN ManualState(Ticked(Flushed, heard), c)
                      ELSE Ticked(Flushed, heard).comp[c]
  PROVE  HookInv'
<1>. DEFINE h == Ticked(Flushed, heard)
<1>1. mounted \subseteq Components
  BY DEF HookInv, Subscriptions
<1>2. /\ CompShape(h.comp)
      /\ \A c \in heard : MayRun(h.comp[c])
      /\ \A c \in mounted \ heard : Ran(h.comp[c])
      /\ \A c \in Components : comp'[c] = IF c \in heard \ late THEN ManualState(h, c)
                                          ELSE h.comp[c]
  BY TickedState
<1>. HIDE DEF h
<1>3. /\ batch'.deleted = {} /\ batch'.fresh = {}
      /\ batch'.ticked = late /\ batch'.retimed = {}
  BY DEF NoEffects
<1>4. Subscriptions'
  BY <1>1, <1>3 DEF HookInv, Subscriptions, Period
<1>5. ToRun' = late
  BY <1>3 DEF ToRun
<1>6. CompShape(comp)'
  BY <1>2, ManualStateRan DEF CompShape
<1>7. ASSUME NEW c \in mounted
      PROVE  IF c \in late THEN MayRun(comp[c])' ELSE Ran(comp[c])'
  <2>1. CASE c \in late
    BY <1>1, <1>2, <2>1 DEF MayRun
  <2>2. CASE c \in heard \ late
    <3>1. Ran(ManualState(h, c)) /\ comp'[c] = ManualState(h, c)
      BY <1>1, <1>2, <2>2, ManualStateRan
    <3>. QED BY <2>2, <3>1 DEF Ran
  <2>3. CASE c \notin heard
    BY <1>1, <1>2, <2>3 DEF Ran
  <2>. QED BY <2>1, <2>2, <2>3
<1>. QED BY <1>4, <1>5, <1>6, <1>7 DEF HookInv, ManualStates

\* The events of doTick, whoever hears them.
LEMMA TickKeeps ==
  ASSUME HookInv, UNCHANGED <<refreshInterval, mounted>>,
         \/ TickUnheard \/ TickBatched
         \/ \E first, last \in Called : TickOneByOne(first, last)
  PROVE  HookInv'
<1>1. Called \subseteq mounted
  BY DEF Called
<1>2. CASE TickUnheard
  <2>1. /\ comp' = comp /\ listeners' = listeners /\ numSubscribers' = numSubscribers
        /\ intervalId' = intervalId /\ batch' = batch
    BY <1>2 DEF TickUnheard, Becomes, Hook
  <2>. QED BY <2>1 DEF HookInv, Subscriptions, ManualStates, CompShape, ToRun, MayRun, Ran,
                       Period
<1>3. CASE TickBatched
  <2>. DEFINE h == Ticked(Flushed, Called)
  <2>1. Becomes(h, [NoEffects EXCEPT !.ticked = Called])
    BY <1>3 DEF TickBatched
  <2>2. /\ h.listeners = mounted /\ h.n = Cardinality(mounted)
        /\ h.timer = Period(mounted) /\ CompShape(h.comp)
    BY <1>1, TickedState
  <2>3. /\ comp' = h.comp /\ listeners' = mounted /\ numSubscribers' = Cardinality(mounted)
        /\ intervalId' = Period(mounted) /\ batch' = [NoEffects EXCEPT !.ticked = Called]
        /\ DOMAIN comp' = Components
    BY <2>1, <2>2 DEF Becomes, CompShape
  <2>4. \A c \in Components :
          comp'[c] = IF c \in Called \ Called THEN ManualState(h, c) ELSE h.comp[c]
    BY <2>3
  <2>. QED BY <1>1, <2>3, <2>4, TickHeard
<1>4. ASSUME NEW first \in Called, NEW last \in Called, TickOneByOne(first, last)
      PROVE  HookInv'
  <2>. DEFINE heard == {first} \cup (Called \ batch.ticked)
              h == Ticked(Flushed, heard)
              k == [h EXCEPT !.comp = [c \in Components |->
                      IF c \in heard \ {last} THEN ManualState(h, c) ELSE @[c]]]
  <2>1. last \in heard /\ Becomes(k, [NoEffects EXCEPT !.ticked = {last}])
    BY <1>4 DEF TickOneByOne
  <2>2. heard \in SUBSET mounted
    BY <1>1
  <2>. HIDE DEF heard
  <2>3. /\ DOMAIN h = HookFields /\ h.listeners = mounted /\ h.n = Cardinality(mounted)
        /\ h.timer = Period(mounted)
    BY <2>2, TickedState
  <2>. HIDE DEF h
  <2>4. /\ k.listeners = mounted /\ k.n = Cardinality(mounted) /\ k.timer = Period(mounted)
        /\ k.comp = [c \in Components |->
                       IF c \in heard \ {last} THEN ManualState(h, c) ELSE h.comp[c]]
    BY <2>3 DEF HookFields
  <2>. HIDE DEF k
  <2>5. /\ comp' = k.comp /\ listeners' = mounted /\ numSubscribers' = Cardinality(mounted)
        /\ intervalId' = Period(mounted) /\ batch' = [NoEffects EXCEPT !.ticked = {last}]
    BY <2>1, <2>4 DEF Becomes
  <2>6. /\ DOMAIN comp' = Components
        /\ \A c \in Components :
             comp'[c] = IF c \in heard \ {last} THEN ManualState(h, c) ELSE h.comp[c]
    BY <2>4, <2>5
  <2>7. {last} \in SUBSET heard
    BY <2>1
  <2>. QED BY <2>2, <2>5, <2>6, <2>7, TickHeard DEF h
<1>. QED BY <1>2, <1>3, <1>4

LEMMA HookStutters ==
  ASSUME HookInv, UNCHANGED hookVars
  PROVE  HookInv'
BY DEF hookVars, HookInv, Subscriptions, ManualStates, CompShape, ToRun, MayRun, Ran, Period

LEMMA HookStarts ==
  ASSUME HookInit
  PROVE  HookInv
<1>1. Subscriptions
  BY FS_EmptySet DEF HookInit, NoEffects, Subscriptions, Period
<1>2. CompShape(comp)
  BY DEF HookInit, CompShape, CompFields
<1>. QED BY <1>1, <1>2 DEF HookInit, HookInv, ManualStates

\* What the two invariants say once the effects have run.
LEMMA HookSettled ==
  ASSUME HookInv
  PROVE  OneTimerForSubscribers /\ LoadedUnlessManual
<1>. SUFFICES ASSUME Settled PROVE OneTimerForSubscribers /\ LoadedUnlessManual
  BY DEF OneTimerForSubscribers, LoadedUnlessManual
<1>1. /\ batch.deleted = {} /\ batch.fresh = {} /\ batch.ticked = {} /\ batch.retimed = {}
      /\ ToRun = {}
  BY DEF Settled, NoEffects, ToRun
<1>2. listeners = mounted
  BY <1>1 DEF HookInv, Subscriptions
<1>3. OneTimerForSubscribers
  BY <1>1, <1>2 DEF OneTimerForSubscribers, HookInv, Subscriptions, Period
<1>4. LoadedUnlessManual
  BY <1>1 DEF LoadedUnlessManual, HookInv, ManualStates, Ran
<1>. QED BY <1>3, <1>4

-----------------------------------------------------------------------------
\* The page fetches by itself.
Current == shown /\ (kind = "items" => refreshInterval # RefreshIntervalManual)

RowOf(c) == [no |-> fetchNo, cluster |-> c, of |-> activeNamespaces, filter |-> filter]

Asking ==
  \A r \in requests :
    /\ r.no = fetchNo /\ r.of = activeNamespaces /\ r.filter = filter
    /\ activeNamespaces # NoNamespaces /\ r.from \subseteq Clusters
    /\ kind = "items" => r.from = Clusters

\* No cluster is missing: what is not in the list is on its way.
Covered ==
  ~lost /\ activeNamespaces # NoNamespaces
    => \A c \in Clusters : RowOf(c) \in rows \/ \E r \in requests : c \in r.from

\* Nothing else is in the list, and it is sorted; the item pages keep the rows
\* of the call before until the new ones arrive.  A link to the page that is
\* shown changes the sort of the URL only.
NothingElse ==
  kind = "istio" \/ (requests = {} /\ ~lost)
    => /\ \A w \in rows : activeNamespaces # NoNamespaces
                            /\ \E c \in Clusters : w = RowOf(c)
       /\ rows # {} => rowSort = sort

InStep ==
  /\ Asking /\ Covered /\ NothingElse
  /\ "sort" \notin relinked => sort = urlSort

ReduxColumns ==
  /\ DOMAIN redux = Settings
  /\ \A s \in Settings : redux[s] \subseteq Listed(ValidIds[s])

ListInv ==
  /\ HookInv
  /\ kind \in {"items", "istio"} /\ shown \in BOOLEAN
  /\ shown /\ kind = "items" <=> "page" \in mounted
  /\ ~shown => rows = {} /\ requests = {}
  /\ Current => InStep
  /\ ReduxColumns /\ ColumnsAgree

-----------------------------------------------------------------------------
\* A call of updateListItems brings the page in step, whatever it showed.
LEMMA UpdatePutsInStep ==
  ASSUME NEW ns, NEW f, NEW old, UpdateListItems(ns, f, old), kind \in {"items", "istio"},
         kind' = kind, activeNamespaces' = ns, filter' = f,
         "sort" \notin relinked' => sort' = urlSort'
  PROVE  InStep'
<1>1. /\ fetchNo' = fetchNo + 1 /\ requests' = RequestsFor(ns, f) /\ lost' = FALSE
      /\ rows' = IF ns = NoNamespaces \/ kind = "istio" THEN {} ELSE old
  BY DEF UpdateListItems, CancelAll
<1>2. ns = NoNamespaces => requests' = {}
  BY <1>1 DEF RequestsFor
<1>3. ASSUME ns # NoNamespaces, kind = "items"
      PROVE  requests' = {[no |-> fetchNo + 1, from |-> Clusters, of |-> ns, filter |-> f]}
  BY <1>1, <1>3 DEF RequestsFor
<1>4. ASSUME ns # NoNamespaces, kind = "istio"
      PROVE  requests' = {[no |-> fetchNo + 1, from |-> {c}, of |-> ns, filter |-> f] :
                            c \in Clusters}
  <2>1. requests' = {[no |-> fetchNo + 1, from |-> s, of |-> ns, filter |-> f] :
                       s \in {{c} : c \in Clusters}}
    BY <1>1, <1>4 DEF RequestsFor
  <2>. QED BY <2>1
<1>5. Asking'
  BY <1>1, <1>2, <1>3, <1>4 DEF Asking
<1>6. Covered'
  <2>. SUFFICES ASSUME ns # NoNamespaces, NEW c \in Clusters
                PROVE  \E r \in requests' : c \in r.from
    BY DEF Covered
  <2>1. CASE kind = "items"
    BY <1>3, <2>1
  <2>2. CASE kind = "istio"
    <3>. DEFINE r == [no |-> fetchNo + 1, from |-> {c}, of |-> ns, filter |-> f]
    <3>1. r \in requests' /\ c \in r.from
      BY <1>4, <2>2
    <3>. QED BY <3>1
  <2>. QED BY <2>1, <2>2
<1>7. NothingElse'
  BY <1>1, <1>3 DEF NothingElse
<1>. QED BY <1>5, <1>6, <1>7 DEF InStep

\* A step that touches neither what the page shows nor what it waits for.
LEMMA PageStaysInStep ==
  ASSUME InStep, UNCHANGED <<kind, activeNamespaces, filter, sort, rowSort,
                             fetchNo, requests, rows, lost>>,
         "sort" \notin relinked' => sort' = urlSort'
  PROVE  InStep'
BY DEF InStep, Asking, Covered, NothingElse, RowOf

\* A render that asks for nothing.
LEMMA SortedUnlessResorts ==
  ASSUME Current, ~Resorts, kind \in {"items", "istio"}
  PROVE  sort = urlSort
BY DEF Current, Resorts, MustUpdate

\* An answer.
LEMMA AnswerStaysInStep ==
  ASSUME InStep, kind \in {"items", "istio"}, sort = urlSort, ~Resorts,
         NEW r \in requests, Answered(r)
  PROVE  InStep'
<1>. DEFINE new == {[no |-> r.no, cluster |-> c, of |-> r.of, filter |-> r.filter] :
                      c \in r.from}
<1>1. /\ requests' = requests \ {r} /\ rowSort' = sort /\ sort' = sort
      /\ rows' = IF kind = "items" THEN new ELSE rows \cup new
      /\ UNCHANGED <<kind, activeNamespaces, filter, urlSort, fetchNo, lost>>
  BY DEF Answered
<1>2. /\ r.no = fetchNo /\ r.of = activeNamespaces /\ r.filter = filter
      /\ activeNamespaces # NoNamespaces /\ r.from \subseteq Clusters
      /\ kind = "items" => r.from = Clusters
  BY DEF InStep, Asking
<1>3. new = {RowOf(c) : c \in r.from}
  BY <1>2 DEF RowOf
<1>. HIDE DEF new
<1>4. \A c \in Clusters : RowOf(c)' = RowOf(c)
  BY <1>1 DEF RowOf
<1>5. Asking'
  BY <1>1 DEF InStep, Asking
<1>6. Covered'
  <2>. SUFFICES ASSUME ~lost, NEW c \in Clusters
                PROVE  RowOf(c) \in rows' \/ \E q \in requests' : c \in q.from
    BY <1>1, <1>4 DEF Covered
  <2>1. CASE kind = "items"
    BY <1>1, <1>2, <1>3, <2>1
  <2>2. CASE kind = "istio"
    <3>1. RowOf(c) \in rows \/ \E q \in requests : c \in q.from
      BY <1>2 DEF InStep, Covered
    <3>2. ASSUME NEW q \in requests, c \in q.from, q = r
          PROVE  RowOf(c) \in new
      BY <1>3, <3>2
    <3>. QED BY <1>1, <2>2, <3>1, <3>2
  <2>. QED BY <2>1, <2>2
<1>7. NothingElse'
  <2>. SUFFICES ASSUME (kind = "istio" \/ (requests = {} /\ ~lost))'
                PROVE  /\ \A w \in rows' : \E c \in Clusters : w = RowOf(c)
                       /\ rowSort' = sort'
    BY <1>1, <1>2, <1>4 DEF NothingElse
  <2>1. \A w \in new : \E c \in Clusters : w = RowOf(c)
    BY <1>2, <1>3
  <2>2. kind = "istio" => \A w \in rows : \E c \in Clusters : w = RowOf(c)
    BY DEF InStep, NothingElse
  <2>. QED BY <1>1, <1>2, <2>1, <2>2
<1>. QED BY <1>1, <1>2, <1>5, <1>6, <1>7 DEF InStep

\* A failure.
LEMMA FailureStaysInStep ==
  ASSUME InStep, kind \in {"items", "istio"}, NEW r \in requests, Failed(r)
  PROVE  InStep'
<1>1. /\ requests' = requests \ {r} /\ lost' = TRUE
      /\ UNCHANGED <<kind, activeNamespaces, filter, urlSort, sort, rows, rowSort, fetchNo,
                     relinked>>
  BY DEF Failed
<1>2. \A c \in Clusters : RowOf(c)' = RowOf(c)
  BY <1>1 DEF RowOf
<1>. QED BY <1>1, <1>2 DEF InStep, Asking, Covered, NothingElse

-----------------------------------------------------------------------------
\* The columns of a page that is opened: the URL wins, unknown ids are dropped.
LEMMA SyncAgrees ==
  ASSUME ReduxColumns, NEW s \in Settings, NEW u
  PROVE  LET r == SyncColumns(s, u) IN
         /\ r.redux \subseteq Listed(ValidIds[s])
         /\ r.redux = IF r.url = Absent THEN {} ELSE Known(s, r.url)
<1>1. <<"absent", "absent">> \notin Listed(ValidIds[s])
  BY ListConstants DEF ValidIds, Settings, Listed
<1>2. redux[s] \subseteq Listed(ValidIds[s])
  BY DEF ReduxColumns
<1>3. redux[s] # Absent
  BY <1>1, <1>2 DEF Absent
<1>. QED BY <1>2, <1>3 DEF SyncColumns, Known

\* Columns of a page that stays, or of one that is gone.
LEMMA ColumnsStay ==
  ASSUME ReduxColumns, ColumnsAgree, UNCHANGED <<redux, url, kind>>, shown' => shown,
         "columns" \in relinked => "columns" \in relinked'
  PROVE  ReduxColumns' /\ ColumnsAgree'
BY DEF ReduxColumns, ColumnsAgree

\* A fetch, or none, of a page that may be in step.
LEMMA DidUpdateKeeps ==
  ASSUME ListInv, shown, NEW must \in BOOLEAN, NEW ns, NEW s,
         DidUpdate(must, ns, s), UNCHANGED <<kind, filter, rowSort>>,
         activeNamespaces' = ns, urlSort' = s,
         ~must /\ Current' => /\ Current /\ ns = activeNamespaces
                              /\ "sort" \notin relinked' => sort = s
  PROVE  Current' => InStep'
<1>. HAVE Current'
<1>1. CASE must
  BY <1>1, UpdatePutsInStep DEF DidUpdate, ListInv
<1>2. CASE ~must
  BY <1>2, PageStaysInStep DEF DidUpdate, NoUpdate, ListInv
<1>. QED BY <1>1, <1>2

\* A call by hand, with or without a render.
LEMMA ByHandKeeps ==
  ASSUME ListInv, shown, NEW f, UpdateByHand(f), filter' = f,
         UNCHANGED <<kind, shown, activeNamespaces, urlSort, refreshInterval>>
  PROVE  /\ Current' => InStep'
         /\ "columns" \in relinked => "columns" \in relinked'
<1>. DEFINE renders == kind = "istio" \/ activeNamespaces = NoNamespaces
<1>1. /\ UpdateListItems(activeNamespaces, f, rows)
      /\ sort' = IF renders /\ Resorts THEN urlSort ELSE sort
      /\ relinked' = IF renders THEN relinked \ {"sort"} ELSE relinked
  BY DEF UpdateByHand
<1>2. Current' => Current
  BY DEF Current
<1>3. ASSUME Current PROVE "sort" \notin relinked' => sort' = urlSort'
  BY <1>1, <1>3, SortedUnlessResorts DEF ListInv, InStep
<1>4. Current' => InStep'
  BY <1>1, <1>2, <1>3, UpdatePutsInStep DEF ListInv
<1>. QED BY <1>1, <1>4

LEMMA ListStep ==
  ASSUME ListInv, [Next]_vars
  PROVE  ListInv'
<1>. USE DEF ListInv
<1>1. ASSUME NEW i \in Intervals, NEW u \in Links, Enter(i, u) PROVE ListInv'
  <2>1. /\ ~shown /\ shown' = TRUE /\ kind' = kind /\ sort' = urlSort /\ urlSort' = urlSort
        /\ activeNamespaces' = activeNamespaces /\ filter' = filter
        /\ Commit({}, Tree, i) /\ Tree \in SUBSET Components /\ relinked' = {}
    BY <1>1, ListConstants DEF Enter, Tree
  <2>2. HookInv'
    BY <2>1, CommitKeeps
  <2>3. refreshInterval' = i /\ mounted' = mounted \cup Tree
    BY <2>1 DEF Commit
  <2>4. shown' /\ kind' = "items" <=> "page" \in mounted'
    BY <2>1, <2>3 DEF Tree
  <2>5. Current' => InStep'
    <3>. HAVE Current'
    <3>1. UpdateListItems(activeNamespaces, filter, rows)
      <4>1. kind = "items" => i # RefreshIntervalManual
        BY <2>1, <2>3 DEF Current
      <4>2. \/ kind = "istio" \/ RefreshIntervalManual \notin {refreshInterval, i}
            \/ MustUpdate(FALSE, FALSE, refreshInterval, i, sort)
        BY <4>1 DEF MustUpdate
      <4>. QED BY <1>1, <4>2 DEF Enter
    <3>. QED BY <2>1, <3>1, UpdatePutsInStep
  <2>6. ReduxColumns' /\ ColumnsAgree'
    <3>1. CASE kind = "items"
      <4>1. /\ url' = [s \in Settings |-> SyncColumns(s, u[s]).url]
            /\ redux' = [s \in Settings |-> SyncColumns(s, u[s]).redux]
        BY <1>1, <3>1 DEF Enter
      <4>. QED BY <4>1, SyncAgrees DEF ReduxColumns, ColumnsAgree
    <3>2. CASE kind = "istio"
      <4>1. redux' = redux
        BY <1>1, <3>2 DEF Enter
      <4>. QED BY <2>1, <3>2, <4>1 DEF ReduxColumns, ColumnsAgree
    <3>. QED BY <3>1, <3>2
  <2>. QED BY <2>1, <2>2, <2>4, <2>5, <2>6
<1>2. ASSUME NEW new \in SUBSET Components, Exit(new) PROVE ListInv'
  <2>1. /\ shown' = FALSE /\ kind' = kind /\ "page" \notin new
        /\ Commit(Tree, new, refreshInterval) /\ Tree \in SUBSET Components
        /\ requests' = {} /\ rows' = {} /\ redux' = redux
    BY <1>2, ListConstants DEF Exit, Tree, CancelAll
  <2>2. HookInv'
    BY <2>1, CommitKeeps DEF HookInv, Subscriptions
  <2>3. "page" \notin mounted'
    BY <2>1 DEF Commit, Tree
  <2>4. ReduxColumns' /\ ColumnsAgree'
    BY <2>1 DEF ReduxColumns, ColumnsAgree
  <2>. QED BY <2>1, <2>2, <2>3, <2>4 DEF Current
<1>3. ASSUME NEW c \in Components, OtherMounts(c) \/ OtherUnmounts(c) PROVE ListInv'
  <2>1. /\ c # "page" /\ UNCHANGED pageVars
        /\ \/ Commit({}, {c}, refreshInterval)
           \/ Commit({c}, {}, refreshInterval)
    BY <1>3 DEF OtherMounts, OtherUnmounts
  <2>2. HookInv'
    BY <2>1, CommitKeeps DEF HookInv, Subscriptions
  <2>3. refreshInterval' = refreshInterval /\ ("page" \in mounted' <=> "page" \in mounted)
    BY <2>1 DEF Commit
  <2>4. Current' => InStep'
    BY <2>1, <2>3, PageStaysInStep DEF Current, InStep, pageVars
  <2>5. ReduxColumns' /\ ColumnsAgree'
    BY <2>1, ColumnsStay DEF pageVars
  <2>. QED BY <2>1, <2>2, <2>3, <2>4, <2>5 DEF pageVars
<1>4. ASSUME NEW ns \in Selections \cup {NoNamespaces}, SelectNamespaces(ns) PROVE ListInv'
  <2>1. /\ activeNamespaces' = ns /\ UNCHANGED hookVars
        /\ relinked' = relinked \ {"sort"}
        /\ UNCHANGED <<kind, shown, filter, urlSort, rowSort, url, redux>>
    BY <1>4 DEF SelectNamespaces
  <2>2. HookInv' /\ refreshInterval' = refreshInterval /\ mounted' = mounted
    BY <2>1, HookStutters DEF hookVars
  <2>3. ReduxColumns' /\ ColumnsAgree'
    BY <2>1, ColumnsStay
  <2>4. CASE shown
    <3>. DEFINE must == kind = "istio" \/ MustUpdate(FALSE, TRUE, refreshInterval,
                                                     refreshInterval, urlSort)
    <3>1. DidUpdate(must, ns, urlSort) /\ must \in BOOLEAN
      BY <1>4, <2>4 DEF SelectNamespaces
    <3>2. Current' => must
      BY <2>1, <2>2 DEF Current, MustUpdate
    <3>. HIDE DEF must
    <3>3. Current' => InStep'
      BY <2>1, <2>4, <3>1, <3>2, DidUpdateKeeps
    <3>. QED BY <2>1, <2>2, <2>3, <2>4, <3>3
  <2>5. CASE ~shown
    <3>1. NoUpdate
      BY <1>4, <2>5 DEF SelectNamespaces
    <3>. QED BY <2>1, <2>2, <2>3, <2>5, <3>1 DEF NoUpdate, Current
  <2>. QED BY <2>4, <2>5
<1>5. ASSUME NEW f \in Filters, ChangeFilter(f) PROVE ListInv'
  <2>1. /\ shown /\ filter' = f /\ UpdateByHand(f) /\ UNCHANGED hookVars
        /\ UNCHANGED <<kind, shown, activeNamespaces, urlSort, rowSort, url, redux>>
    BY <1>5 DEF ChangeFilter
  <2>2. HookInv' /\ refreshInterval' = refreshInterval /\ mounted' = mounted
    BY <2>1, HookStutters DEF hookVars
  <2>3. /\ Current' => InStep'
        /\ "columns" \in relinked => "columns" \in relinked'
    BY <2>1, <2>2, ByHandKeeps
  <2>4. ReduxColumns' /\ ColumnsAgree'
    BY <2>1, <2>3, ColumnsStay
  <2>. QED BY <2>1, <2>2, <2>3, <2>4
<1>6. ASSUME NEW s \in Sorts, ChangeSort(s) PROVE ListInv'
  <2>. DEFINE must == IF kind = "istio" THEN sort # s
                      ELSE MustUpdate(FALSE, FALSE, refreshInterval, refreshInterval, s)
  <2>1. /\ shown /\ s # urlSort /\ urlSort' = s /\ DidUpdate(must, activeNamespaces, s)
        /\ UNCHANGED hookVars /\ must \in BOOLEAN /\ relinked' = relinked \ {"sort"}
        /\ UNCHANGED <<kind, shown, activeNamespaces, filter, rowSort, url, redux>>
    BY <1>6 DEF ChangeSort, MustUpdate
  <2>2. HookInv' /\ refreshInterval' = refreshInterval /\ mounted' = mounted
    BY <2>1, HookStutters DEF hookVars
  <2>3. ReduxColumns' /\ ColumnsAgree'
    BY <2>1, ColumnsStay
  <2>4. ~must /\ Current' => Current /\ sort = s
    BY <2>1, <2>2 DEF Current, MustUpdate
  <2>. HIDE DEF must
  <2>5. Current' => InStep'
    BY <2>1, <2>4, DidUpdateKeeps
  <2>. QED BY <2>1, <2>2, <2>3, <2>5
<1>7. ASSUME NEW i \in Intervals, ChangeInterval(i) PROVE ListInv'
  <2>. DEFINE must == MustUpdate(FALSE, FALSE, refreshInterval, i, urlSort)
  <2>1. /\ shown /\ kind = "items" /\ SetRefreshInterval(i)
        /\ DidUpdate(must, activeNamespaces, urlSort) /\ must \in BOOLEAN
        /\ relinked' = relinked \ {"sort"}
        /\ UNCHANGED <<kind, shown, activeNamespaces, filter, urlSort, rowSort, url, redux>>
    BY <1>7 DEF ChangeInterval, MustUpdate
  <2>2. HookInv' /\ refreshInterval' = i /\ mounted' = mounted
    BY <2>1, IntervalKeeps DEF SetRefreshInterval
  <2>3. ReduxColumns' /\ ColumnsAgree'
    BY <2>1, ColumnsStay
  <2>4. ~must /\ Current' => Current /\ sort = urlSort
    BY <2>1, <2>2 DEF Current, MustUpdate
  <2>. HIDE DEF must
  <2>5. Current' => InStep'
    BY <2>1, <2>4, DidUpdateKeeps
  <2>. QED BY <2>1, <2>2, <2>3, <2>5
<1>8. CASE Tick
  <2>. DEFINE must == "page" \in mounted /\ comp'["page"].last # comp["page"].last
  <2>1. /\ DidUpdate(must, activeNamespaces, urlSort) /\ must \in BOOLEAN
        /\ relinked' = IF must THEN relinked \ {"sort"} ELSE relinked
        /\ UNCHANGED <<kind, shown, activeNamespaces, filter, urlSort, rowSort, url, redux>>
    BY <1>8 DEF Tick
  <2>2. HookInv' /\ refreshInterval' = refreshInterval /\ mounted' = mounted
    <3>1. TimerFires \/ TriggerRefresh
      BY <1>8 DEF Tick
    <3>2. /\ UNCHANGED <<refreshInterval, mounted>>
          /\ \/ TickUnheard \/ TickBatched
             \/ \E first, last \in Called : TickOneByOne(first, last)
      BY <3>1 DEF TimerFires, TriggerRefresh, DoTick
    <3>. QED BY <3>2, TickKeeps
  <2>3. ReduxColumns' /\ ColumnsAgree'
    BY <2>1, ColumnsStay
  <2>4. must => shown
    OBVIOUS
  <2>5. Current' => Current
    BY <2>1, <2>2 DEF Current
  <2>. HIDE DEF must
  <2>6. Current' => InStep'
    BY <2>1, <2>5, DidUpdateKeeps DEF Current, InStep
  <2>7. ~shown => rows' = rows /\ requests' = requests
    BY <2>1, <2>4 DEF DidUpdate, NoUpdate
  <2>. QED BY <2>1, <2>2, <2>3, <2>6, <2>7
<1>9. CASE RefreshButton
  <2>1. /\ shown /\ UpdateByHand(filter) /\ UNCHANGED hookVars
        /\ UNCHANGED <<kind, shown, activeNamespaces, filter, urlSort, rowSort, url, redux>>
    BY <1>9 DEF RefreshButton
  <2>2. HookInv' /\ refreshInterval' = refreshInterval /\ mounted' = mounted
    BY <2>1, HookStutters DEF hookVars
  <2>3. /\ Current' => InStep'
        /\ "columns" \in relinked => "columns" \in relinked'
    BY <2>1, <2>2, ByHandKeeps
  <2>4. ReduxColumns' /\ ColumnsAgree'
    BY <2>1, <2>3, ColumnsStay
  <2>. QED BY <2>1, <2>2, <2>3, <2>4
<1>10. CASE Effects
  <2>1. RunEffects /\ UNCHANGED pageVars
    BY <1>10 DEF Effects
  <2>2. HookInv' /\ refreshInterval' = refreshInterval /\ mounted' = mounted
    BY <2>1, EffectsKeep DEF RunEffects
  <2>3. Current' => InStep'
    BY <2>1, <2>2, PageStaysInStep DEF Current, InStep, pageVars
  <2>4. ReduxColumns' /\ ColumnsAgree'
    BY <2>1, ColumnsStay DEF pageVars
  <2>. QED BY <2>1, <2>2, <2>3, <2>4 DEF pageVars
<1>11. ASSUME NEW r \in requests, Answered(r) \/ Failed(r) PROVE ListInv'
  <2>1. /\ shown /\ UNCHANGED hookVars
        /\ UNCHANGED <<kind, shown, activeNamespaces, filter, urlSort, url, redux>>
        /\ "columns" \in relinked => "columns" \in relinked'
    BY <1>11 DEF Answered, Failed
  <2>2. HookInv' /\ refreshInterval' = refreshInterval /\ mounted' = mounted
    BY <2>1, HookStutters DEF hookVars
  <2>3. ReduxColumns' /\ ColumnsAgree'
    BY <2>1, ColumnsStay
  <2>4. Current' => Current
    BY <2>1, <2>2 DEF Current
  <2>5. Current' => InStep'
    <3>. HAVE Current'
    <3>1. CASE Failed(r)
      BY <2>4, <3>1, FailureStaysInStep
    <3>2. CASE Answered(r) /\ ~Resorts
      BY <2>4, <3>2, SortedUnlessResorts, AnswerStaysInStep
    <3>3. CASE Answered(r) /\ Resorts
      <4>. DEFINE new == {[no |-> r.no, cluster |-> c, of |-> r.of, filter |-> r.filter] :
                            c \in r.from}
                  all == IF kind = "items" THEN new ELSE rows \cup new
      <4>1. UpdateListItems(activeNamespaces, filter, all) /\ sort' = urlSort
        BY <3>3 DEF Answered
      <4>. HIDE DEF all
      <4>. QED BY <2>1, <4>1, UpdatePutsInStep
    <3>. QED BY <1>11, <3>1, <3>2, <3>3
  <2>. QED BY <2>1, <2>2, <2>3, <2>5
<1>12. ASSUME NEW hide \in SUBSET ValidIds.hidden, NEW o \in Orders, ApplyColumns(hide, o)
       PROVE  ListInv'
  <2>. DEFINE new == [hidden |-> o \cap Listed(hide), order |-> o]
  <2>1. /\ shown /\ redux' = new /\ UNCHANGED hookVars /\ relinked' = {}
        /\ url' = [s \in Settings |-> IF new[s] = {} THEN Absent ELSE new[s]]
        /\ DidUpdate(Resorts, activeNamespaces, urlSort)
        /\ UNCHANGED <<kind, shown, activeNamespaces, filter, urlSort, rowSort>>
    BY <1>12 DEF ApplyColumns
  <2>2. HookInv' /\ refreshInterval' = refreshInterval /\ mounted' = mounted
    BY <2>1, HookStutters DEF hookVars
  <2>3. \A s \in Settings : new[s] \subseteq Listed(ValidIds[s])
    BY DEF Settings, ValidIds, Listed, Orders
  <2>4. \A s \in Settings : <<"absent", "absent">> \notin Listed(ValidIds[s])
    BY ListConstants DEF Settings, ValidIds, Listed
  <2>5. DOMAIN new = Settings
    BY DEF Settings
  <2>. HIDE DEF new
  <2>6. \A s \in Settings : new[s] # Absent
    BY <2>3, <2>4 DEF Absent
  <2>7. ReduxColumns' /\ ColumnsAgree'
    BY <2>1, <2>3, <2>5, <2>6 DEF ReduxColumns, ColumnsAgree, Known
  <2>8. Current' => Current
    BY <2>1, <2>2 DEF Current
  <2>9. Resorts \in BOOLEAN /\ (~Resorts /\ Current => sort = urlSort)
    BY SortedUnlessResorts DEF Resorts, MustUpdate
  <2>10. Current' => InStep'
    BY <2>1, <2>8, <2>9, DidUpdateKeeps
  <2>. QED BY <2>1, <2>2, <2>7, <2>10
<1>13. CASE ResetColumns
  <2>1. /\ shown /\ redux' = [s \in Settings |-> {}] /\ UNCHANGED hookVars /\ relinked' = {}
        /\ url' = [s \in Settings |-> Absent]
        /\ DidUpdate(Resorts, activeNamespaces, urlSort)
        /\ UNCHANGED <<kind, shown, activeNamespaces, filter, urlSort, rowSort>>
    BY <1>13 DEF ResetColumns
  <2>2. HookInv' /\ refreshInterval' = refreshInterval /\ mounted' = mounted
    BY <2>1, HookStutters DEF hookVars
  <2>3. ReduxColumns' /\ ColumnsAgree'
    BY <2>1 DEF ReduxColumns, ColumnsAgree
  <2>4. Current' => Current
    BY <2>1, <2>2 DEF Current
  <2>5. Resorts \in BOOLEAN /\ (~Resorts /\ Current => sort = urlSort)
    BY SortedUnlessResorts DEF Resorts, MustUpdate
  <2>6. Current' => InStep'
    BY <2>1, <2>4, <2>5, DidUpdateKeeps
  <2>. QED BY <2>1, <2>2, <2>3, <2>6
<1>14. CASE UNCHANGED vars
  <2>1. UNCHANGED hookVars /\ UNCHANGED pageVars
    BY <1>14 DEF vars
  <2>2. HookInv' /\ refreshInterval' = refreshInterval /\ mounted' = mounted
    BY <2>1, HookStutters DEF hookVars
  <2>3. Current' => InStep'
    BY <2>1, <2>2, PageStaysInStep DEF Current, InStep, pageVars
  <2>4. ReduxColumns' /\ ColumnsAgree'
    BY <2>1, ColumnsStay DEF pageVars
  <2>. QED BY <2>1, <2>2, <2>3, <2>4 DEF pageVars
<1>15. ASSUME NEW u \in Links, NEW s \in Sorts, Relink(u, s) PROVE ListInv'
  <2>1. /\ shown /\ urlSort' = s /\ relinked' = {"columns", "sort"} /\ NoUpdate
        /\ UNCHANGED hookVars
        /\ UNCHANGED <<kind, shown, activeNamespaces, filter, sort, rowSort, redux>>
    BY <1>15 DEF Relink
  <2>2. HookInv' /\ refreshInterval' = refreshInterval /\ mounted' = mounted
    BY <2>1, HookStutters DEF hookVars
  <2>3. ReduxColumns' /\ ColumnsAgree'
    BY <2>1 DEF ReduxColumns, ColumnsAgree
  <2>4. Current' => InStep'
    BY <2>1, <2>2, PageStaysInStep DEF Current, NoUpdate
  <2>. QED BY <2>1, <2>2, <2>3, <2>4
<1>. HIDE DEF ListInv
<1>. QED BY <1>1, <1>2, <1>3, <1>4, <1>5, <1>6, <1>7, <1>8, <1>9, <1>10, <1>11,
           <1>12, <1>13, <1>14, <1>15 DEF Next

LEMMA ListStarts == Init => ListInv
<1>. SUFFICES ASSUME Init PROVE ListInv
  OBVIOUS
<1>1. HookInv /\ mounted = {}
  BY HookStarts DEF Init, HookInit
<1>2. ReduxColumns /\ ColumnsAgree
  BY DEF Init, ReduxColumns, ColumnsAgree
<1>. QED BY <1>1, <1>2 DEF Init, ListInv, Current

LEMMA ListAlways == Spec => []ListInv
<1>1. ListInv /\ [Next]_vars => ListInv'
  BY ListStep
<1>. QED BY ListStarts, <1>1, PTL DEF Spec

-----------------------------------------------------------------------------
\* A page in step that waits for nothing shows one row for each cluster.
LEMMA InStepMatches ==
  ASSUME InStep, requests = {}, ~lost
  PROVE  /\ {<<r.cluster, r.of, r.filter>> : r \in rows} =
              IF activeNamespaces = NoNamespaces THEN {}
              ELSE Clusters \X {activeNamespaces} \X {filter}
         /\ Cardinality(rows) = IF activeNamespaces = NoNamespaces THEN 0
                                ELSE Cardinality(Clusters)
         /\ rows # {} /\ "sort" \notin relinked => rowSort = urlSort
<1>1. rows # {} /\ "sort" \notin relinked => rowSort = urlSort
  BY DEF InStep, NothingElse
<1>2. CASE activeNamespaces = NoNamespaces
  <2>1. rows = {}
    BY <1>2 DEF InStep, NothingElse
  <2>. QED BY <1>1, <1>2, <2>1, FS_EmptySet
<1>3. CASE activeNamespaces # NoNamespaces
  <2>1. \A w : w \in rows <=> \E c \in Clusters : w = RowOf(c)
    BY <1>3 DEF InStep, NothingElse, Covered
  <2>2. \A c : /\ RowOf(c).cluster = c /\ RowOf(c).of = activeNamespaces
               /\ RowOf(c).filter = filter
    BY DEF RowOf
  <2>3. {<<r.cluster, r.of, r.filter>> : r \in rows}
          = {<<c, activeNamespaces, filter>> : c \in Clusters}
    BY <2>1, <2>2
  <2>4. {<<c, activeNamespaces, filter>> : c \in Clusters}
          = Clusters \X {activeNamespaces} \X {filter}
    OBVIOUS
  <2>5. Cardinality(rows) = Cardinality(Clusters)
    <3>. DEFINE f == [c \in Clusters |-> RowOf(c)]
    <3>1. f \in [Clusters -> rows]
      BY <2>1
    <3>2. \A c, d \in Clusters : f[c] = f[d] => c = d
      BY <2>2
    <3>3. \A w \in rows : \E c \in Clusters : f[c] = w
      BY <2>1
    <3>. HIDE DEF f
    <3>4. f \in Injection(Clusters, rows) /\ f \in Surjection(Clusters, rows)
      BY <3>1, <3>2, <3>3 DEF Injection, Surjection, IsInjective
    <3>. QED BY <3>4, ListConstants, FS_Surjection
  <2>. QED BY <1>1, <1>3, <2>3, <2>4, <2>5
<1>. QED BY <1>2, <1>3

\* The shared timer of the refresh hook: for any components that come and go,
\* each is counted once and one timer runs with the interval of redux.
THEOREM HookTimer == Spec => []OneTimerForSubscribers
<1>1. ListInv => OneTimerForSubscribers
  BY HookSettled DEF ListInv
<1>. QED BY ListAlways, <1>1, PTL

\* useManualRefreshState hides the content of a component only while the
\* interval is manual and nobody refreshed, wherever the interval comes from.
THEOREM HookLoads == Spec => []LoadedUnlessManual
<1>1. ListInv => LoadedUnlessManual
  BY HookSettled DEF ListInv
<1>. QED BY ListAlways, <1>1, PTL

\* A list page at rest shows exactly the rows of all clusters for the
\* namespaces and the filter selected, in the order of the URL unless a link to
\* the page came after the last render.
THEOREM ListShowsSelection == Spec => []ListMatchesSelection
<1>1. ListInv => ListMatchesSelection
  BY InStepMatches DEF ListInv, Current, ListMatchesSelection
<1>. QED BY ListAlways, <1>1, PTL

\* The Istio page never mixes the rows of two calls of updateListItems.
THEOREM ListOfOneCall == Spec => []OneCallAtATime
<1>1. ListInv => OneCallAtATime
  <2>. SUFFICES ASSUME ListInv, kind = "istio", NEW r \in rows PROVE r.no = fetchNo
    BY DEF OneCallAtATime
  <2>1. InStep
    BY DEF ListInv, Current
  <2>2. PICK c \in Clusters : r = RowOf(c)
    BY <2>1 DEF InStep, NothingElse
  <2>. QED BY <2>2 DEF RowOf
<1>. QED BY ListAlways, <1>1, PTL

\* Redux and the URL agree on the hidden columns and on the order of columns
\* from the mount of the page on, until a link to the page shown changes the
\* URL alone; redux never hides the name column.
THEOREM ListColumns == Spec => []ColumnsAgree
<1>1. ListInv => ColumnsAgree
  BY DEF ListInv
<1>. QED BY ListAlways, <1>1, PTL
=============================================================================
