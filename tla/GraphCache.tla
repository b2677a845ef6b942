----------------------------- MODULE GraphCache -----------------------------
(***************************************************************************)
(* The per-session graph cache of graph/graph_cache.go: one CachedGraph    *)
(* per browser session, under a memory limit enforced by evicting the      *)
(* least recently accessed sessions.                                       *)
(*                                                                         *)
(* CachedGraph objects are shared by pointer (a background refresh keeps   *)
(* the pointer it looked up while a request updates the same object), so   *)
(* they live in a heap and the cache maps a session to a heap cell.        *)
(* LastAccessed is kept as the object's age, the time since it was last    *)
(* retrieved, saturated at AgeCap.  Every method of GraphCacheImpl runs    *)
(* under the cache's mutex and is one atomic step here.                    *)
(***************************************************************************)
EXTENDS Integers, FiniteSets, FiniteSetsExt

CONSTANTS
  Sessions,          \* session ids, from the browser cookie
  Graphs,            \* heap cells for CachedGraph objects
  NoGraph,           \* "session not in the map"
  Options,           \* graph options that graphOptionsMatch tells apart
  Intervals,         \* requested refresh intervals (all > 0)
  Sizes,             \* possible values of estimatedMB
  MaxCacheMemoryMB,  \* GraphCacheConfig.MaxCacheMemoryMB
  AgeCap             \* ages saturate here (above InactivityTimeout)

ASSUME CacheConstants ==
  /\ Sessions # {} /\ Options # {} /\ Intervals # {}
  /\ Sizes \subseteq Nat /\ Sizes # {}
  /\ \E m \in Sizes : \A n \in Sizes : n <= m   \* they are machine numbers
  /\ MaxCacheMemoryMB \in Nat \ {0}
  /\ AgeCap \in Nat \ {0}
  /\ NoGraph \notin Graphs

VARIABLES
  sessionGraphs,     \* GraphCacheImpl.sessionGraphs
  heap               \* the CachedGraph objects

cacheVars == <<sessionGraphs, heap>>

(***************************************************************************)
(* owner is the session whose request built the generator that produced    *)
(* the TrafficMap: it stands for the credentials the graph was made with.  *)
(***************************************************************************)
CachedGraph ==
  [owner : Sessions, options : Options, interval : Intervals,
   age : 0..AgeCap, mb : Sizes]

CacheTypeOK ==
  /\ sessionGraphs \in [Sessions -> Graphs \cup {NoGraph}]
  /\ heap \in [Graphs -> CachedGraph]

Cached == {s \in Sessions : sessionGraphs[s] # NoGraph}

MemoryOf(S) == MapThenSumSet(LAMBDA s : heap[sessionGraphs[s]].mb, S)

TotalMemoryMB == MemoryOf(Cached)

Age(s) == heap[sessionGraphs[s]].age
-----------------------------------------------------------------------------
\* Faulty: the order reversed.
NewestFirst ==
  {q \in [1..Cardinality(Cached) -> Cached] :
     /\ \A i, j \in DOMAIN q : q[i] = q[j] => i = j
     /\ \A i, j \in DOMAIN q : i < j => Age(q[i]) <= Age(q[j])}

\* The cached sessions from the oldest access on.  sort.Slice is not stable
\* and map iteration is random, so sessions of one age come in any order.
OldestFirst ==
  {q \in [1..Cardinality(Cached) -> Cached] :
     /\ \A i, j \in DOMAIN q : q[i] = q[j] => i = j
     /\ \A i, j \in DOMAIN q : i < j => Age(q[i]) >= Age(q[j])}

\* Faulty: only the oldest entry goes.
EvictOldestOnly(targetMB) == {{q[i] : i \in DOMAIN q \cap {1}} : q \in OldestFirst}

\* Faulty: stops 1 MB short of the target.
EvictTooLittle(targetMB) ==
  {{q[i] : i \in {k \in DOMAIN q : MemoryOf({q[j] : j \in 1..(k-1)}) + 1 < targetMB}}
     : q \in OldestFirst}

(***************************************************************************)
(* evictLRU(targetMB) walks that list and breaks once targetMB is freed:   *)
(* an entry goes exactly when the entries before it freed less.  The       *)
(* result is the set of victim sets the possible orders give.              *)
(***************************************************************************)
EvictLRU(targetMB) ==
  {{q[i] : i \in {k \in DOMAIN q : MemoryOf({q[j] : j \in 1..(k-1)}) < targetMB}}
     : q \in OldestFirst}

(***************************************************************************)
(* checkMemoryLimits: the old graph of the same session is subtracted from *)
(* the projected memory, but is still a candidate of evictLRU.             *)
(***************************************************************************)
CheckMemoryLimits(s, mb) ==
  LET old       == IF s \in Cached THEN heap[sessionGraphs[s]].mb ELSE 0
      projected == TotalMemoryMB - old + mb
  IN  IF projected > MaxCacheMemoryMB
      THEN EvictLRU(projected - MaxCacheMemoryMB)
      ELSE {{}}

\* SetSessionGraph of an object already in cell g, of size mb.
SetSessionGraph(s, g, mb) ==
  \E E \in CheckMemoryLimits(s, mb) :
     sessionGraphs' = [x \in Sessions |-> IF x = s THEN g
                                          ELSE IF x \in E THEN NoGraph
                                          ELSE sessionGraphs[x]]

\* GetSessionGraph of a session that is in the map: LastAccessed = now.
Touch(s) == heap' = [heap EXCEPT ![sessionGraphs[s]].age = 0]

Evict(s) == sessionGraphs' = [sessionGraphs EXCEPT ![s] = NoGraph]

Clear == sessionGraphs' = [s \in Sessions |-> NoGraph]

\* Time passes: every graph was last accessed longer ago.
Older(h) == [g \in Graphs |-> [h[g] EXCEPT !.age = IF @ < AgeCap THEN @ + 1 ELSE @]]

CacheInit ==
  /\ sessionGraphs = [s \in Sessions |-> NoGraph]
  /\ heap \in [Graphs -> {CHOOSE c \in CachedGraph : TRUE}]
-----------------------------------------------------------------------------
(***************************************************************************)
(* The cache on its own: any caller stores, retrieves or drops graphs in   *)
(* any order.  A stored graph carries any access age: a request stores a   *)
(* graph accessed now, a refresh one that keeps the time it read earlier.  *)
(***************************************************************************)
Store(s) ==
  \E g \in Graphs \ {sessionGraphs[x] : x \in Sessions}, c \in CachedGraph :
     /\ c.owner = s
     /\ heap' = [heap EXCEPT ![g] = c]
     /\ SetSessionGraph(s, g, c.mb)

GetSessionGraph(s) == s \in Cached /\ Touch(s) /\ UNCHANGED sessionGraphs

Remove(s) == s \in Cached /\ Evict(s) /\ UNCHANGED heap

RemoveAll == Clear /\ UNCHANGED heap

Tick == heap' = Older(heap) /\ UNCHANGED sessionGraphs

CacheNext ==
  \/ \E s \in Sessions : Store(s) \/ GetSessionGraph(s) \/ Remove(s)
  \/ RemoveAll
  \/ Tick

CacheSpec == CacheInit /\ [][CacheNext]_cacheVars
-----------------------------------------------------------------------------
LargestSize == Max(Sizes \cup {0})

\* The limit is soft: whatever is stored and however graphs are replaced, the
\* overshoot checkMemoryLimits leaves behind is at most one graph, and it
\* does not build up over repeated replacements.
MemoryOvershootBounded == TotalMemoryMB <= MaxCacheMemoryMB + LargestSize

\* A session that was not cached gets its graph stored: checkMemoryLimits
\* brings the total under the limit, also when it starts above it, unless
\* that one graph is too large on its own (then it is the only one left).
InsertRestoresLimit ==
  [][\A s \in Sessions :
       s \notin Cached /\ s \in Cached'
         => TotalMemoryMB' <= MaxCacheMemoryMB \/ Cached' = {s}]_cacheVars

\* evictLRU takes the least recently used: when storing a graph drops other
\* sessions, none of them was accessed after a session that stays, and
\* keeping the most recent of them would not have fitted.
OnlyLeastRecentEvicted ==
  [][\A s \in Sessions :
       LET gone == (Cached \ Cached') \ {s}
           kept == (Cached \cap Cached') \ {s}
       IN  sessionGraphs'[s] \notin {sessionGraphs[s], NoGraph} /\ gone # {} =>
             /\ \A e \in gone, k \in kept : Age(e) >= Age(k)
             /\ \E e \in gone :
                  /\ \A x \in gone : Age(x) >= Age(e)
                  /\ TotalMemoryMB' + heap[sessionGraphs[e]].mb > MaxCacheMemoryMB]_cacheVars

\* What the comment above checkMemoryLimits claims: "ensures we don't exceed
\* memory limits".  Every size is at most the limit.
MemoryWithinLimit == TotalMemoryMB <= MaxCacheMemoryMB
=============================================================================
