-------------------------- MODULE ExpirationStore --------------------------
(***************************************************************************)
(* store/expiration_store.go over store/threadsafe_store.go, the store     *)
(* behind most of Kiali's caches: keys and their deadlines are kept in two *)
(* stores, each with its own lock, and a background goroutine removes the  *)
(* keys whose deadline has passed.                                         *)
(*                                                                         *)
(* Set, Remove and Replace touch the two stores one after the other with   *)
(* nothing held in between, and so does the background goroutine: each     *)
(* touch is a step.  The map given to Replace becomes the data of the      *)
(* wrapped Store and is ranged over without its lock.  Values are left     *)
(* out; ttl > 0.                                                           *)
(***************************************************************************)
EXTENDS Naturals, FiniteSets

CONSTANTS
  Keys,
  Writers,           \* callers of Set, Remove and Replace
  NoKey,
  MaxWrites          \* calls of a behaviour (bound)

ASSUME StoreConstants ==
  /\ NoKey \notin Keys
  /\ MaxWrites \in Nat

VARIABLES
  data,              \* keys of the wrapped Store
  keyTTLs,           \* deadline of a key: none, still running, or passed
  writer,            \* the calls in progress
  sweep,             \* the goroutine of checkAndRemoveExpiredKeys
  ctxDone,           \* the store's context is done
  budget             \* calls still to come

vars == <<data, keyTTLs, writer, sweep, ctxDone, budget>>

\* pc is what is left to do to keyTTLs: set deadlines, drop them, drop all;
\* ranges: a Replace over a map that is the data of the wrapped Store.
Writer ==
  [pc : {"idle", "track", "untrack", "clear"}, keys : SUBSET Keys, ranges : BOOLEAN]

Sweep ==
  [pc : {"wait", "scan", "remove", "untrack", "clear", "stopped"},
   todo : SUBSET Keys, key : Keys \cup {NoKey}]

\* The variables range over the values the Go declarations allow.
TypeOK ==
  /\ data \in SUBSET Keys
  /\ keyTTLs \in [Keys -> {"none", "running", "passed"}]
  /\ writer \in [Writers -> Writer]
  /\ sweep \in Sweep
  /\ ctxDone \in BOOLEAN
  /\ budget \in 0..MaxWrites

IdleWriter == [pc |-> "idle", keys |-> {}, ranges |-> FALSE]
Waiting == [pc |-> "wait", todo |-> {}, key |-> NoKey]

Init ==
  /\ data = {}
  /\ keyTTLs = [k \in Keys |-> "none"]
  /\ writer = [w \in Writers |-> IdleWriter]
  /\ sweep = Waiting
  /\ ctxDone = FALSE
  /\ budget = MaxWrites

Deadlines(S, d) == keyTTLs' = [k \in Keys |-> IF k \in S THEN d ELSE keyTTLs[k]]
-----------------------------------------------------------------------------
\* The calls in progress when the keys of the wrapped Store's map become d: a
\* Replace that ranges over it misses keys that go, and may meet new ones.
Ranging(d) ==
  {[v \in Writers |-> IF writer[v].ranges
                      THEN [writer[v] EXCEPT !.keys = (@ \cap d) \cup more]
                      ELSE writer[v]] : more \in SUBSET (d \ data)}

\* The same when the wrapped Store gets another map.
Replaced == [v \in Writers |-> [writer[v] EXCEPT !.ranges = FALSE]]

\* The first half of a call by w: the wrapped Store becomes d, what is left is
\* left, and others are the calls in progress.
Begin(w, d, left, others) ==
  /\ writer[w].pc = "idle"
  /\ budget > 0
  /\ data' = d
  /\ writer' = [others EXCEPT ![w] = left]
  /\ budget' = budget - 1
  /\ UNCHANGED <<keyTTLs, sweep, ctxDone>>

Left(pc, keys, ranges) == [pc |-> pc, keys |-> keys, ranges |-> ranges]

\* Faulty: Replace takes the deadlines of all its items away.
ReplaceUntracks(w, items) == Begin(w, items, Left("untrack", items, FALSE), Replaced)

Set(w, k) ==
  LET d == data \cup {k}
  IN  \E others \in Ranging(d) : Begin(w, d, Left("track", {k}, FALSE), others)
Remove(w, k) ==
  LET d == data \ {k}
  IN  \E others \in Ranging(d) : Begin(w, d, Left("untrack", {k}, FALSE), others)
Replace(w, items) == Begin(w, items, Left("track", items, TRUE), Replaced)
ReplaceNil(w) == Begin(w, {}, Left("clear", {}, FALSE), Replaced)

\* keyTTLs.Set of one key; Replace goes on with the next, in map order.
Track(w) ==
  /\ writer[w].pc = "track"
  /\ \/ /\ writer[w].keys = {}
        /\ writer' = [writer EXCEPT ![w] = IdleWriter]
        /\ UNCHANGED keyTTLs
     \/ \E k \in writer[w].keys :
          /\ Deadlines({k}, "running")
          /\ writer' = [writer EXCEPT ![w].keys = @ \ {k}]
  /\ UNCHANGED <<data, sweep, ctxDone, budget>>

Untrack(w) ==
  /\ writer[w].pc = "untrack"
  /\ Deadlines(writer[w].keys, "none")
  /\ writer' = [writer EXCEPT ![w] = IdleWriter]
  /\ UNCHANGED <<data, sweep, ctxDone, budget>>

ClearTTLs(w) ==
  /\ writer[w].pc = "clear"
  /\ Deadlines(Keys, "none")
  /\ writer' = [writer EXCEPT ![w] = IdleWriter]
  /\ UNCHANGED <<data, sweep, ctxDone, budget>>

WriterStep(w) == Track(w) \/ Untrack(w) \/ ClearTTLs(w)
-----------------------------------------------------------------------------
\* The check interval is over: s.Keys().
Wake ==
  /\ sweep.pc = "wait"
  /\ sweep' = [sweep EXCEPT !.pc = "scan", !.todo = data]
  /\ UNCHANGED <<data, keyTTLs, writer, ctxDone, budget>>

\* Faulty: a key without a deadline ends the scan.
LookStops ==
  /\ sweep.pc = "scan"
  /\ \E k \in sweep.todo :
       sweep' = [sweep EXCEPT !.todo = IF keyTTLs[k] = "none" THEN {} ELSE @ \ {k},
                              !.pc = IF keyTTLs[k] = "passed" THEN "remove" ELSE "scan",
                              !.key = IF keyTTLs[k] = "passed" THEN k ELSE NoKey]
  /\ UNCHANGED <<data, keyTTLs, writer, ctxDone, budget>>

\* keyTTLs.Get(key): a key that has no deadline, or one still running, stays.
Look ==
  /\ sweep.pc = "scan"
  /\ \E k \in sweep.todo :
       sweep' = [sweep EXCEPT !.todo = @ \ {k},
                              !.pc = IF keyTTLs[k] = "passed" THEN "remove" ELSE "scan",
                              !.key = IF keyTTLs[k] = "passed" THEN k ELSE NoKey]
  /\ UNCHANGED <<data, keyTTLs, writer, ctxDone, budget>>

\* s.Remove(key), in its two steps.
SweepRemove ==
  /\ sweep.pc = "remove"
  /\ data' = data \ {sweep.key}
  /\ writer' \in Ranging(data \ {sweep.key})
  /\ sweep' = [sweep EXCEPT !.pc = "untrack"]
  /\ UNCHANGED <<keyTTLs, ctxDone, budget>>

SweepUntrack ==
  /\ sweep.pc = "untrack"
  /\ Deadlines({sweep.key}, "none")
  /\ sweep' = [sweep EXCEPT !.pc = "scan", !.key = NoKey]
  /\ UNCHANGED <<data, writer, ctxDone, budget>>

Scanned ==
  /\ sweep.pc = "scan"
  /\ sweep.todo = {}
  /\ sweep' = Waiting
  /\ UNCHANGED <<data, keyTTLs, writer, ctxDone, budget>>

\* ctx.Done(): s.Replace(nil), in its two steps, and the goroutine returns.
SweepEnds ==
  /\ sweep.pc = "wait"
  /\ ctxDone
  /\ data' = {}
  /\ writer' = Replaced
  /\ sweep' = [sweep EXCEPT !.pc = "clear"]
  /\ UNCHANGED <<keyTTLs, ctxDone, budget>>

SweepEnded ==
  /\ sweep.pc = "clear"
  /\ Deadlines(Keys, "none")
  /\ sweep' = [sweep EXCEPT !.pc = "stopped"]
  /\ UNCHANGED <<data, writer, ctxDone, budget>>

SweepStep ==
  Wake \/ Look \/ SweepRemove \/ SweepUntrack \/ Scanned \/ SweepEnds \/ SweepEnded
-----------------------------------------------------------------------------
\* ttl has gone by since the deadline of k was set.
DeadlinePasses(k) ==
  /\ keyTTLs[k] = "running"
  /\ Deadlines({k}, "passed")
  /\ UNCHANGED <<data, writer, sweep, ctxDone, budget>>

Cancel ==
  /\ ~ctxDone
  /\ ctxDone' = TRUE
  /\ UNCHANGED <<data, keyTTLs, writer, sweep, budget>>

Next ==
  \/ \E w \in Writers, k \in Keys : Set(w, k) \/ Remove(w, k)
  \/ \E w \in Writers, items \in SUBSET Keys : Replace(w, items)
  \/ \E w \in Writers : ReplaceNil(w) \/ WriterStep(w)
  \/ SweepStep
  \/ \E k \in Keys : DeadlinePasses(k)
  \/ Cancel

Spec == Init /\ [][Next]_vars

\* Calls return, the background goroutine runs, and time passes.
FairSpec ==
  /\ Spec
  /\ \A w \in Writers : WF_vars(WriterStep(w))
  /\ WF_vars(SweepStep)
  /\ \A k \in Keys : WF_vars(DeadlinePasses(k))
-----------------------------------------------------------------------------
\* A stored key whose deadline has passed does not stay that way: the sweep
\* removes it, or a call renews or drops the deadline meanwhile.
PassedDeadlineHandled ==
  \A k \in Keys :
     (k \in data /\ keyTTLs[k] = "passed")
       ~> (k \notin data \/ keyTTLs[k] # "passed" \/ ctxDone)

\* "a generic key value store that expires keys after a certain time": once
\* calls stop coming, every key goes.
KeysExpire == <>[](ctxDone \/ data = {})

\* The calls and the sweep that are between their first and last step.
InProgress ==
  {w \in Writers : writer[w].pc # "idle"}
    \cup {k \in {NoKey} : sweep.pc \notin {"wait", "stopped"}}

\* The same for behaviours in which no two operations overlap.
SerialKeysExpire == [](Cardinality(InProgress) <= 1) => KeysExpire
=============================================================================
