----------------------------- MODULE FifoStore -----------------------------
(***************************************************************************)
(* store/fifo_store.go: a store of bounded capacity that evicts in         *)
(* insertion order.  Tempo's trace cache is one, under an ExpirationStore. *)
(* Every method runs under f.lock, so each is one action; values are left  *)
(* out, and Get changes nothing.                                           *)
(***************************************************************************)
EXTENDS Naturals, Sequences, FiniteSets

CONSTANTS
  Keys,
  Capacity           \* tempo_config.cache_capacity

ASSUME FifoConstants == Capacity \in Nat

\* With a capacity of zero, which the configuration does not exclude, Set still
\* adds its key.
Limit == IF Capacity = 0 THEN 1 ELSE Capacity

VARIABLES
  data,              \* keys in the wrapped Store
  order,             \* the list of keys, oldest first
  inserted           \* history: the keys of data in the order they came in

vars == <<data, order, inserted>>

Elements(q) == {q[i] : i \in DOMAIN q}
Without(q, S) == SelectSeq(q, LAMBDA k : k \notin S)

\* The variables range over the values the Go declarations allow.
TypeOK ==
  /\ data \in SUBSET Keys
  /\ order \in Seq(Keys)

Init == data = {} /\ order = <<>> /\ inserted = <<>>

\* Set of a key that is there already changes its value only.
SetExisting(k) == k \in data /\ UNCHANGED vars

\* Faulty: one key too many before the front goes.
SetNewLate(k) ==
  LET full    == order # <<>> /\ Len(order) > Capacity
      evicted == IF full THEN {Head(order)} ELSE {}
  IN  /\ k \notin data
      /\ order' = Append(IF full THEN Tail(order) ELSE order, k)
      /\ data' = (data \ evicted) \cup {k}
      /\ inserted' = Append(Without(inserted, evicted), k)

\* Faulty: the front leaves the list but not the wrapped Store.
SetNewKeepsFront(k) ==
  LET full == order # <<>> /\ Len(order) >= Capacity
  IN  /\ k \notin data
      /\ order' = Append(IF full THEN Tail(order) ELSE order, k)
      /\ data' = data \cup {k}
      /\ inserted' = Append(inserted, k)

\* Set of a new key: with order at capacity, the front, if there is one, goes
\* first.
SetNew(k) ==
  LET full    == order # <<>> /\ Len(order) >= Capacity
      evicted == IF full THEN {Head(order)} ELSE {}
  IN  /\ k \notin data
      /\ order' = Append(IF full THEN Tail(order) ELSE order, k)
      /\ data' = (data \ evicted) \cup {k}
      /\ inserted' = Append(Without(inserted, evicted), k)

\* Remove hands list.Remove a new Element that belongs to no list, which
\* list.Remove ignores: the key stays in order.
Remove(k) ==
  /\ data' = data \ {k}
  /\ inserted' = Without(inserted, {k})
  /\ UNCHANGED order

\* Replace keeps any Capacity of the items, and any order of them.
Replace(items) ==
  /\ IsFiniteSet(items)
  /\ \E kept \in SUBSET items :
     /\ Cardinality(kept) = IF Cardinality(items) > Capacity THEN Capacity ELSE Cardinality(items)
     /\ data' = kept
     /\ order' \in [1..Cardinality(kept) -> kept]
     /\ Elements(order') = kept
     /\ inserted' = order'

Next ==
  \/ \E k \in Keys : SetExisting(k) \/ SetNew(k) \/ Remove(k)
  \/ \E items \in SUBSET Keys : Replace(items)

Spec == Init /\ [][Next]_vars
-----------------------------------------------------------------------------
\* What keeps the store bounded although Remove leaves keys behind in order,
\* and although a key may be in order twice: order never grows past the
\* capacity, and every stored key is in it.
OrderCoversData == Len(order) <= Limit /\ data \subseteq Elements(order)

\* The store never holds more than Capacity keys, or one if that is zero.
CapacityRespected == Cardinality(data) <= Limit

\* "evicts the oldest entry when capacity is exceeded": a Set that pushes a
\* key out finds the store full and takes the one that came in first.
EvictsOldestWhenFull ==
  [][\A k \in Keys : SetNew(k) =>
       \A e \in data \ data' : e = Head(inserted) /\ Cardinality(data) = Limit]_vars
=============================================================================
