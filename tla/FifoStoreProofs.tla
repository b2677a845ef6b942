-------------------------- MODULE FifoStoreProofs --------------------------
(***************************************************************************)
(* The FIFO store respects its capacity, for any set of keys and any       *)
(* capacity.  The argument is OrderCoversData: order is never longer than  *)
(* the capacity and names every stored key, so leftovers and duplicates in *)
(* order only ever make the store smaller.                                 *)
(***************************************************************************)
EXTENDS FifoStore, FiniteSetTheorems, FunctionTheorems, TLAPS

IInv == TypeOK /\ OrderCoversData

\* A sequence has at most as many elements as it is long.
LEMMA ElementsBound ==
  ASSUME NEW S, NEW q \in Seq(S)
  PROVE  /\ IsFiniteSet(Elements(q))
         /\ Cardinality(Elements(q)) <= Len(q)
<1>1. q \in Surjection(1..Len(q), Elements(q))
  BY DEF Elements, Surjection
<1>2. /\ IsFiniteSet(1..Len(q))
      /\ Cardinality(1..Len(q)) = Len(q)
  <2>1. 1 \in Int /\ Len(q) \in Int /\ Len(q) >= 0
    OBVIOUS
  <2>2. /\ IsFiniteSet(1..Len(q))
        /\ Cardinality(1..Len(q)) = IF 1 > Len(q) THEN 0 ELSE Len(q) - 1 + 1
    BY <2>1, FS_Interval, Zenon
  <2>. QED BY <2>1, <2>2
<1>3. /\ IsFiniteSet(Elements(q))
      /\ Cardinality(Elements(q)) <= Cardinality(1..Len(q))
  BY <1>1, <1>2, FS_Surjection, Zenon
<1>. QED BY <1>2, <1>3

\* The elements after an Append, and after the front is dropped.
LEMMA ElementsAppend ==
  ASSUME NEW S, NEW q \in Seq(S), NEW k \in S
  PROVE  Elements(Append(q, k)) = Elements(q) \cup {k}
<1>. DEFINE p == Append(q, k)
<1>1. /\ DOMAIN q = 1..Len(q) /\ DOMAIN p = 1..(Len(q) + 1)
      /\ \A i \in 1..Len(q) : p[i] = q[i]
      /\ p[Len(q) + 1] = k /\ Len(q) \in Nat
  OBVIOUS
<1>2. DOMAIN p = DOMAIN q \cup {Len(q) + 1}
  BY <1>1
<1>. HIDE DEF p
<1>3. Elements(p) = Elements(q) \cup {k}
  BY <1>1, <1>2, Zenon DEF Elements
<1>. QED BY <1>3 DEF p

LEMMA ElementsTail ==
  ASSUME NEW S, NEW q \in Seq(S), q # <<>>
  PROVE  Elements(q) \subseteq Elements(Tail(q)) \cup {Head(q)}
<1>1. ASSUME NEW i \in DOMAIN q, q[i] # Head(q)
      PROVE  \E j \in DOMAIN Tail(q) : Tail(q)[j] = q[i]
  <2>1. i \in 1..Len(q) /\ i # 1
    BY <1>1
  <2>2. i - 1 \in DOMAIN Tail(q) /\ Tail(q)[i - 1] = q[i]
    BY <2>1
  <2>. QED BY <2>2
<1>. QED BY <1>1, Zenon DEF Elements

LEMMA SetNewStep ==
  ASSUME IInv, NEW k \in Keys, SetNew(k)
  PROVE  IInv'
<1>0. /\ data \in SUBSET Keys /\ order \in Seq(Keys)
      /\ Len(order) <= Limit /\ data \subseteq Elements(order)
  BY DEF IInv, TypeOK, OrderCoversData
<1>1. CASE order # <<>> /\ Len(order) >= Capacity
  <2>1. order # <<>>
    BY <1>1
  <2>2. order' = Append(Tail(order), k) /\ data' = (data \ {Head(order)}) \cup {k}
    BY <1>1 DEF SetNew
  <2>3. Tail(order) \in Seq(Keys) /\ Len(Tail(order)) = Len(order) - 1
    BY <1>0, <2>1
  <2>4. Elements(Append(Tail(order), k)) = Elements(Tail(order)) \cup {k}
    <3>1. \A q \in Seq(Keys) : Elements(Append(q, k)) = Elements(q) \cup {k}
      BY ElementsAppend
    <3>. QED BY <2>3, <3>1
  <2>5. Elements(order) \subseteq Elements(Tail(order)) \cup {Head(order)}
    BY <1>0, <2>1, ElementsTail, Zenon
  <2>6. order' \in Seq(Keys) /\ Len(order') = Len(order)
    BY <1>0, <2>2, <2>3
  <2>7. data' \subseteq Elements(Append(Tail(order), k))
    BY <1>0, <2>2, <2>4, <2>5
  <2>8. Elements(order)' = Elements(Append(Tail(order), k))
    BY <2>2 DEF Elements
  <2>9. data' \in SUBSET Keys
    BY <1>0, <2>2
  <2>. QED BY <1>0, <2>6, <2>7, <2>8, <2>9 DEF IInv, TypeOK, OrderCoversData
<1>2. CASE ~(order # <<>> /\ Len(order) >= Capacity)
  <2>1. order' = Append(order, k) /\ data' = data \cup {k}
    BY <1>2 DEF SetNew
  <2>2. Elements(Append(order, k)) = Elements(order) \cup {k}
    BY <1>0, ElementsAppend
  <2>3. order' \in Seq(Keys) /\ Len(order') = Len(order) + 1
    BY <1>0, <2>1
  <2>4. Elements(order)' = Elements(Append(order, k))
    BY <2>1 DEF Elements
  <2>5. data' \in SUBSET Keys /\ data' \subseteq Elements(order)'
    BY <1>0, <2>1, <2>2, <2>4
  <2>6. Len(order') <= Limit
    BY <1>0, <1>2, <2>3, FifoConstants DEF Limit
  <2>. QED BY <2>3, <2>5, <2>6 DEF IInv, TypeOK, OrderCoversData
<1>. QED BY <1>1, <1>2

LEMMA ReplaceStep ==
  ASSUME IInv, NEW items \in SUBSET Keys, Replace(items)
  PROVE  IInv'
<1>1. PICK kept \in SUBSET items :
        /\ Cardinality(kept) = IF Cardinality(items) > Capacity THEN Capacity ELSE Cardinality(items)
        /\ data' = kept
        /\ order' \in [1..Cardinality(kept) -> kept]
        /\ Elements(order') = kept
  BY DEF Replace
<1>2. Cardinality(items) \in Nat
  BY FS_CardinalityType DEF Replace
<1>3. Cardinality(kept) \in Nat /\ Cardinality(kept) <= Limit
  BY <1>1, <1>2, FifoConstants DEF Limit
<1>4. order' \in Seq(Keys) /\ Len(order') = Cardinality(kept)
  BY <1>1, <1>3
<1>. QED BY <1>1, <1>3, <1>4 DEF IInv, TypeOK, OrderCoversData

\* IInv holds throughout.
LEMMA Inductive == Spec => []IInv
<1>1. Init => IInv
  BY FifoConstants DEF Init, IInv, TypeOK, OrderCoversData, Elements, Limit
<1>2. IInv /\ [Next]_vars => IInv'
  <2>. SUFFICES ASSUME IInv, [Next]_vars PROVE IInv'
    OBVIOUS
  <2>1. CASE UNCHANGED vars
    BY <2>1 DEF vars, IInv, TypeOK, OrderCoversData, Elements
  <2>2. ASSUME NEW k \in Keys, SetExisting(k) PROVE IInv'
    BY <2>2 DEF SetExisting, vars, IInv, TypeOK, OrderCoversData, Elements
  <2>3. ASSUME NEW k \in Keys, Remove(k) PROVE IInv'
    BY <2>3 DEF Remove, IInv, TypeOK, OrderCoversData, Elements
  <2>. QED BY <2>1, <2>2, <2>3, SetNewStep, ReplaceStep DEF Next
<1>. QED BY <1>1, <1>2, PTL DEF Spec

\* The order list never outgrows the capacity and names every stored key,
\* through every sequence of Set, Remove and Replace.
THEOREM OrderCovers == Spec => []OrderCoversData
<1>1. IInv => OrderCoversData
  BY DEF IInv
<1>. QED BY <1>1, Inductive, PTL

\* The store never holds more than Capacity keys, or one if that is zero, although Remove leaves the
\* keys it removes in the order list.
THEOREM CapacityIsRespected == Spec => []CapacityRespected
<1>1. ASSUME IInv PROVE CapacityRespected
  <2>1. /\ order \in Seq(Keys) /\ Len(order) <= Limit
        /\ data \in SUBSET Elements(order)
    BY <1>1 DEF IInv, TypeOK, OrderCoversData
  <2>2. IsFiniteSet(Elements(order)) /\ Cardinality(Elements(order)) <= Len(order)
    BY <2>1, ElementsBound, Zenon
  <2>3. IsFiniteSet(data) /\ Cardinality(data) <= Cardinality(Elements(order))
    BY <2>1, <2>2, FS_Subset, Zenon
  <2>4. Cardinality(data) \in Nat /\ Cardinality(Elements(order)) \in Nat
    BY <2>2, <2>3, FS_CardinalityType
  <2>. QED BY <2>1, <2>2, <2>3, <2>4, FifoConstants DEF CapacityRespected, Limit
<1>. QED BY <1>1, Inductive, PTL
=============================================================================
