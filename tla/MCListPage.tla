----------------------------- MODULE MCListPage -----------------------------
(* ListPage for TLC: a link that says nothing about columns, and one that   *)
(* hides the name, knows other columns and has them in another order.       *)
EXTENDS ListPage, Sequences, TLC

OrderOf(ids) ==
  UNION {{<<ids[i], ids[j]>> : i \in 1..j} : j \in DOMAIN ids}

MCLinks ==
  {[s \in Settings |-> Absent],
   [hidden |-> OrderOf(<<"name", "old">>), order |-> OrderOf(<<"health", "old", "name">>)]}

Symmetry == Permutations(Clusters) \cup Permutations(Selections)
              \cup Permutations(Filters) \cup Permutations(Sorts)
=============================================================================
