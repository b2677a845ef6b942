---------------------------- MODULE MCGraphCache ----------------------------
EXTENDS GraphCache, TLC

CONSTANTS s1, s2, s3, g1, g2, g3, g4, o1

\* Sessions are interchangeable, and so are heap cells.
Symmetry == Permutations({s1, s2, s3}) \cup Permutations({g1, g2, g3, g4})

\* Cells that no session refers to are garbage: their contents do not matter.
LiveState ==
  <<sessionGraphs, [s \in Cached |-> heap[sessionGraphs[s]]]>>
=============================================================================
