--------------------------- MODULE MCGraphRefresh ---------------------------
EXTENDS GraphRefresh, TLC

\* Handlers are interchangeable, and so are refresh() calls and sessions.
Symmetry ==
  Permutations(Sessions) \cup Permutations(Threads) \cup Permutations(Refreshers)

\* The state without the contents of objects that nothing refers to.
LiveState ==
  <<sessionGraphs, [g \in UsedGraphs \ {NoGraph} |-> heap[g]], graphGenerator,
    jobs, [j \in UsedJobs \ {NoJob} |-> job[j]], cancelled, req, rf, budget>>
=============================================================================
