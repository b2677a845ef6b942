\* Two clusters, two selections of namespaces or none, and a card beside the page.
CONSTANTS
  Components = {"page", "card"}
  Intervals = {0, 1, 15}
  MaxTicks = 1
  Clusters = {c1, c2}
  Selections = {n1, n2}
  Filters = {f1, f2}
  Sorts = {s1, s2}
  Columns = {"name", "health"}
  Unknown = {"old"}
  Links <- MCLinks
  MaxFetches = 3
  MaxColumnEdits = 1
SPECIFICATION Spec
SYMMETRY Symmetry
INVARIANTS
  OneTimerForSubscribers
  LoadedUnlessManual
  ListMatchesSelection
  OneCallAtATime
  ColumnsAgree
CHECK_DEADLOCK FALSE
