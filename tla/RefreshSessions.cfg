\* Two requests, of one session or of two, overlap each other and two
\* refreshes, in a cache with room for one graph.
CONSTANTS
  Sessions = {s1, s2}
  Graphs = {g1, g2, g3, g4, g5, g6}
  NoGraph = NoGraph
  Options = {o1, o2}
  Intervals = {1}
  Sizes = {1}
  MaxCacheMemoryMB = 1
  AgeCap = 1
  Threads = {t1, t2}
  Refreshers = {r1, r2}
  Jobs = {j1, j2, j3}
  NoJob = NoJob
  NoSession = NoSession
  AllowBypass = TRUE
  InactivityTimeout = 0
  MaxRequests = 2
SPECIFICATION Spec
SYMMETRY Symmetry
VIEW LiveState
INVARIANTS
  TypeOK
  OneLiveJob
  SessionIsolation
  ServedMatchesRequest
CHECK_DEADLOCK FALSE
