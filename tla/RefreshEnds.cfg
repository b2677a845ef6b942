\* Requests stop coming: the goroutines of all jobs end.
CONSTANTS
  Sessions = {s1}
  Graphs = {g1, g2, g3, g4}
  NoGraph = NoGraph
  Options = {o1, o2}
  Intervals = {1, 2}
  Sizes = {1}
  MaxCacheMemoryMB = 3
  AgeCap = 1
  Threads = {t1, t2}
  Refreshers = {r1}
  Jobs = {j1, j2}
  NoJob = NoJob
  NoSession = NoSession
  AllowBypass = TRUE
  InactivityTimeout = 0
  MaxRequests = 2
SPECIFICATION FairSpec
VIEW LiveState
PROPERTIES
  GoroutinesEnd
CHECK_DEADLOCK FALSE
