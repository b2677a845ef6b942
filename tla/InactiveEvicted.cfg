\* A bypass request stops the job while its refresh is about to store.
CONSTANTS
  Sessions = {s1}
  Graphs = {g1, g2, g3, g4}
  NoGraph = NoGraph
  Options = {o1}
  Intervals = {1}
  Sizes = {1}
  MaxCacheMemoryMB = 3
  AgeCap = 1
  Threads = {t1}
  Refreshers = {r1}
  Jobs = {j1, j2, j3}
  NoJob = NoJob
  NoSession = NoSession
  AllowBypass = TRUE
  InactivityTimeout = 0
  MaxRequests = 2
SPECIFICATION FairSpec
VIEW LiveState
PROPERTIES
  InactiveEvicted
CHECK_DEADLOCK FALSE
