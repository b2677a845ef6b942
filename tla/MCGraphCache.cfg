CONSTANTS
  s1 = s1
  s2 = s2
  s3 = s3
  g1 = g1
  g2 = g2
  g3 = g3
  g4 = g4
  o1 = o1
  Sessions = {s1, s2, s3}
  Graphs = {g1, g2, g3, g4}
  NoGraph = NoGraph
  Options = {o1}
  Intervals = {1}
  Sizes = {0, 1, 2, 4}
  MaxCacheMemoryMB = 3
  AgeCap = 2
SPECIFICATION CacheSpec
SYMMETRY Symmetry
VIEW LiveState
INVARIANTS
  MemoryOvershootBounded
PROPERTIES
  InsertRestoresLimit
  OnlyLeastRecentEvicted
