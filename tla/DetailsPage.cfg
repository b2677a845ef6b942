\* Two resources, two clusters, and two changes while answers are awaited.
CONSTANTS
  Resources = {r1, r2}
  c1 = c1
  c2 = c2
  Clusters = {c1, c2}
  None = None
  Tabs = {"info", "logs", "traffic"}
  Links <- MCLinks
  MaxChanges = 2
  MaxInFlight = 2
SPECIFICATION FairSpec
INVARIANTS
  QuietFollowsUrl
  ChatNamesPage
PROPERTIES
  FetchingEnds
CHECK_DEADLOCK FALSE
