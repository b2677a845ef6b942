\* The editor shows the YAML of the object the user comes from.
CONSTANTS
  Configs = {a, b}
  None = None
  MaxFetches = 4
  MaxCalls = 2
SPECIFICATION Spec
INVARIANT NoStalePatch
CHECK_DEADLOCK FALSE
