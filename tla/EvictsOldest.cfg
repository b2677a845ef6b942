CONSTANTS
  Keys = {a, b, c, d}
  Capacity = 3
SPECIFICATION Spec
PROPERTY EvictsOldestWhenFull
