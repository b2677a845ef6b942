CONSTANTS
  Keys = {a, b}
  Writers = {w1, w2}
  NoKey = NoKey
  MaxWrites = 3
SPECIFICATION FairSpec
PROPERTIES
  PassedDeadlineHandled
  SerialKeysExpire
CHECK_DEADLOCK FALSE
