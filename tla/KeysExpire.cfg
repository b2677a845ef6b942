CONSTANTS
  Keys = {a}
  Writers = {w1}
  NoKey = NoKey
  MaxWrites = 2
SPECIFICATION FairSpec
PROPERTY KeysExpire
CHECK_DEADLOCK FALSE
