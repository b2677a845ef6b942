CONSTANTS
  Intervals = {1, 2}
  Updaters = {u1, u2, u3}
  NoUpdater = NoUpdater
  NoTicker = NoTicker
  MaxUpdates = 3
SPECIFICATION FairSpec
INVARIANTS
  TypeOK
  NeverDeaf
PROPERTIES
  StoppedJobEnds
  ImplementsLifecycle
CHECK_DEADLOCK FALSE
