CONSTANTS
  Views = {1, 2}
  Details = {1, 2}
  EdgeLabels = {0, 1}
  Appended = {1}
  Searches = {0, 1}
  LabelSearches = {1}
  Controls <- MCControls
  Stored <- MCStored
  Links <- MCLinks
  Starts = {1, 3}
  Intervals = {0, 1, 2}
  DefaultReplayInterval = 2
  MaxChanges = 3
  MaxTicks = 1
SPECIFICATION Spec
INVARIANTS
  ShownGraphMatchesParams OldGraphOfSameView SettingsReachGraph
  FrameShown TimerIffPlaying
PROPERTIES GoneUntouched LoadingEnds PlayingEnds
CHECK_DEADLOCK FALSE
