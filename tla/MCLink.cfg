SPECIFICATION LinkSpec
VIEW LinkView
CONSTANTS
  Bodies = {default, other}
  Default = default
  NoRecord = none
  PendingMax = 8
  LastToken = 2
  LastVersion = 3
  MaxRestarts = 1
  MaxFrames = 2
INVARIANT ConsoleInStep
PROPERTIES
  ConsoleHasSeen
  SaveMeansSaved
CHECK_DEADLOCK FALSE
