SPECIFICATION LinkSpec
VIEW LinkView
CONSTANTS
  Bodies = {default, other}
  Default = default
  NoRecord = none
  PendingMax = 2
  LastToken = 3
  LastVersion = 3
  MaxRestarts = 1
  MaxFrames = 2
INVARIANT WriteEnds
CHECK_DEADLOCK FALSE
