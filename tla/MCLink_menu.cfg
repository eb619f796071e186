SPECIFICATION LinkSpec
CONSTANTS
  Bodies = {default, other}
  Default = default
  NoRecord = none
  PendingMax = 8
  LastToken = 2
  LastVersion = 3
  MaxRestarts = 1
  MaxFrames = 2
PROPERTY MenuHasSeen
CHECK_DEADLOCK FALSE
