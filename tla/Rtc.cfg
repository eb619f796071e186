\* Two attempts at an aligned write and two things that go wrong, at any time and of
\* any kind: enough for a write that is given up after another was taken in part,
\* with a command or a power cut in between.  A search has three epochs, in which it
\* can fail to find the second and yet end in time once nothing more goes wrong.
SPECIFICATION RtcSpec
CONSTANTS
  Attempts = 2
  SearchEpochs = 3
  StepEpochs = 2
  CheckEpochs = 1
  WaitEpochs = 1
  RateEpochs = 0
  ReadEpochs = 1
  MaxTrouble = 2
INVARIANT NothingOutdated
PROPERTY EndsWell
