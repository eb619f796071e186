SPECIFICATION MCSpec
VIEW PartView
CONSTANTS
  QualifyEpochs = 2
  BoundNone = 100
  Profiles <- MCProfiles
  FirstProfile = "GNSS"
  Learns = {"GNSS"}
  Gate <- MCGate
  RejectLimit <- MCRejectLimit
  AcquireDelay = 1
  SeedPeriods = 1
  FarPhase = 3
  Sources <- MCSources
  NoSource = "NONE"
  Hold = "HOLD"
  Preference <- MCPreference
  QualifyLimit <- MCQualifyLimit
  HoldLimit <- MCHoldLimit
  BoundScale <- MCBoundScale
  BoundFloor <- MCBoundFloor
  HoldoverFreq <- MCHoldoverFreq
  DriftPpt = 1000
  SyncLimit = 30
  SwitchEpochs = 2
  SwitchRatio = 2
  AlignWait = 2
  MaxAge = 4
  Reports <- SelectionReports
  ManualErrs <- NoManual
  SlotTicks = 4
  LowTicks = 6
  Nominal = 48
  Periods <- MCPeriods
  MeasureSlot = 1
  PulseEndSlot = 2
  Latency = 3
  Epochs = 4
  TaskSlots <- MCTaskSlots
  LastSlot = 5
  FlashTicks = 5
  PassTicks = 14
  PpsInputs = {1, 2}
  FirstInput = 1
  AlignAttempts = 3
  AlignTolerance = 1
  Offsets <- MCOffsets
  PairTicks = 0
  PeriodLimits = {2}
  PulseTicks = 1
  Apart = 2
  RisePhases <- MCRises
  Delay = 0
  CaptureWrap = 3
  Every = 2
  LastTick = 4
  MaxRoutes = 1
  SecondTicks = 10
  PairWindow = 9
  Backlog = 3
  Association = 5
  Transit = 1
  EspPhases = {0, 4}
  MaxLoop = 3
  MaxHeld = 16
  LastSecond = 3
  SecondCounts = 5
  Pulse = 1
  MinLead = 1
  Adjust = 1
  Parts = 4
  Steps <- MCSteps
  MaxSteps = 2
  LastCount = 32
INVARIANTS
  SyncInv
  RankingAgrees
  TimerSound
  EpochsServed
  EdgesReachSnapshot
  PpsSound
  LabelsOfTheirEdges
PROPERTIES
  LeavesForCause
CHECK_DEADLOCK FALSE
