SPECIFICATION MCSpec
CONSTANTS
  QualifyEpochs = 2
  BoundNone = 100
  Profiles <- MCSources
  FirstProfile = "GNSS"
  Learns = {"GNSS"}
  Gate <- MCGate
  RejectLimit <- MCRejectLimit
  AcquireDelay = 1
  SeedPeriods = 1
  FarPhase = 9
  Sources <- MCSources
  NoSource = "NONE"
  Hold = "HOLD"
  Preference <- MCPreference
  QualifyLimit <- MCQualifyLimit
  HoldLimit <- MCHoldLimit
  BoundScale <- MCBoundScale
  BoundFloor <- MCBoundFloor
  HoldoverFreq <- MCHoldoverFreq
  DriftPpt = 0
  SyncLimit = 30
  SwitchEpochs = 2
  SwitchRatio = 2
  AlignWait = 0
  MaxAge = 4
  Reports <- MCReports
  ManualErrs <- NoManual
  Settled <- MCSettled
  Phases <- MCPhases
  Transfers <- MCTransfers
  WriteLength <- MCWriteLength
  ReadLength <- MCReadLength
  TimeoutServices = 1
  None = None
  Leaps <- MCLeaps
  Starts <- MCStarts
  Horizon = 10
  FirstDate <- MCFirstDate
  LastDate <- MCLastDate
INVARIANTS
  CountsAgree
  DatesRight
PROPERTIES
  Settles
  BusKeepsWord
CHECK_DEADLOCK FALSE
