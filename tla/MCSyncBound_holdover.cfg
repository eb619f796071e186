SPECIFICATION BoundSpec
VIEW BoundView
CONSTANTS
  QualifyEpochs = 1
  BoundNone = 30
  Profiles <- MCSources
  FirstProfile = "GNSS"
  Learns <- MCSources
  Gate <- MCGate
  RejectLimit <- MCRejectLimit
  AcquireDelay = 1
  SeedPeriods = 1
  FarPhase = 15
  Sources <- MCSources
  NoSource = "NONE"
  Hold = "HOLD"
  Preference <- MCPreference
  QualifyLimit <- MCQualifyLimit
  HoldLimit <- WideHoldLimit
  BoundScale <- MCBoundScale
  BoundFloor <- MCBoundFloor
  HoldoverFreq <- MCHoldoverFreq
  DriftPpt = 0
  SyncLimit = 8
  SwitchEpochs = 1
  SwitchRatio = 2
  AlignWait = 2
  MaxAge = 9
  Reports <- WideReports
  ManualErrs <- NoManual
  MaxErr = 9
  Drift = 1
INVARIANTS
  HoldoverBoundHolds
