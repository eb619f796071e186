SPECIFICATION MCSpec
VIEW PartView
CONSTANTS
  QualifyEpochs = 1
  BoundNone = 30
  Profiles <- MCSources
  FirstProfile = "GNSS"
  Learns <- MCSources
  Gate <- MCGate
  RejectLimit <- MCRejectLimit
  AcquireDelay = 1
  SeedPeriods = 1
  FarPhase = 5
  Sources <- MCSources
  NoSource = "NONE"
  Hold = "HOLD"
  Preference <- MCPreference
  QualifyLimit <- MCQualifyLimit
  HoldLimit <- MCHoldLimit
  BoundScale <- MCBoundScale
  BoundFloor <- MCBoundFloor
  HoldoverFreq <- MCHoldoverFreq
  DriftPpt = 0
  SyncLimit = 4
  SwitchEpochs = 1
  SwitchRatio = 2
  AlignWait = 2
  MaxAge = 3
  Reports <- MCReports
  ManualErrs <- NoManual
  MaxErr = 3
  Drift = 1
  GnssSecond = 2
  PpsWindow = 2
  EpochMaxAge = 5
  EpochFail = 2
  MeasuredAt = 1
  Recovery = 3
  DetectTimeout = 1
  DetectAttempts = 2
  LastEdge = 3
  MaxLost = 3
  MaxMissing = 1
  Losable = {"STATUS", "TIMEUTC", "EOE"}
  Unit = 16
  TrueRate = 3
  SampleErrors = {2, 20}
  StepLimit = 30
  GentleLimit = 8
  GentleRate = 2
  FastRate = 5
  TimeConstant = 48
  EspDrift <- MCEspDrift
  MaxLocal = 80
  ServerCount = 2
  NtpHosts = {h1, h2}
  NoHost = none
  OffsetOf <- MCOffsetOf
  h1 = h1
  h2 = h2
  Distances = {1}
  ReachPolls = 1
  Burst = 1
  MaxChanges = 1
INVARIANTS
  LockedBoundHolds
  GnssSound
  UncertaintyIsBound
  NtpSound
CHECK_DEADLOCK FALSE
