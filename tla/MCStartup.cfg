SPECIFICATION MCSpec
VIEW PartView
CONSTANTS
  QualifyEpochs = 2
  BoundNone = 100
  Profiles <- MCProfiles
  FirstProfile = "GNSS"
  Learns = {"GNSS"}
  Gate <- MCGate
  RejectLimit <- MCRejectLimit
  AcquireDelay = 1
  SeedPeriods = 1
  FarPhase = 9
  Sources <- MCSources
  NoSource = "NONE"
  Hold = "HOLD"
  Preference <- MCPreference
  QualifyLimit <- MCQualifyLimit
  HoldLimit <- MCHoldLimit
  BoundScale <- MCBoundScale
  BoundFloor <- MCBoundFloor
  HoldoverFreq <- MCHoldoverFreq
  DriftPpt = 1000
  SyncLimit = 12
  SwitchEpochs = 2
  SwitchRatio = 2
  AlignWait = 2
  MaxAge = 2
  Reports <- StartReports
  ManualErrs <- SomeManual
  TxRing = 4
  RxRing = 3
  TxFifo = 2
  RxFifo = 2
  Lengths = {1, 3}
  MaxBytes = 4
  MaxToggles = 1
  Symbols = {6, 10, 11}
  Mark1 = 10
  Mark2 = 11
  CheckByte = 10
  FramesSent <- MCSent
  Expected <- MCExpected
  MaxPayload = 6
  MaxFrames = 2
  MaxNoise = 4
  MaxDamage = 1
  MaxSilences = 1
  ReadInterval = 1
  DetectInterval = 2
  CheckInterval = 3
  Pwm <- MCPwm
  FullLevel = 3
  ManualLevels = {3}
  LevelOf <- MCLevelOf
  MaxMishaps = 2
  Modes = 3
  Hundredths = 1
  CycleEpochs = 2
  Overlays = {"menu"}
  LastEpoch = 4
  MaxRedraws = 3
  MaxLate = 1
INVARIANTS
  StepOnlyWhenAcquiring
  UartSound
  FramesSound
  LightSound
  PanelSound
PROPERTIES
  StartsRight
  ManualTime
  ResyncStartsOver
  ShownLabelFollows
CHECK_DEADLOCK FALSE
