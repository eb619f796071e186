SPECIFICATION MCSpec
VIEW PartView
CONSTANTS
  Debounce = 1
  Long = 2
  Repeat = 3
  RepeatPeriod = 2
  TakeBack = 1
  Timeout = 2
  NameShown = 1
  RtcWrite = 1
  SectionsUsed = {"display"}
  Highs <- MCHighs
  MonthDays <- MCDays
  Factory <- MCFactory
  MaxEvents = 1
  MaxTimes = 1
  Types <- MCTypes
  Values = {a, b}
  NoValue = none
  Size <- MCSize
  PageCells = 7
  Wrap = 4
  JunkSpans = {0, 3}
  MaxFaults = 1
  DaySeconds = 6
  SoundSeconds = 2
  CatchUp = 2
  LargestChange = 1
  AlarmTimes = {0, 4}
  ZoneOffsets = {0, 1, 4}
  ChimeEvery = 3
  Group = 4
  MaxShifts = 2
  MaxSettings = 1
  LastUtc = 13
  ZoneNames = {"A", "B"}
  TransitionsOf <- MCTransitions
  TransitionMax = 2
  MaxTransitions = 2
  YearsAhead = 50
  OpenEnded = 100
  Refresh = 6
  RetryFirst = 3
  RetryMax = 5
  EmptyFirst = 2
  EmptyMax = 3
  MoveRecheck = 1
  FirstFixWait = 1
  MaxZoneEvents = 1
  LastTime = 7
  MmdbCheckInterval = 2
  Validity = 4
  LeapSteps = {3, 7}
  TableSpan = 3
  Databases = 2
  MaxTables = 2
  LastSecond = 7
  BodyValues = {0, 1}
  DefaultBody = 0
  TimezoneDelay = 2
  RtcEpochs = 3
  RtcRetry = 2
  OscillatorEpochs = 2
  EstimateLimit = 5
  Estimates <- MCEstimates
  MaxChanges = 3
  MaxStarts = 1
  LastEpochKept = 5
  Versions <- MCVersions
  FirstVersion <- MCFirst
  MaxProfiles = 2
  ImageChunks = 2
  DayHours = 3
  LastHour = 8
  AutoHour = 1
  MaxCuts = 2
  ServerCount = 3
INVARIANTS
  MenuSound
  AlarmSound
  ZoneSound
  ServiceSound
  RecordsSound
  
  VoteSound
PROPERTIES
  StoreSound
  UpdatesHold
CHECK_DEADLOCK FALSE
