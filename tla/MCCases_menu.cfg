SPECIFICATION MenuCase
CONSTANTS
  Debounce = 1
  Long = 2
  Repeat = 4
  RepeatPeriod = 2
  TakeBack = 1
  Timeout = 3
  NameShown = 1
  RtcWrite = 2
  SectionsUsed = {}
  Highs <- MCHighs
  MonthDays <- MCDays
  Factory <- MCFactory
  MaxEvents = 0
  MaxTimes = 2
  ServerCount = 1
  NtpHosts = {h1, h2}
  NoHost = none
  OffsetOf <- MCOffsetOf
  h1 = h1
  h2 = h2
  Distances = {1}
  ReachPolls = 1
  Burst = 1
  MaxChanges = 1
INVARIANT RtcHasTheTime
CHECK_DEADLOCK FALSE
