\* Two threads with a few callbacks, in each span mode.
CONSTANTS
  WordBits = 16
  MaxExtraCounters = 2
  Threads = {t1, t2}
  Spans = {s1, s2}
  None = None
  Static <- Strings
  PollName <- Poll
  LevelName <- Level_
  LevelText <- Levels
  ProcessName <- Program
  Pid = 7
  Realtime = 1000
  Events <- AllEvents
  SpanSites <- AllSites
  Configs <- AllConfigs
  UuidBase = 65534
  Step = 200
  MaxCalls = 3
SYMMETRY Symmetric
SPECIFICATION Spec
INVARIANTS
  TypeOK
  PacketsFramed
  ClockTracks
  NamesResolve
  ValuesKept
  
  TracksDistinct
  CountersAgree
