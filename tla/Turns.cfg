SPECIFICATION FairSpec
CONSTANTS
  ChannelSets <- OneOrTwo
  Words = {"yes", "no", "thanks"}
  Topics = {"order"}
  Engines = {"loop", "harness"}
  CacheOn = {"harness"}
  PerMinute = 2
  SummarizeAfter = 3
  MaxDepth = 4
  OldStacks <- MCOldStacks
  MaxMessages = 3
  MaxWaiting = 2
  MaxQuiet = 1
  MaxFaults = 1
INVARIANTS
  OneAtATime
  RateKept
  ConfirmedOnce
  StackAges
PROPERTIES
  TurnsEnd
CHECK_DEADLOCK FALSE
