SPECIFICATION Spec
CONSTANTS
  ChannelSets <- OneOrTwo
  Words = {"yes"}
  Topics = {"order"}
  Engines = {"loop"}
  CacheOn = {}
  PerMinute = 2
  SummarizeAfter = 3
  MaxDepth = 4
  OldStacks <- MCOldStacks
  MaxMessages = 4
  MaxWaiting = 2
  MaxQuiet = 1
  MaxFaults = 0
INVARIANTS
  SessionAlone
CHECK_DEADLOCK FALSE
