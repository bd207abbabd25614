SPECIFICATION FairSpec
CONSTANTS
  Writers = {w1, w2}
  Requests = {r1, r2}
  Populations = {{w1, w2}, {w1, r1, r2}, {r1, c1, c2}}
  Cycles = {c1, c2}
  Sessions = {s1, s2}
  Keys = {k1}
  NoKey = NoKey
  Stages = {trial, paid}
  Flows = {f1}
  Cap = 1
  MaxPerCycle = 1
  MinMessages = 1
  MaxSends = 3
  MaxWrites = 3
  MaxFaults = 1
INVARIANTS
  OncePerSession
  CapKept
  FlowFitsStage
PROPERTIES
  EveryReflected
CHECK_DEADLOCK FALSE
