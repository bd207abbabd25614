SPECIFICATION FairSpec
CONSTANTS
  Tools <- MCTools
  Params <- MCParams
  Levels <- MCLevels
  Overrides <- MCOverrides
  ReadOnly = FALSE
  ConfirmWrites = TRUE
  Registries <- MCRegistries
  TopK = 1
  Threshold = 5
  Stages = {"new", "paid"}
  Blocked <- MCBlocked
  Unmet = {"paid"}
  Moves <- MCMoves
  Proposals <- MCProposals
  MaxInstructions = 3
  MaxToolCalls = 2
  MaxRecoils = 1
  Moments = {"idle"}
  MaxTurns = 3
  MaxWaiting = 1
  MaxFaults = 1
INVARIANTS
  WritesAlone
  ConfirmedOnly
  AtMostOnce
  QuestionParked
PROPERTIES
  TurnsSettle
CHECK_DEADLOCK FALSE
