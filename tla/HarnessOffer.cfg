SPECIFICATION Spec
CONSTANTS
  Tools <- MCTools
  Params <- MCParams
  Levels <- MCLevels
  Overrides <- MCOverrides
  ReadOnly = FALSE
  ConfirmWrites = TRUE
  Registries <- FewRegistries
  TopK = 1
  Threshold = 1
  Stages = {"new", "paid"}
  Blocked <- MCBlocked
  Unmet = {"paid"}
  Moves <- MCMoves
  Proposals <- Few
  MaxInstructions = 3
  MaxToolCalls = 2
  MaxRecoils = 1
  Moments = {"idle"}
  MaxTurns = 3
  MaxWaiting = 1
  MaxFaults = 0
INVARIANTS
  PendingOffered
CHECK_DEADLOCK FALSE
