SPECIFICATION Spec
CONSTANTS
  Tools <- MCTools
  Params <- MCParams
  Levels <- MCLevels
  Overrides <- MCOverrides
  ReadOnly = FALSE
  ConfirmWrites = TRUE
  Registries <- MCRegistries
  TopK = 1
  Threshold = 5
  Stages = {"new", "paid"}
  Blocked <- MCBlocked
  Unmet = {"paid"}
  Moves <- MCMoves
  Proposals <- Twice
  MaxInstructions = 3
  MaxToolCalls = 2
  MaxRecoils = 1
  Moments = {"idle", "tell"}
  MaxTurns = 3
  MaxWaiting = 2
  MaxFaults = 1
INVARIANTS
  ConfirmedOnly
CHECK_DEADLOCK FALSE
