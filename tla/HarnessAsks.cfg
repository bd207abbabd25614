SPECIFICATION Spec
CONSTANTS
  Tools <- MCTools
  Params <- MCParams
  Levels <- MCLevels
  Overrides <- MCOverrides
  ReadOnly = FALSE
  ConfirmWrites = TRUE
  Registries <- MCRegistries
  TopK = 1
  Threshold = 5
  Stages = {"new", "paid"}
  Blocked <- MCBlocked
  Unmet = {"paid"}
  Moves <- MCMoves
  Proposals <- Few
  MaxInstructions = 3
  MaxToolCalls = 2
  MaxRecoils = 1
  Moments = {"idle"}
  MaxTurns = 4
  MaxWaiting = 1
  MaxFaults = 0
INVARIANTS
  AskedWithinBudget
CHECK_DEADLOCK FALSE
