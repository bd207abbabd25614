SPECIFICATION Spec
CONSTANTS
  Tools <- MCTools
  Params <- MCParams
  Levels <- MCLevels
  Overrides <- MCOverrides
  ReadOnly = FALSE
  ConfirmWrites = TRUE
  Registries <- FewRegistries
  TopK = 1
  Threshold = 5
  Stages = {"new", "paid"}
  Blocked <- MCBlocked
  Unmet = {"paid"}
  Moves <- MCMoves
  Proposals <- Twice
  MaxInstructions = 3
  MaxToolCalls = 2
  MaxRecoils = 1
  Moments = {"idle"}
  MaxTurns = 3
  MaxWaiting = 1
  MaxFaults = 1
INVARIANTS
  ConsentInformed
CHECK_DEADLOCK FALSE
