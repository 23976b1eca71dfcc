SPECIFICATION Spec
CONSTANTS
  Ids = {i1, i2}
  MaxAttempts = 2
  MaxTurns = 1
  RebuttalCalls = 1
  Budgeted = FALSE
  Ceiling = 8
  Costs = {2}
  MaxCrashes = 1
  Malformed = TRUE
INVARIANT
  LaterStagesNeverFailTheRun
