SPECIFICATION Spec
CONSTANTS
  Ids = {i1, i2}
  MaxAttempts = 2
  MaxTurns = 1
  RebuttalCalls = 1
  Budgeted = TRUE
  Ceiling = 4
  Costs = {1, 4}
  MaxCrashes = 1
  Malformed = TRUE
INVARIANTS
  EvidenceIsGathered
  ConclusionIsLast
  MetricsAreOfThisAttempt
  VerdictIsBacked
PROPERTY
  EveryAttemptEnds
