SPECIFICATION Spec
CONSTANTS
  e1 = e1
  e2 = e2
  t1 = t1
  t2 = t2
  Templates = {t1}
  Events = {}
  TemplateOf <- MCNoEvents
  Rank <- MCOneRank
  DigestLimit = 2
  MaxNamed = 1
  Signal = {t1}
  Chronic = {}
  MaxToolCalls = 4
  MaxNudges = 1
  HistorySteps = 1
  Budgeted = TRUE
  Ceiling = 12
  InitialSpent = {0, 12}
  Costs = {1, 2, 6}
  Stops = {"end_turn", "refusal"}
  BatchSizes = {1}
  Bulk = {TRUE, FALSE}
  SqlAliases = FALSE
  InitialNotes <- MCFresh
INVARIANTS
  BudgetStopsAreSaid
  RemindedInTime
  CallsAnswered
  CompactionSound
PROPERTY
  Terminates
