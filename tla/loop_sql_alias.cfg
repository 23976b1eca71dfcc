SPECIFICATION Spec
CONSTANTS
  e1 = e1
  e2 = e2
  t1 = t1
  t2 = t2
  Templates = {t1}
  Events = {e1}
  TemplateOf <- MCOneTemplateOf
  Rank <- MCOneRank
  DigestLimit = 2
  MaxNamed = 1
  Signal = {t1}
  Chronic = {}
  MaxToolCalls = 2
  MaxNudges = 1
  HistorySteps = 0
  Budgeted = FALSE
  Ceiling = 12
  InitialSpent = {0}
  Costs = {1}
  Stops = {"end_turn"}
  BatchSizes = {1, 3}
  Bulk = {FALSE}
  SqlAliases = TRUE
  InitialNotes <- MCFresh
INVARIANT
  EvidenceIsAudited
