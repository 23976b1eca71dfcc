SPECIFICATION Spec
CONSTANTS
  e1 = e1
  e2 = e2
  t1 = t1
  t2 = t2
  Templates = {t1, t2}
  Events = {e1, e2}
  TemplateOf <- MCTemplateOf
  Rank <- MCRank
  DigestLimit = 2
  MaxNamed = 1
  Signal = {t1, t2}
  Chronic = {t2}
  MaxToolCalls = 2
  MaxNudges = 1
  HistorySteps = 0
  Budgeted = FALSE
  Ceiling = 10
  InitialSpent = {0}
  Costs = {1}
  Stops = {"end_turn"}
  BatchSizes = {1, 2}
  Bulk = {FALSE}
  SqlAliases = FALSE
  InitialNotes <- MCFreshOrResumed
INVARIANTS
  EvidenceIsAudited
  NotesTraceToTheirCall
  EveryIgnoredSignalWasAsked
