SPECIFICATION Spec
CONSTANTS
  p1 = p1
  p2 = p2
  None = None
  Procs = {p1, p2}
  Logs <- MCLogs
  Configs <- MCConfigs
  Scores <- MCScores
  NoteKinds <- MCNoteKinds
  MaxCommands = 3
  MaxNotes = 2
SYMMETRY Symmetry
CHECK_DEADLOCK FALSE
INVARIANTS
  SpendIsGated
  PartialIsWarned
  RefusalLeavesTheRecord
  SharedOnPurpose
  StatusIsTheWorst
  CitationsResolve
  ShiftedSourceIsNamed
PROPERTY
  LogsOnlyGrow
