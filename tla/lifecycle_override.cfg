SPECIFICATION Spec
CONSTANTS
  p1 = p1
  p2 = p2
  None = None
  Procs = {p1}
  Logs <- MCLogs
  Configs <- MCConfigs
  Scores <- MCScores
  NoteKinds <- MCNoteKinds
  MaxCommands = 3
  MaxNotes = 2
CHECK_DEADLOCK FALSE
INVARIANT
  OverrideIsSaid
