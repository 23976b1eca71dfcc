SPECIFICATION Spec
CONSTANTS
  Events = {e1, e2}
  MaxObjections = 2
  MaxAnswers = 2
  RebuttalCalls = 1
  MaxBatch = 2
INVARIANT ResponsesAreOwn
SYMMETRY Symmetry
