SPECIFICATION Spec
CONSTANTS
  Calls = {c1, c2}
  Incidents = {i1, i2}
  MaxCrashes = 1
INVARIANTS
  WriterKeepsItsScratchpad
  OneAuthorPerRecord
PROPERTIES
  ImplementsPromise
  EveryCallAnswered
