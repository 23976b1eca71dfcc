SPECIFICATION Spec
CONSTANTS
  Openers = {o1, o2}
  Scripts <- MCScripts
  MaxCrashes = 2
SYMMETRY Symmetry
INVARIANT
  OpenIsComplete
