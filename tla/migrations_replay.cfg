SPECIFICATION Spec
CONSTANTS
  Openers = {o1, o2}
  Scripts <- MCScripts
  MaxCrashes = 0
PROPERTY
  Idempotent
