CONSTANTS
  r1 = r1
  r2 = r2
  Routines = {r1, r2}
  Models <- MCModels
  Statements <- MCStatements
  MaxSessions = 3
  MaxHelpers = 2
  MaxUses = 2
SPECIFICATION Spec
SYMMETRY Symmetry
INVARIANT NoDuplicateCallbacks
CHECK_DEADLOCK FALSE
