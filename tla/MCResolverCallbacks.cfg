CONSTANTS
  r1 = r1
  r2 = r2
  Routines = {r1, r2}
  Models <- MCModels
  Statements <- MCStatements
  MaxSessions = 4
  MaxHelpers = 1
  MaxUses = 2
SPECIFICATION Spec
SYMMETRY Symmetry
INVARIANTS
  PointersResolveAlone
  OnlyPointersToSlicesBlock
  OneOfEachPerHelper
  ForTableNamesGormsTable
PROPERTIES
  RegisteredNamesAgree
  OnlyOwnCallbacksAreRemoved
\* A goroutine that waits for itself, or a crash, stops the test.
CHECK_DEADLOCK FALSE
