CONSTANTS
  Clients = {a, b}
  Methods = {"ExecuteInTransaction", "WithRollbackOnly", "WithCommitOnly"}
  Scripts <- SomeScripts
  MaxCalls = 3
SPECIFICATION Spec
INVARIANTS
  TypeOK
  UndisturbedNeverRejected
  LeavesTheMockAsFound
  OutcomeIsHonest
  ReturnsWithTransactionEnded
SYMMETRY ClientSymmetry
\* The calls are used up.
CHECK_DEADLOCK FALSE
