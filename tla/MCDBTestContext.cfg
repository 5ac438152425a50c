CONSTANTS
  users = users
  versions = versions
  Tables = {users, versions}
  VersionTables = {versions}
  ReturningTables = {versions}
  MasterChecks = 1
  SchemaChecks = 1
  Styles <- MCStyles
SPECIFICATION Spec
INVARIANTS
  TypeOK
  SilentUntilSelect1
  ScriptedCreateNeverRejected
PROPERTY FollowsScript
\* A torn down context takes no further step.
CHECK_DEADLOCK FALSE
