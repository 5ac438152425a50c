CONSTANTS
  users = users
  versions = versions
  Tables = {users, versions}
  VersionTables = {versions}
  ReturningTables = {versions}
  MasterChecks = 1
  SchemaChecks = 1
  Styles <- MCStyles
SPECIFICATION Spec
INVARIANT UnmetIsReported
CHECK_DEADLOCK FALSE
