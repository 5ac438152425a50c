CONSTANTS
  users = users
  versions = versions
  Tables = {users, versions}
  VersionTables = {versions}
  ReturningTables = {versions}
  MasterChecks = 1
  SchemaChecks = 1
  Styles <- MCStyles
SPECIFICATION Spec
PROPERTY BeginFailsAsConfigured
CHECK_DEADLOCK FALSE
