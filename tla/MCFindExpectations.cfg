CONSTANTS
  users = users
  logs = logs
  prefix_users = prefix_users
  prefix_logs = prefix_logs
  Prefixed <- MCPrefixed
  Tables = {users, logs}
  SoftTables = {users}
  NamedTables = {logs}
  PrefixCases = {FALSE, TRUE}
  v1 = v1
  v2 = v2
  Values = {v1, v2}
  Room = 1
  Clauses <- MCClauses
SPECIFICATION Spec
INVARIANTS
  DocumentedUseNeverRejected
  ExactPatternsAnswerOnlyTheirFirst
  ArgumentsAreCompared
  RowsAndErrorsAgree
\* A test may stop with a chain complete and nothing left to ask.
CHECK_DEADLOCK FALSE
