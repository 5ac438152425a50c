CONSTANTS
  users = users
  logs = logs
  prefix_users = prefix_users
  prefix_logs = prefix_logs
  Prefixed <- MCPrefixed
  Tables = {users, logs}
  SoftTables = {users}
  NamedTables = {}
  PrefixCases = {FALSE}
  v1 = v1
  v2 = v2
  Values = {v1, v2}
  Room = 1
  Clauses <- MCClauses
SPECIFICATION Spec
INVARIANT FirstExampleMatches
CHECK_DEADLOCK FALSE
