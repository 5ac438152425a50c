------------------------- MODULE MCFindExpectations -------------------------
(* One table with soft delete and one without, with their models           *)
(* registered or not, and the where clauses that the builders tell apart.  *)
EXTENDS FindExpectations

CONSTANTS users, logs, prefix_users, prefix_logs, v1, v2

MCPrefixed == (users :> prefix_users) @@ (logs :> prefix_logs)

MCClauses == {"username", "age", "either", "null", "userNotNull",
              "like", "likes", "limit", "order", "offset"}
=============================================================================
