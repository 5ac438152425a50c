------------------------------- MODULE Sqlmock -------------------------------
(***************************************************************************)
(* The expectation queue of github.com/DATA-DOG/go-sqlmock v1.5.2, the     *)
(* library that stands for the database in every test.  It is not part of  *)
(* the repository: modelled from how db_test_context.go and                *)
(* expectations_builder.go use it.                                         *)
(*                                                                         *)
(* An expectation has a kind ("begin", "commit", "rollback", "query" or    *)
(* "exec"), the statement its pattern is written for (operation and        *)
(* table), the outcome it was given, and whether a call has met it.  A     *)
(* call of the code under test has a kind, an operation and a table.       *)
(***************************************************************************)
EXTENDS Naturals, Sequences, FiniteSetsExt

CONSTANT VersionTables   \* the tables whose name contains "version"

Expect(kind, op, table, outcome) ==
  [kind |-> kind, op |-> op, table |-> table, outcome |-> outcome, met |-> FALSE]

Call(kind, op, table) == [kind |-> kind, op |-> op, table |-> table]

(* Do the kind and the regular expression of expectation e admit call c?   *)
(* The catch-all version pattern admits every query whose text contains    *)
(* "version", in the name of a table too; the others are exact.            *)
Covers(e, c) ==
  /\ e.kind = c.kind
  /\ \/ e.op = c.op /\ e.table = c.table
     \/ e.op = "any_version" /\ (c.op \in {"sqlite_version", "user_version"}
                                   \/ c.table \in VersionTables)
     \/ e.op = "SQLITE_VERSION" /\ c.op = "sqlite_version"

Unmet(queue) == {n \in DOMAIN queue : ~queue[n].met}

FirstUnmet(queue) == Min(Unmet(queue))

(* The expectations that may answer c.  In order, only the first unmet one *)
(* may; otherwise any unmet one that covers the call.                      *)
Candidates(queue, inOrder, c) ==
  {n \in Unmet(queue) : /\ Covers(queue[n], c)
                        /\ inOrder => n = FirstUnmet(queue)}

(* The answer to c, and the queue after it: the first candidate is met,    *)
(* even when it was configured to answer with an error.                    *)
FirstCandidate(queue, inOrder, c) == Min(Candidates(queue, inOrder, c))

Answer(queue, inOrder, c) ==
  IF Candidates(queue, inOrder, c) = {} THEN "rejected"
  ELSE queue[FirstCandidate(queue, inOrder, c)].outcome

After(queue, inOrder, c) ==
  [n \in DOMAIN queue |->
     IF Candidates(queue, inOrder, c) # {} /\ n = FirstCandidate(queue, inOrder, c)
     THEN [queue[n] EXCEPT !.met = TRUE]
     ELSE queue[n]]
==============================================================================
