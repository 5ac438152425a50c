------------------------- MODULE MCTransactionHelper -------------------------
(* Instances of TransactionHelper: the clients and the bounds are in the   *)
(* .cfg files, the scripts of the test here.                               *)
EXTENDS TransactionHelper, TLC

Clause(kind, outcome) == [kind |-> kind, outcome |-> outcome]

\* A Begin that fails; a Commit that fails, and a Rollback for a transaction
\* of the test's own.
SomeScripts == {<<Clause("begin", "error")>>,
                <<Clause("commit", "error"), Clause("rollback", "ok")>>}

ClientSymmetry == Permutations(Clients)
==============================================================================
