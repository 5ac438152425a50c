------------------------- MODULE MCTransactionCases -------------------------
(* A timeout and a retry in either order, alone and twice, and hooks; a    *)
(* mock told of two transactions, of which the first may fail to begin.    *)
EXTENDS TransactionCases

MCDecorations ==
  {<<>>, <<"retry">>, <<"timeout", "before_hook">>, <<"timeout", "retry">>,
   <<"retry", "timeout">>, <<"retry", "after_hook", "timeout", "retry">>}

Clause(kind, outcome) == [kind |-> kind, outcome |-> outcome]

MCScripts ==
  {<<Clause("begin", first), Clause("begin", "ok"), Clause("commit", "ok")>> :
     first \in {"ok", "error"}}

MCEnds == {<<>>, <<"commit">>, <<"rollback", "commit">>}
=============================================================================
