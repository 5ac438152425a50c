------------------------- MODULE MCConcurrentTests -------------------------
(* Two services and two service IDs: the factory of one creates a mock of  *)
(* the other, whose own factory is plain, and registers itself again.      *)
EXTENDS ConcurrentTests

CONSTANTS s1, s2, mailer, users

MCCreates == [i \in {mailer, users} |-> IF i = users THEN mailer ELSE NoId]
=============================================================================
