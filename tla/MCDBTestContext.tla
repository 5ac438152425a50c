--------------------------- MODULE MCDBTestContext ---------------------------
(* The styles of test that the run of DBTestContext explores.  Groups of   *)
(* methods are kept apart so that each gets room for several steps.        *)
EXTENDS DBTestContext

CONSTANTS users, versions

\* Three ExpectCreate or ExpectCreateError, on one table or on both; every
\* create the code performs is one the test scripted.
OnlyCreates == [uses |-> {"create", "scripted_creates"},
                tables |-> {users, versions}, room |-> 12]

\* Creates scripted among transactions of which some fail to begin.
MixedCreates == [uses |-> {"chain", "scripted_creates"}, tables |-> {versions}, room |-> 6]

\* ExpectTransaction() and the methods of what it returns.
Chains == [uses |-> {"chain", "transactions", "skip"}, tables |-> {versions}, room |-> 5]

\* Expectations added one by one, against every write GORM may make.
ByHand == [uses |-> {"bare_create", "update", "raw", "writes", "transactions"},
           tables |-> {versions}, room |-> 3]

\* GORM's own queries against the defaults, an added SELECT 1 among them.
Queries == [uses |-> {"bare_create", "raw", "writes", "background"},
            tables |-> {users}, room |-> 1]

MCStyles == {OnlyCreates, MixedCreates, Chains, ByHand, Queries}
==============================================================================
