--------------------------- MODULE MCConcurrentRun ---------------------------
(* Instances of ConcurrentRun: see the .cfg files for the number of        *)
(* routines.  Nothing is added to the specification.                       *)
EXTENDS ConcurrentRun
==============================================================================
