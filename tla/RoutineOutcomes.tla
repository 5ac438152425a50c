--------------------------- MODULE RoutineOutcomes ---------------------------
(***************************************************************************)
(* What a fan-out helper of concurrent_test_helpers.go promises its caller *)
(* whatever channels, goroutines and wait groups it is built from: every   *)
(* routine gets exactly one outcome, a time-out is an outcome only once    *)
(* the deadline has passed, and the call returns once, with the failures   *)
(* of all the routines, when every routine has its outcome.                *)
(***************************************************************************)
CONSTANT Routines     \* the routines the call starts

VARIABLES outcome,    \* [Routines -> {"pending", "ok", "err", "timeout"}]
          deadline,   \* has the deadline passed?
          reports     \* what was handed back: no set of failures yet, or one

vars == <<outcome, deadline, reports>>

Failures == {[id |-> i, kind |-> outcome[i]] :
               i \in {j \in Routines : outcome[j] # "ok"}}

Init == /\ outcome = [i \in Routines |-> "pending"]
        /\ deadline = FALSE
        /\ reports = {}

Expire == /\ reports = {}
          /\ deadline' = TRUE
          /\ UNCHANGED <<outcome, reports>>

Decide(i) == /\ outcome[i] = "pending"
             /\ \E o \in {"ok", "err"} \cup (IF deadline THEN {"timeout"} ELSE {}) :
                   outcome' = [outcome EXCEPT ![i] = o]
             /\ UNCHANGED <<deadline, reports>>

Return == /\ reports = {}
          /\ \A i \in Routines : outcome[i] # "pending"
          /\ reports' = {Failures}
          /\ UNCHANGED <<outcome, deadline>>

Next == Expire \/ Return \/ \E i \in Routines : Decide(i)

Spec == Init /\ [][Next]_vars
==============================================================================
