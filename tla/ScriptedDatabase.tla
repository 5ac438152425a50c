--------------------------- MODULE ScriptedDatabase --------------------------
(***************************************************************************)
(* What a test author is promised: the database under test follows a       *)
(* script.  For each call (a statement on a table, Begin, Commit or        *)
(* Rollback) the script has the outcomes configured for it, numbered in    *)
(* the order in which they were configured; each call takes the first      *)
(* outcome of its own that is left and no other, and is rejected when      *)
(* none is.                                                                *)
(***************************************************************************)
EXTENDS Naturals

CONSTANT Calls

VARIABLES script,   \* for each call, its outcomes not yet taken, by number
          answer    \* the last call and what it was answered

Left(c) == DOMAIN script[c]

IsScript(s) ==
  /\ DOMAIN s = Calls
  /\ \A c \in Calls : /\ DOMAIN s[c] \subseteq Nat
                      /\ \A n \in DOMAIN s[c] : s[c][n] \in {"ok", "error"}

Init == IsScript(script) /\ answer.outcome = "none"

(* What is configured is added after what is left of earlier scripts.      *)
Adds(more, left) ==
  /\ DOMAIN left \subseteq DOMAIN more
  /\ \A n \in DOMAIN left : more[n] = left[n]
  /\ \A n \in DOMAIN left, new \in DOMAIN more \ DOMAIN left : n < new

Configure == /\ UNCHANGED answer
             /\ IsScript(script')
             /\ \A c \in Calls : Adds(script'[c], script[c])

Without(left, n) == [m \in DOMAIN left \ {n} |-> left[m]]

Take(c) == \E first \in Left(c) :
             /\ answer' = [call |-> c, outcome |-> script[c][first]]
             /\ \A n \in Left(c) : first <= n
             /\ script' = [script EXCEPT ![c] = Without(script[c], first)]

Reject(c) == /\ Left(c) = {}
             /\ answer' = [call |-> c, outcome |-> "rejected"]
             /\ UNCHANGED script

Next == Configure \/ \E c \in Calls : Take(c) \/ Reject(c)

Spec == Init /\ [][Next]_<<script, answer>>
==============================================================================
