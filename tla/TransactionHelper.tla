-------------------------- MODULE TransactionHelper --------------------------
(***************************************************************************)
(* ExecuteInTransaction, WithRollbackOnly and WithCommitOnly of            *)
(* TransactionTestHelper (transaction_test_helpers.go) on one context      *)
(* shared by several clients: the test itself, or the goroutines that      *)
(* RunParallelQueries hands the same context to.                           *)
(*                                                                         *)
(* The helper tells the mock to expect Begin, calls Begin, runs fn, tells  *)
(* the mock to expect Commit or Rollback, and calls it.  The two halves of *)
(* each pair are separate calls.  Telling the mock is an append to a Go    *)
(* slice that nothing locks, so it is a read of the slice and a write of   *)
(* the longer one; a call scans the slice it read.  The expectations       *)
(* themselves are shared, and marked as met under a lock of their own.     *)
(***************************************************************************)
EXTENDS Integers, Sequences, FiniteSets, Functions

CONSTANTS
  Clients,
  Methods,    \* the helper's methods the clients call
  Scripts,    \* what a test may have told the mock beforehand
  MaxCalls    \* calls of the helper, all clients together

AllMethods == {"ExecuteInTransaction", "WithRollbackOnly", "WithCommitOnly"}
Ends == {"commit", "rollback"}
Kinds == {"begin"} \cup Ends
Expectations == [kind : Kinds, op : {"-"}, table : {"-"},
                 outcome : {"ok", "error"}, met : BOOLEAN]

ASSUME TransactionHelperAssumption ==
  /\ Methods \subseteq AllMethods
  /\ Scripts \subseteq Seq([kind : Kinds, outcome : {"ok", "error"}])
  /\ MaxCalls \in Nat

INSTANCE Sqlmock WITH VersionTables <- {}

VARIABLES
  made,       \* every expectation ever made, in the order of making
  expected,   \* the mock's slice of them, by number
  pc,         \* [Clients -> where the client is]
  seen,       \* [Clients -> the slice as the client read it, while it uses it]
  wants,      \* [Clients -> the kind it appends or calls for]
  method,     \* [Clients -> the method it is in]
  fnErr,      \* [Clients -> did fn return an error?]
  tx,         \* [Clients -> "none", "open" or "done": the state of its *sql.Tx]
  result,     \* [Clients -> what its last call returned]
  commits,    \* [Clients -> commits the mock accepted within its last call]
  rejected,   \* [Clients -> has the mock rejected a call of the helper?]
  disturbed,  \* [Clients -> was it ever between telling the mock and being
              \*  answered while another client was, or while fn ended a
              \*  transaction?]
  endedByFn,  \* has an fn ended its transaction itself?
  calls,      \* calls of the helper so far
  script      \* what the test told the mock beforehand

mockVars == <<made, expected>>
callVars == <<method, fnErr, result, calls>>
vars == <<mockVars, pc, seen, wants, tx, commits, rejected, disturbed, endedByFn, callVars, script>>

None == "-"
InOrder == FALSE
Results == {None, "nil", "fn_error", "begin_error", "commit_error"}

Init ==
  /\ script \in Scripts
  /\ made = [n \in DOMAIN script |-> Expect(script[n].kind, None, None, script[n].outcome)]
  /\ expected = [n \in DOMAIN script |-> n]
  /\ pc = [c \in Clients |-> "idle"]
  /\ seen = [c \in Clients |-> <<>>]
  /\ wants = [c \in Clients |-> "begin"]
  /\ method = [c \in Clients |-> None]
  /\ fnErr = [c \in Clients |-> FALSE]
  /\ tx = [c \in Clients |-> "none"]
  /\ result = [c \in Clients |-> None]
  /\ commits = [c \in Clients |-> 0]
  /\ rejected = [c \in Clients |-> FALSE]
  /\ disturbed = [c \in Clients |-> FALSE]
  /\ endedByFn = FALSE
  /\ calls = 0

TypeOK ==
  /\ made \in Seq(Expectations)
  /\ expected \in Seq(DOMAIN made)
  /\ pc \in [Clients -> {"idle", "tell", "telling", "told", "calling", "fn", "gone"}]
  /\ seen \in [Clients -> Seq(DOMAIN made)]
  /\ wants \in [Clients -> Kinds]
  /\ method \in [Clients -> AllMethods \cup {None}]
  /\ fnErr \in [Clients -> BOOLEAN]
  /\ tx \in [Clients -> {"none", "open", "done"}]
  /\ result \in [Clients -> Results]
  /\ commits \in [Clients -> 0 .. 1]
  /\ rejected \in [Clients -> BOOLEAN]
  /\ disturbed \in [Clients -> BOOLEAN]
  /\ endedByFn \in BOOLEAN
  /\ calls \in 0 .. MaxCalls

------------------------------------------------------------------------------
(* A client is exposed from its reading the slice until it is answered.    *)
Exposed(c) == pc[c] \in {"telling", "told", "calling"}

Queue(slice) == [n \in DOMAIN slice |-> made[slice[n]]]

(* What a call answered from slice gets, and the expectations after it.    *)
AnswerFrom(slice, call) == Answer(Queue(slice), InOrder, call)
MetBy(slice, call) ==
  IF AnswerFrom(slice, call) = "rejected" THEN made
  ELSE [made EXCEPT ![slice[FirstCandidate(Queue(slice), InOrder, call)]].met = TRUE]

(* Bugs this code could plausibly have, for the properties to notice.      *)
CommitErrorIgnored(c, answer) ==
  IF fnErr[c] THEN "fn_error" ELSE "nil"

CommitExpected(c) ==     \* the error path tells the mock of a Commit
  /\ pc[c] = "telling"
  /\ pc' = [pc EXCEPT ![c] = "told"]
  /\ made' = Append(made, Expect(IF wants[c] = "begin" THEN "begin" ELSE "commit",
                                 None, None, "ok"))
  /\ expected' = Append(seen[c], Len(made'))
  /\ seen' = [seen EXCEPT ![c] = <<>>]
  /\ UNCHANGED <<wants, tx, commits, rejected, disturbed, endedByFn, callVars, script>>

EndForgotten(m, err) ==  \* only the method that looks at err ends anything
  IF m # "ExecuteInTransaction" THEN None ELSE IF err THEN "rollback" ELSE "commit"

EarlyReturn(c, err) ==   \* if err # nil { return err } before the Rollback
  /\ pc[c] = "fn"
  /\ fnErr' = [fnErr EXCEPT ![c] = err]
  /\ wants' = [wants EXCEPT ![c] = IF err THEN "rollback" ELSE "commit"]
  /\ pc' = [pc EXCEPT ![c] = IF err THEN "idle" ELSE "tell"]
  /\ result' = [result EXCEPT ![c] = IF err THEN "fn_error" ELSE @]
  /\ UNCHANGED <<mockVars, seen, tx, commits, rejected, disturbed, endedByFn, method,
                 calls, script>>

------------------------------------------------------------------------------
(* The end the method expects and calls for: ExecuteInTransaction looks at *)
(* what fn returned, the two others do not.                                *)
EndOf(m, err) ==
  IF m = "WithRollbackOnly" \/ (m = "ExecuteInTransaction" /\ err)
  THEN "rollback" ELSE "commit"

(* What the method returns once the end was answered.  The error of a      *)
(* Rollback is dropped.                                                    *)
Returns(c, answer) ==
  IF wants[c] = "commit" /\ answer # "ok" THEN "commit_error"
  ELSE IF fnErr[c] THEN "fn_error" ELSE "nil"

CallHelper(c) ==
  /\ pc[c] = "idle"
  /\ calls < MaxCalls
  /\ calls' = calls + 1
  /\ \E m \in Methods : method' = [method EXCEPT ![c] = m]
  /\ pc' = [pc EXCEPT ![c] = "tell"]
  /\ wants' = [wants EXCEPT ![c] = "begin"]
  /\ tx' = [tx EXCEPT ![c] = "none"]
  /\ fnErr' = [fnErr EXCEPT ![c] = FALSE]
  /\ result' = [result EXCEPT ![c] = None]
  /\ commits' = [commits EXCEPT ![c] = 0]
  /\ UNCHANGED <<mockVars, seen, rejected, disturbed, endedByFn, script>>

(* mock.ExpectBegin(), ExpectCommit() or ExpectRollback(): the slice is    *)
(* read ...                                                                *)
Tell(c) ==
  /\ pc[c] = "tell"
  /\ pc' = [pc EXCEPT ![c] = "telling"]
  /\ seen' = [seen EXCEPT ![c] = expected]
  /\ LET others == {d \in Clients \ {c} : Exposed(d)}
     IN  disturbed' = [d \in Clients |-> \/ disturbed[d]
                                         \/ d \in others
                                         \/ d = c /\ others # {}]
  /\ UNCHANGED <<mockVars, wants, tx, commits, rejected, endedByFn, callVars, script>>

(* ... and written back with the new expectation.                          *)
Told(c) ==
  /\ pc[c] = "telling"
  /\ pc' = [pc EXCEPT ![c] = "told"]
  /\ made' = Append(made, Expect(wants[c], None, None, "ok"))
  /\ expected' = Append(seen[c], Len(made'))
  /\ seen' = [seen EXCEPT ![c] = <<>>]
  /\ UNCHANGED <<wants, tx, commits, rejected, disturbed, endedByFn, callVars, script>>

(* db.Begin(), tx.Commit() or tx.Rollback().  A transaction that fn ended  *)
(* is done: database/sql refuses to end it again and never asks the mock.  *)
CallMock(c) ==
  /\ pc[c] = "told"
  /\ tx[c] # "done"
  /\ pc' = [pc EXCEPT ![c] = "calling"]
  /\ seen' = [seen EXCEPT ![c] = expected]
  /\ UNCHANGED <<mockVars, wants, tx, commits, rejected, disturbed, endedByFn, callVars, script>>

EndRefused(c) ==
  /\ pc[c] = "told"
  /\ tx[c] = "done"
  /\ pc' = [pc EXCEPT ![c] = "idle"]
  /\ result' = [result EXCEPT ![c] = Returns(c, "refused")]
  /\ UNCHANGED <<mockVars, seen, wants, tx, commits, rejected, disturbed,
                 endedByFn, method, fnErr, calls, script>>

(* The mock scans the slice that was read, over the expectations as they   *)
(* are now.                                                                *)
Answered(c) ==
  LET call   == Call(wants[c], None, None)
      answer == AnswerFrom(seen[c], call)
      begun  == wants[c] = "begin" /\ answer = "ok"
  IN
  /\ pc[c] = "calling"
  /\ made' = MetBy(seen[c], call)
  /\ rejected' = [rejected EXCEPT ![c] = @ \/ answer = "rejected"]
  /\ pc' = [pc EXCEPT ![c] = IF begun THEN "fn" ELSE "idle"]
  /\ tx' = [tx EXCEPT ![c] = IF begun THEN "open"
                             ELSE IF wants[c] \in Ends THEN "done" ELSE @]
  /\ result' = [result EXCEPT ![c] = IF begun THEN @
                                     ELSE IF wants[c] = "begin" THEN "begin_error"
                                     ELSE Returns(c, answer)]
  /\ commits' = [commits EXCEPT ![c] =
                   IF wants[c] = "commit" /\ answer = "ok" THEN @ + 1 ELSE @]
  /\ seen' = [seen EXCEPT ![c] = <<>>]
  /\ UNCHANGED <<expected, wants, disturbed, endedByFn, method, fnErr, calls, script>>

(* fn ends the transaction it was given: the mock expected it or not, the  *)
(* transaction is done in any case.                                        *)
FnEnds(c, end) ==
  LET call == Call(end, None, None) IN
  /\ pc[c] = "fn"
  /\ tx[c] = "open"
  /\ tx' = [tx EXCEPT ![c] = "done"]
  /\ made' = MetBy(expected, call)
  /\ commits' = [commits EXCEPT ![c] =
                   IF end = "commit" /\ AnswerFrom(expected, call) = "ok" THEN @ + 1 ELSE @]
  /\ endedByFn' = TRUE
  /\ disturbed' = [d \in Clients |-> disturbed[d] \/ Exposed(d)]
  /\ UNCHANGED <<expected, pc, seen, wants, rejected, callVars, script>>

(* fn returns, with an error or without.                                   *)
FnReturns(c, err) ==
  /\ pc[c] = "fn"
  /\ fnErr' = [fnErr EXCEPT ![c] = err]
  /\ wants' = [wants EXCEPT ![c] = EndOf(method[c], err)]
  /\ pc' = [pc EXCEPT ![c] = "tell"]
  /\ UNCHANGED <<mockVars, seen, tx, commits, rejected, disturbed, endedByFn,
                 method, result, calls, script>>

(* fn panics or fails the test with t.FailNow: nothing is deferred, the    *)
(* transaction is left as it is and the goroutine is gone.                 *)
FnPanics(c) ==
  /\ pc[c] = "fn"
  /\ pc' = [pc EXCEPT ![c] = "gone"]
  /\ UNCHANGED <<mockVars, seen, wants, tx, commits, rejected, disturbed, endedByFn,
                 callVars, script>>

Step(c) ==
  \/ CallHelper(c) \/ Tell(c) \/ Told(c) \/ CallMock(c) \/ EndRefused(c) \/ Answered(c)
  \/ \E end \in Ends : FnEnds(c, end)
  \/ \E err \in BOOLEAN : FnReturns(c, err)
  \/ FnPanics(c)

Next == \E c \in Clients : Step(c)

Spec == Init /\ [][Next]_vars

------------------------------------------------------------------------------
(* A client that no other disturbs between an ExpectBegin, ExpectCommit or *)
(* ExpectRollback of the helper and the call it is for always finds an     *)
(* expectation of that kind: however other transactions are interleaved    *)
(* around those moments, and whatever they left behind or took.            *)
UndisturbedNeverRejected ==
  \A c \in Clients : rejected[c] => disturbed[c]

(* The helper leaves the mock as it found it: when no client is inside it, *)
(* as many Begins, Commits and Rollbacks are unmet as the test had asked   *)
(* for itself, whichever of them were met, so that what is verified at the *)
(* end is what the test asked for.                                         *)
Balanced(kind) ==
  Cardinality({n \in DOMAIN expected : /\ made[expected[n]].kind = kind
                                       /\ ~made[expected[n]].met})
    = Cardinality({n \in DOMAIN script : script[n].kind = kind})

LeavesTheMockAsFound ==
  (\A c \in Clients : ~disturbed[c] /\ pc[c] \in {"idle", "fn", "gone"}) /\ ~endedByFn
    => \A kind \in Kinds : Balanced(kind)

(* nil is returned only by a call whose work was committed, once, or by    *)
(* WithRollbackOnly; and what ExecuteInTransaction or WithRollbackOnly     *)
(* reports as failed was not committed, unless fn did it itself.           *)
OutcomeIsHonest ==
  \A c \in Clients :
    pc[c] = "idle" =>
      /\ result[c] = "nil" /\ method[c] # "WithRollbackOnly" => commits[c] = 1
      /\ ~endedByFn /\ method[c] # "WithCommitOnly" /\ result[c] # "nil" => commits[c] = 0
      /\ fnErr[c] /\ method[c] # "WithCommitOnly" => result[c] = "fn_error"

(* A transaction stays open only inside fn, or when fn never returned: a   *)
(* helper that returns, with whatever error, has ended it.                 *)
ReturnsWithTransactionEnded ==
  \A c \in Clients : tx[c] = "open" => result[c] = None
==============================================================================
