-------------------------- MODULE DBTestContextProofs --------------------------
(***************************************************************************)
(* Proofs about DBTestContext, for any tables, any number of defaults and  *)
(* any styles of test: the types; that VerifyExpectations is silent as     *)
(* long as the default SELECT 1 has not been consumed; that the queue      *)
(* keeps the promise of ScriptedDatabase; and that a create the test       *)
(* scripted is never rejected half way.                                    *)
(***************************************************************************)
EXTENDS DBTestContext, CountingLemmas

Outcomes == {"ok", "error"}

(* The default SELECT 1 stays where configureSQLMockDefaults put it: every *)
(* builder appends, and meeting an expectation does not move it.           *)
FirstIsSelect1 ==
  /\ Len(expected) >= 1
  /\ expected[1].op = "SELECT_1"

IInv ==
  /\ TypeOK
  /\ FirstIsSelect1
  /\ SilentUntilSelect1

------------------------------------------------------------------------------
(* The least of a set of positions.                                        *)
LEMMA LeastOfPositions ==
  ASSUME NEW S \in SUBSET Nat, S # {}
  PROVE  Min(S) \in S /\ \A n \in S : Min(S) <= n
BY LeastExists DEF Min

(* An expectation made of a kind, a statement, a table and an outcome is   *)
(* one.                                                                    *)
LEMMA ExpectationType ==
  ASSUME NEW kind \in {"begin", "commit", "rollback", "query", "exec"},
         NEW op \in BackgroundOps \cup {"any_version", "SQLITE_VERSION", "insert",
                                        "update", "delete", None},
         NEW table \in Tables \cup {None}, NEW outcome \in Outcomes
  PROVE  Expect(kind, op, table, outcome) \in Expectations
BY DEF Expect, Expectations, Outcomes

(* Appending leaves the first expectation first.                           *)
LEMMA FirstStays ==
  ASSUME NEW S, NEW s \in Seq(S), NEW more \in Seq(S), Len(s) >= 1
  PROVE  /\ s \o more \in Seq(S)
         /\ Len(s \o more) >= Len(s)
         /\ (s \o more)[1] = s[1]
<1>1. Len(s) \in Nat /\ Len(more) \in Nat
  BY LenProperties
<1> QED
  BY <1>1, ConcatProperties

(* The defaults are expectations of queries, SELECT 1 first and unmet.     *)
Checks == {e \in Expectations : e.op # "insert"}

(* What configureSQLMockDefaults queues.                                   *)
LEMMA DefaultsType ==
  /\ Defaults \in Seq(Expectations)
  /\ Defaults \in Seq(Checks)
  /\ Len(Defaults) >= 1
  /\ Defaults[1] = Default("SELECT_1")
<1> DEFINE first6 == <<Default("SELECT_1"), Default("select_1"), Default("any_version"),
                     Default("sqlite_version"), Default("SQLITE_VERSION"),
                     Default("user_version")>>
<1>1. ASSUME NEW op \in BackgroundOps \cup {"any_version", "SQLITE_VERSION"}
      PROVE  Default(op) \in Checks
  <2>1. Default(op) \in Expectations /\ Default(op).op = op /\ op # "insert"
    BY ExpectationType DEF Default, Outcomes, Expect, BackgroundOps
  <2> QED
    BY <2>1 DEF Checks
<1>2. first6 \in Seq(Checks) /\ Len(first6) >= 1 /\ first6[1] = Default("SELECT_1")
  <2>1. /\ Default("SELECT_1") \in Checks /\ Default("select_1") \in Checks
        /\ Default("any_version") \in Checks /\ Default("sqlite_version") \in Checks
        /\ Default("SQLITE_VERSION") \in Checks
        /\ Default("user_version") \in Checks
    BY <1>1 DEF BackgroundOps
  <2> QED
    BY <2>1
<1>3. ASSUME NEW op \in BackgroundOps, NEW times \in Nat
      PROVE  Repeated(op, times) \in Seq(Checks)
  <2>1. Default(op) \in Checks
    BY <1>1
  <2> QED
    BY <2>1 DEF Repeated
<1>4. /\ Repeated("sqlite_master", MasterChecks) \in Seq(Checks)
      /\ Repeated("table_info", SchemaChecks) \in Seq(Checks)
      /\ Repeated("foreign_key_list", SchemaChecks) \in Seq(Checks)
      /\ Repeated("index_list", SchemaChecks) \in Seq(Checks)
  BY <1>3, DBTestContextAssumption DEF BackgroundOps
<1> HIDE DEF first6
<1> DEFINE d1 == first6 \o Repeated("sqlite_master", MasterChecks)
           d2 == d1 \o Repeated("table_info", SchemaChecks)
           d3 == d2 \o Repeated("foreign_key_list", SchemaChecks)
<1>5. d1 \in Seq(Checks) /\ Len(d1) >= 1 /\ d1[1] = Default("SELECT_1")
  BY <1>2, <1>4, FirstStays
<1>6. d2 \in Seq(Checks) /\ Len(d2) >= 1 /\ d2[1] = Default("SELECT_1")
  <2> HIDE DEF d1
  <2> QED
    BY <1>4, <1>5, LenProperties, FirstStays
<1>7. d3 \in Seq(Checks) /\ Len(d3) >= 1 /\ d3[1] = Default("SELECT_1")
  <2> HIDE DEF d2
  <2> QED
    BY <1>4, <1>6, LenProperties, FirstStays
<1>8. /\ d3 \o Repeated("index_list", SchemaChecks) \in Seq(Checks)
      /\ Len(d3 \o Repeated("index_list", SchemaChecks)) >= 1
      /\ (d3 \o Repeated("index_list", SchemaChecks))[1] = Default("SELECT_1")
  <2> HIDE DEF d3
  <2> QED
    BY <1>4, <1>7, LenProperties, FirstStays
<1>9. Defaults \in Seq(Checks)
  BY <1>8 DEF Defaults, first6
<1>10. Defaults \in Seq(Expectations)
  BY <1>9, SeqMonotonic DEF Checks
<1> QED
  BY <1>8, <1>9, <1>10 DEF Defaults, first6

(* A call meets at most one expectation and changes nothing else in the    *)
(* queue.                                                                  *)
LEMMA AfterKeeps ==
  ASSUME NEW queue \in Seq(Expectations), NEW c
  PROVE  /\ After(queue, InOrder, c) \in Seq(Expectations)
         /\ Len(After(queue, InOrder, c)) = Len(queue)
         /\ \A n \in 1 .. Len(queue) :
              /\ After(queue, InOrder, c)[n].op = queue[n].op
              /\ queue[n].met => After(queue, InOrder, c)[n].met
<1> DEFINE next == After(queue, InOrder, c)
<1>1. DOMAIN queue = 1 .. Len(queue) /\ Len(queue) \in Nat
      /\ \A n \in 1 .. Len(queue) : queue[n] \in Expectations
  BY LenProperties, ElementOfSeq
<1>2. \A n \in 1 .. Len(queue) : next[n] \in {queue[n], [queue[n] EXCEPT !.met = TRUE]}
  BY <1>1 DEF After
<1>3. \A e \in Expectations : /\ [e EXCEPT !.met = TRUE] \in Expectations
                              /\ [e EXCEPT !.met = TRUE].op = e.op
                              /\ [e EXCEPT !.met = TRUE].met
  BY DEF Expectations
<1>4. next = [n \in 1 .. Len(queue) |-> next[n]]
  BY <1>1 DEF After
<1> HIDE DEF next
<1>5. \A n \in 1 .. Len(queue) : /\ next[n] \in Expectations
                                 /\ next[n].op = queue[n].op
                                 /\ queue[n].met => next[n].met
  BY <1>1, <1>2, <1>3
<1>6. next \in Seq(Expectations) /\ Len(next) = Len(queue)
  BY <1>1, <1>4, <1>5
<1> QED
  BY <1>5, <1>6 DEF next

(* The mock answers with a configured outcome or rejects the call.         *)
LEMMA AnswerType ==
  ASSUME NEW queue \in Seq(Expectations), NEW c
  PROVE  Answer(queue, InOrder, c) \in {"ok", "error", "rejected"}
<1> DEFINE S == Candidates(queue, InOrder, c)
<1>1. S \in SUBSET (1 .. Len(queue)) /\ Len(queue) \in Nat
  BY LenProperties DEF Candidates, Unmet
<1>2. CASE S = {}
  BY <1>2 DEF Answer
<1>3. CASE S # {}
  <2>1. Min(S) \in 1 .. Len(queue)
    <3> HIDE DEF S
    <3>1. S \in SUBSET Nat
      BY <1>1
    <3>2. Min(S) \in S
      BY <1>3, <3>1, LeastOfPositions
    <3> QED
      BY <1>1, <3>2
  <2>2. queue[Min(S)] \in Expectations
    <3> HIDE DEF S
    <3> QED
      BY <2>1, ElementOfSeq
  <2>3. queue[Min(S)].outcome \in {"ok", "error"}
    <3> HIDE DEF S
    <3> QED
      BY <2>2 DEF Expectations
  <2> QED
    BY <1>3, <2>3 DEF Answer, FirstCandidate
<1> QED
  BY <1>2, <1>3

(* What VerifyExpectations reports is in the queue, and is nothing while   *)
(* SELECT 1, which the filter drops, is unmet.                             *)
LEMMA ReportedIsLate ==
  ASSUME TypeOK, FirstIsSelect1
  PROVE  /\ Reported \subseteq DOMAIN expected
         /\ ~expected[1].met => Reported = {}
<1>1. Unmet(expected) \in SUBSET (1 .. Len(expected)) /\ Len(expected) \in Nat
      /\ DOMAIN expected = 1 .. Len(expected)
  BY LenProperties DEF TypeOK, Unmet
<1>2. CASE Unmet(expected) = {}
  <2>1. expected[1].met
    BY <1>1, <1>2 DEF FirstIsSelect1, Unmet
  <2> QED
    BY <1>2, <2>1 DEF Reported
<1>3. CASE Unmet(expected) # {}
  <2>1. /\ FirstUnmet(expected) \in Unmet(expected)
        /\ \A n \in Unmet(expected) : FirstUnmet(expected) <= n
    BY <1>1, <1>3, LeastOfPositions DEF FirstUnmet
  <2>2. Reported \subseteq DOMAIN expected
    BY <1>1, <2>1 DEF Reported
  <2>3. ASSUME ~expected[1].met PROVE Reported = {}
    <3>1. 1 \in Unmet(expected)
      BY <1>1, <2>3 DEF FirstIsSelect1, Unmet
    <3>2. FirstUnmet(expected) = 1
      BY <1>1, <2>1, <3>1
    <3> QED
      BY <3>2 DEF Reported, Ignored, FirstIsSelect1
  <2> QED
    BY <2>2, <2>3
<1> QED
  BY <1>2, <1>3

------------------------------------------------------------------------------
(* The three ways a step touches the queue: a builder appends to it, a     *)
(* call meets one of its expectations, or it is only looked at.            *)
LEMMA AppendingKeeps ==
  ASSUME IInv, NEW es \in Seq(Expectations), expected' = expected \o es,
         chains' \in Seq(Tables), UNCHANGED <<skipVerification, logged, tornDown, style, codeVars>>
  PROVE  IInv'
<1>1. /\ expected' \in Seq(Expectations) /\ Len(expected') >= Len(expected)
      /\ expected'[1] = expected[1] /\ Len(expected) \in Nat
      /\ DOMAIN expected = 1 .. Len(expected) /\ DOMAIN expected' = 1 .. Len(expected')
  BY ConcatProperties, LenProperties DEF IInv, TypeOK, FirstIsSelect1
<1>2. logged' \subseteq DOMAIN expected'
  BY <1>1, LenProperties DEF IInv, TypeOK
<1>3. TypeOK'
  BY <1>1, <1>2 DEF IInv, TypeOK, codeVars
<1> QED
  BY <1>1, <1>3, LenProperties DEF IInv, TypeOK, FirstIsSelect1, SilentUntilSelect1

(* A call of the code under test keeps the invariant: it may meet one      *)
(* expectation, and changes none in any other way.                         *)
LEMMA CallingKeeps ==
  ASSUME IInv, NEW c \in Calls, Calling(c),
         pc' \in {"idle", "write", "commit", "rollback"},
         pending' \in Calls, explicit' \in BOOLEAN
  PROVE  IInv'
<1>1. /\ expected' \in Seq(Expectations) /\ Len(expected') = Len(expected)
      /\ Len(expected) \in Nat
      /\ DOMAIN expected = 1 .. Len(expected) /\ DOMAIN expected' = 1 .. Len(expected')
      /\ \A n \in 1 .. Len(expected) : /\ expected'[n].op = expected[n].op
                                       /\ expected[n].met => expected'[n].met
  BY AfterKeeps, LenProperties DEF IInv, TypeOK, Calling
<1>2. answer'.call \in Calls /\ answer'.outcome \in {"none", "ok", "error", "rejected"}
  BY AnswerType DEF IInv, TypeOK, Calling
<1>3. TypeOK'
  BY <1>1, <1>2 DEF IInv, TypeOK, Calling, AuthorVarsUnchanged, testVars
<1>4. FirstIsSelect1'
  BY <1>1 DEF IInv, FirstIsSelect1
<1>5. SilentUntilSelect1'
  BY <1>1 DEF IInv, FirstIsSelect1, SilentUntilSelect1, Calling, AuthorVarsUnchanged, testVars
<1> QED
  BY <1>3, <1>4, <1>5 DEF IInv

(* Verifying keeps the invariant: what it adds to the warnings is warned   *)
(* about rightly.                                                          *)
LEMMA VerifyingKeeps ==
  ASSUME IInv, logged' = logged \cup Reported, tornDown' \in BOOLEAN,
         UNCHANGED <<expected, chains, skipVerification, style, codeVars>>
  PROVE  IInv'
<1>1. Reported \subseteq DOMAIN expected /\ (~expected[1].met => Reported = {})
  BY ReportedIsLate DEF IInv
<1>2. logged' \subseteq DOMAIN expected'
  BY <1>1 DEF IInv, TypeOK
<1>3. TypeOK'
  BY <1>2 DEF IInv, TypeOK, codeVars
<1> QED
  BY <1>1, <1>3 DEF IInv, FirstIsSelect1, SilentUntilSelect1

------------------------------------------------------------------------------
(* The invariant holds when NewDBTestContext returns.                      *)
LEMMA InitEstablishes == Init => IInv
<1> SUFFICES ASSUME Init PROVE IInv
  OBVIOUS
<1>1. /\ expected \in Seq(Expectations) /\ Len(expected) >= 1
      /\ expected[1].op = "SELECT_1"
  BY DefaultsType, AfterKeeps, LenProperties DEF Init, Connected, Default, Expect
<1>2. TypeOK
  BY <1>1, EmptySeq DEF Init, TypeOK, Calls
<1> QED
  BY <1>1, <1>2 DEF Init, IInv, FirstIsSelect1, SilentUntilSelect1

(* What each builder method appends is a sequence of expectations.         *)
LEMMA TransactionForms ==
  ASSUME NEW outcome \in Outcomes, NEW kind \in {"begin", "commit", "rollback"}
  PROVE  /\ <<Expect(kind, None, None, outcome)>> \in Seq(Expectations)
         /\ <<Expect("rollback", None, None, "ok"), Expect("commit", None, None, "ok")>>
              \in Seq(Expectations)
         /\ <<Default("SELECT_1")>> \in Seq(Expectations)
<1>1. /\ Expect(kind, None, None, outcome) \in Expectations
      /\ Expect("commit", None, None, "ok") \in Expectations
      /\ Expect("rollback", None, None, "ok") \in Expectations
  BY ExpectationType DEF Outcomes
<1>2. Default("SELECT_1") \in Expectations
  BY ExpectationType DEF Default, Outcomes, BackgroundOps
<1> QED
  BY <1>1, <1>2

(* What the methods for inserts, updates and deletes append is a sequence  *)
(* of expectations too.                                                    *)
LEMMA WriteForms ==
  ASSUME NEW t \in Tables, NEW outcome \in Outcomes, NEW op \in {"update", "delete"},
         NEW end \in {"commit", "rollback"}
  PROVE  /\ InsertForms(t, outcome) \in Seq(Expectations)
         /\ Bracket(InsertForms(t, outcome), end) \in Seq(Expectations)
         /\ <<Expect("exec", op, t, outcome)>> \in Seq(Expectations)
<1>1. /\ Expect("exec", "insert", t, outcome) \in Expectations
      /\ Expect("query", "insert", t, outcome) \in Expectations
      /\ Expect("exec", op, t, outcome) \in Expectations
      /\ Expect("begin", None, None, "ok") \in Expectations
      /\ Expect(end, None, None, "ok") \in Expectations
  BY ExpectationType DEF Outcomes
<1>2. InsertForms(t, outcome) \in Seq(Expectations)
  BY <1>1 DEF InsertForms
<1>3. Bracket(InsertForms(t, outcome), end) \in Seq(Expectations)
  BY <1>1, <1>2, ConcatProperties DEF Bracket
<1> QED
  BY <1>1, <1>2, <1>3

(* Every builder method, verification and teardown keeps the invariant.    *)
LEMMA AuthorPreserves == IInv /\ Author => IInv'
<1> SUFFICES ASSUME IInv, Author PROVE IInv'
  OBVIOUS
<1>0. /\ style.tables \subseteq Tables /\ chains \in Seq(Tables)
      /\ tornDown \in BOOLEAN
  <2>1. style \in [uses : SUBSET Groups, tables : SUBSET Tables, room : Nat]
    BY DBTestContextAssumption DEF IInv, TypeOK
  <2> QED
    BY <2>1 DEF IInv, TypeOK
<1>1. ASSUME NEW es \in Seq(Expectations), Queue(es), AuthorVarsUnchanged
      PROVE  IInv'
  BY <1>0, <1>1, AppendingKeeps DEF Queue, AuthorVarsUnchanged, testVars
<1>2. ASSUME NEW t \in Tables, NEW auto \in BOOLEAN,
             ExpectInsert(t, auto) \/ ExpectInsertError(t, auto)
      PROVE  IInv'
  <2>1. PICK es \in Seq(Expectations) : Queue(es) /\ AuthorVarsUnchanged
    BY <1>2, WriteForms DEF ExpectInsert, ExpectInsertError, Outcomes
  <2> QED
    BY <1>1, <2>1
<1>3. ASSUME NEW t \in Tables, NEW op \in {"update", "delete"}, NEW o \in {"ok", "error"},
             ExpectUpdateOrDelete(op, t, o)
      PROVE  IInv'
  BY <1>1, <1>3, WriteForms DEF ExpectUpdateOrDelete, Outcomes
<1>4. ASSUME NEW t \in Tables, ExpectTransaction(t)
      PROVE  IInv'
  <2>1. <<Expect("begin", None, None, "ok")>> \in Seq(Expectations)
    BY TransactionForms DEF Outcomes
  <2>2. chains' \in Seq(Tables)
    BY <1>0, <1>4, AppendProperties DEF ExpectTransaction
  <2> QED
    BY <1>4, <2>1, <2>2, AppendingKeeps DEF ExpectTransaction, Queue
<1>5. ASSUME NEW t \in Tables, TxInsert(t) \/ TxInsertError(t)
      PROVE  IInv'
  BY <1>2, <1>5 DEF TxInsert, TxInsertError
<1>6. ASSUME NEW kind \in {"begin", "commit", "rollback"},
             RawTransactionExpectation(kind) \/ TxEnd(kind)
      PROVE  IInv'
  BY <1>1, <1>6, TransactionForms DEF RawTransactionExpectation, TxEnd, Outcomes
<1>7. CASE MockWithDefaults \/ WillFailWithError \/ RollbackOnError
  BY <1>1, <1>7, TransactionForms
     DEF MockWithDefaults, WillFailWithError, RollbackOnError, Outcomes
<1>8. CASE SkipVerification
  BY <1>8 DEF SkipVerification, IInv, TypeOK, FirstIsSelect1, SilentUntilSelect1, codeVars
<1>9. CASE VerifyExpectations \/ Teardown
  BY <1>0, <1>9, VerifyingKeeps DEF VerifyExpectations, Teardown
<1> QED
  BY <1>0, <1>2, <1>3, <1>4, <1>5, <1>6, <1>7, <1>8, <1>9 DEF Author

(* Every call the code under test makes keeps the invariant.               *)
LEMMA CodePreserves == IInv /\ CodeUnderTest => IInv'
<1> SUFFICES ASSUME IInv, CodeUnderTest PROVE IInv'
  OBVIOUS
<1>0. /\ Begin \in Calls /\ Commit \in Calls /\ Rollback \in Calls
      /\ Background \subseteq Calls /\ Writes \subseteq Calls
      /\ pc \in {"idle", "write", "commit", "rollback"}
      /\ pending \in Calls /\ explicit \in BOOLEAN
  BY DEF Calls, IInv, TypeOK
<1>1. CASE ExplicitBegin
  <2>1. explicit' \in BOOLEAN
    BY <1>1, Zenon DEF ExplicitBegin
  <2> QED
    BY <1>0, <1>1, <2>1, CallingKeeps DEF ExplicitBegin
<1>2. ASSUME NEW c \in Calls, ExplicitWrite(c) \/ ExplicitEnd(c) \/ BackgroundQuery(c)
      PROVE  IInv'
  BY <1>0, <1>2, CallingKeeps DEF ExplicitWrite, ExplicitEnd, BackgroundQuery
<1>3. ASSUME NEW c \in Calls, WriteBegins(c)
      PROVE  IInv'
  BY <1>0, <1>3, CallingKeeps DEF WriteBegins
<1>4. CASE WriteExecutes
  BY <1>0, <1>4, CallingKeeps DEF WriteExecutes
<1>5. CASE WriteEnds
  BY <1>0, <1>5, CallingKeeps DEF WriteEnds
<1> QED
  BY <1>0, <1>1, <1>2, <1>3, <1>4, <1>5 DEF CodeUnderTest

------------------------------------------------------------------------------
(* IInv is an invariant of the specification.                              *)
THEOREM InvariantHolds == Spec => []IInv
<1>1. IInv /\ UNCHANGED vars => IInv'
  BY DEF vars, testVars, codeVars, IInv, TypeOK, FirstIsSelect1, SilentUntilSelect1
<1>2. IInv /\ [Next]_vars => IInv'
  BY <1>1, AuthorPreserves, CodePreserves DEF Next
<1> QED
  BY <1>2, InitEstablishes, PTL DEF Spec

(* Every variable of a test context keeps its type, whatever the test adds *)
(* to the queue and whatever GORM asks of it.                              *)
THEOREM TypeCorrect == Spec => []TypeOK
<1>1. IInv => TypeOK
  BY DEF IInv
<1> QED
  BY <1>1, InvariantHolds, PTL

(* VerifyExpectations and Teardown warn of nothing while the default       *)
(* SELECT 1 has not been consumed, for any tables, any number of defaults  *)
(* and any expectations the test left unmet.                               *)
THEOREM SilenceUntilSelect1 == Spec => []SilentUntilSelect1
<1>1. IInv => SilentUntilSelect1
  BY DEF IInv
<1> QED
  BY <1>1, InvariantHolds, PTL

------------------------------------------------------------------------------
(* That the queue implements ScriptedDatabase, and that scripted creates   *)
(* are never rejected, rest on the catch-all version pattern having been   *)
(* used up when the test starts.                                           *)
NoCatchAll == \A n \in DOMAIN expected : expected[n].op = "any_version" => expected[n].met

(* What a call is answered with, and what becomes of the queue.            *)
Fit(queue, c) == {n \in DOMAIN queue : ~queue[n].met /\ Covers(queue[n], c)}

(* The first expectation that fits is met and gives its answer.            *)
LEMMA Taking ==
  ASSUME NEW queue \in Seq(Expectations), NEW c
  PROVE  LET first == FirstCandidate(queue, InOrder, c)
             next == After(queue, InOrder, c) IN
         /\ Fit(queue, c) \in SUBSET DOMAIN queue
         /\ DOMAIN queue = 1 .. Len(queue) /\ Len(queue) \in Nat
         /\ DOMAIN next = DOMAIN queue
         /\ Fit(queue, c) = {} => next = queue /\ Answer(queue, InOrder, c) = "rejected"
         /\ Fit(queue, c) # {} =>
              /\ first \in Fit(queue, c) /\ \A n \in Fit(queue, c) : first <= n
              /\ Answer(queue, InOrder, c) = queue[first].outcome
              /\ Answer(queue, InOrder, c) \in {"ok", "error"}
              /\ next[first] = [queue[first] EXCEPT !.met = TRUE]
              /\ \A n \in DOMAIN queue : n # first => next[n] = queue[n]
<1> DEFINE first == FirstCandidate(queue, InOrder, c)
           next == After(queue, InOrder, c)
           fit == Fit(queue, c)
<1>1. /\ DOMAIN queue = 1 .. Len(queue) /\ Len(queue) \in Nat
      /\ \A n \in DOMAIN queue : queue[n] \in Expectations
  BY LenProperties, ElementOfSeq
<1>2. Candidates(queue, InOrder, c) = fit
  BY DEF Candidates, Unmet, InOrder, Fit
<1>3. fit # {} => first \in fit /\ \A n \in fit : first <= n
  <2>1. fit \in SUBSET Nat
    BY <1>1 DEF Fit
  <2>2. first = Min(fit)
    BY <1>2 DEF FirstCandidate
  <2> HIDE DEF fit, first
  <2> QED
    BY <2>1, <2>2, LeastOfPositions
<1>4. next = [n \in DOMAIN queue |->
                IF fit # {} /\ n = first THEN [queue[n] EXCEPT !.met = TRUE] ELSE queue[n]]
  BY <1>2 DEF After
<1>5. Answer(queue, InOrder, c) = IF fit = {} THEN "rejected" ELSE queue[first].outcome
  BY <1>2 DEF Answer
<1>6. fit \in SUBSET DOMAIN queue
  BY DEF Fit
<1> HIDE DEF first, next, fit
<1>7. fit = {} => next = queue
  BY <1>1, <1>4
<1>8. fit # {} => /\ next[first] = [queue[first] EXCEPT !.met = TRUE]
                  /\ \A n \in DOMAIN queue : n # first => next[n] = queue[n]
  BY <1>1, <1>3, <1>4, <1>6
<1>9. fit # {} => queue[first].outcome \in {"ok", "error"}
  BY <1>1, <1>3, <1>6 DEF Expectations
<1>10. DOMAIN next = DOMAIN queue
  BY <1>4
<1> QED
  BY <1>1, <1>3, <1>5, <1>6, <1>7, <1>8, <1>9, <1>10 DEF first, next, fit

(* The defaults have one catch-all, behind two that do not cover it.       *)
AreDefaults(queue) ==
  /\ queue \in Seq(Expectations) /\ Len(queue) >= 3
  /\ queue[1].op = "SELECT_1" /\ queue[2].op = "select_1"
  /\ queue[3] = Default("any_version")
  /\ \A n \in 4 .. Len(queue) : queue[n].op # "any_version"

(* Appending the defaults of another query adds no catch-all.              *)
LEMMA DefaultsGrow ==
  ASSUME NEW queue, AreDefaults(queue), NEW op \in BackgroundOps, NEW times \in Nat
  PROVE  AreDefaults(queue \o Repeated(op, times))
<1> DEFINE more == Repeated(op, times)
<1>1. op # "any_version"
  BY DEF BackgroundOps
<1>2. Default(op) \in Expectations /\ Default(op).op = op
  BY ExpectationType DEF Default, Outcomes, Expect
<1>3. more \in Seq(Expectations) /\ Len(more) = times /\ \A n \in 1 .. times : more[n] = Default(op)
  BY <1>2 DEF Repeated
<1>4. queue \in Seq(Expectations) /\ Len(queue) \in Nat
  BY LenProperties DEF AreDefaults
<1> HIDE DEF more
<1>5. /\ queue \o more \in Seq(Expectations)
      /\ Len(queue \o more) = Len(queue) + times
      /\ \A n \in 1 .. Len(queue) + times :
           (queue \o more)[n] = IF n <= Len(queue) THEN queue[n] ELSE more[n - Len(queue)]
  BY <1>3, <1>4, ConcatProperties
<1>6. ASSUME NEW n \in 4 .. Len(queue) + times
      PROVE  (queue \o more)[n].op # "any_version"
  <2>1. CASE n <= Len(queue)
    BY <1>4, <1>5, <2>1 DEF AreDefaults
  <2>2. CASE n > Len(queue)
    <3>1. n - Len(queue) \in 1 .. times
      BY <1>4, <2>2
    <3>2. (queue \o more)[n] = Default(op)
      BY <1>3, <1>4, <1>5, <2>2, <3>1
    <3> QED
      BY <1>1, <1>2, <3>2
  <2>3. n <= Len(queue) \/ n > Len(queue)
    BY <1>4
  <2> QED
    BY <2>1, <2>2, <2>3, Zenon
<1>7. \A n \in 1 .. 3 : (queue \o more)[n] = queue[n]
  BY <1>4, <1>5 DEF AreDefaults
<1>8. Len(queue \o more) >= 3
  BY <1>4, <1>5 DEF AreDefaults
<1> QED
  BY <1>5, <1>6, <1>7, <1>8 DEF AreDefaults, more

(* configureSQLMockDefaults queues such defaults.                          *)
LEMMA DefaultsShape == AreDefaults(Defaults)
<1> DEFINE first6 == <<Default("SELECT_1"), Default("select_1"), Default("any_version"),
                     Default("sqlite_version"), Default("SQLITE_VERSION"),
                     Default("user_version")>>
<1>1. ASSUME NEW op \in BackgroundOps \cup {"any_version", "SQLITE_VERSION"}
      PROVE  Default(op) \in Expectations /\ Default(op).op = op
  BY ExpectationType DEF Default, Outcomes, Expect
<1>2. AreDefaults(first6)
  <2>1. /\ Default("SELECT_1") \in Expectations /\ Default("select_1") \in Expectations
        /\ Default("any_version") \in Expectations /\ Default("sqlite_version") \in Expectations
        /\ Default("SQLITE_VERSION") \in Expectations
        /\ Default("user_version") \in Expectations
        /\ Default("SELECT_1").op = "SELECT_1" /\ Default("select_1").op = "select_1"
        /\ Default("sqlite_version").op = "sqlite_version"
        /\ Default("SQLITE_VERSION").op = "SQLITE_VERSION"
        /\ Default("user_version").op = "user_version"
    BY <1>1 DEF BackgroundOps
  <2>2. first6 \in Seq(Expectations) /\ Len(first6) = 6
    BY <2>1
  <2>3. \A n \in 4 .. Len(first6) : first6[n].op # "any_version"
    <3>1. 4 .. Len(first6) = {4, 5, 6}
      BY <2>2
    <3>2. /\ first6[4] = Default("sqlite_version") /\ first6[5] = Default("SQLITE_VERSION")
          /\ first6[6] = Default("user_version")
      OBVIOUS
    <3> HIDE DEF first6
    <3> QED
      BY <2>1, <3>1, <3>2
  <2>4. first6[1] = Default("SELECT_1") /\ first6[2] = Default("select_1")
        /\ first6[3] = Default("any_version")
    OBVIOUS
  <2> HIDE DEF first6
  <2> QED
    BY <2>1, <2>2, <2>3, <2>4 DEF AreDefaults
<1>3. Defaults = (((first6 \o Repeated("sqlite_master", MasterChecks))
                     \o Repeated("table_info", SchemaChecks))
                     \o Repeated("foreign_key_list", SchemaChecks))
                     \o Repeated("index_list", SchemaChecks)
  BY DEF Defaults
<1> HIDE DEF first6
<1>4. MasterChecks \in Nat /\ SchemaChecks \in Nat
      /\ {"sqlite_master", "table_info", "foreign_key_list", "index_list"} \subseteq BackgroundOps
  BY DBTestContextAssumption DEF BackgroundOps
<1> QED
  BY <1>2, <1>3, <1>4, DefaultsGrow

(* Connecting has used the catch-all up.                                   *)
LEMMA ConnectedUsesCatchAll == Init => NoCatchAll
<1> DEFINE c == Call("query", "sqlite_version", None)
           first == FirstCandidate(Defaults, InOrder, c)
<1>1. /\ Defaults \in Seq(Expectations) /\ Len(Defaults) >= 3
      /\ Defaults[1].op = "SELECT_1" /\ Defaults[2].op = "select_1"
      /\ Defaults[3] = Default("any_version")
      /\ \A n \in 4 .. Len(Defaults) : Defaults[n].op # "any_version"
      /\ Len(Defaults) \in Nat /\ DOMAIN Defaults = 1 .. Len(Defaults)
  BY DefaultsShape, LenProperties DEF AreDefaults
<1>2. 3 \in Fit(Defaults, c) /\ 1 \notin Fit(Defaults, c) /\ 2 \notin Fit(Defaults, c)
  BY <1>1 DEF Fit, Covers, Call, Default, Expect
<1> HIDE DEF c
<1>3. /\ first \in Fit(Defaults, c) /\ \A n \in Fit(Defaults, c) : first <= n
      /\ DOMAIN Connected = DOMAIN Defaults
      /\ Connected[first] = [Defaults[first] EXCEPT !.met = TRUE]
      /\ \A n \in DOMAIN Defaults : n # first => Connected[n] = Defaults[n]
      /\ first \in DOMAIN Defaults
  BY <1>1, <1>2, Taking DEF Connected, c
<1> HIDE DEF first
<1>4. first = 3
  BY <1>1, <1>2, <1>3
<1>5. Connected[3].met
  <2>1. Defaults[3] \in Expectations
    BY <1>1, ElementOfSeq
  <2> QED
    BY <1>3, <1>4, <2>1 DEF Expectations
<1>6. \A n \in DOMAIN Connected : n # 3 => Connected[n].op # "any_version"
  <2> SUFFICES ASSUME NEW n \in DOMAIN Connected, n # 3 PROVE Connected[n].op # "any_version"
    OBVIOUS
  <2>1. Connected[n] = Defaults[n]
    BY <1>3, <1>4
  <2>2. n = 1 \/ n = 2 \/ n \in 4 .. Len(Defaults)
    BY <1>1, <1>3
  <2> QED
    BY <1>1, <2>1, <2>2
<1> QED
  BY <1>5, <1>6 DEF Init, NoCatchAll

(* What the builder methods append: expectations other than inserts, one   *)
(* or two, and inserts in both forms, with or without their transaction.   *)
Others ==
  {e \in Expectations : e.op \notin {"any_version", "insert"} /\ ~e.met}
Ends2 == <<Expect("rollback", None, None, "ok"), Expect("commit", None, None, "ok")>>

Adding ==
  \/ \E e \in Others : Queue(<<e>>)
  \/ Queue(Ends2)
  \/ \E t \in Tables, o \in Outcomes : "bare_create" \in style.uses /\ Queue(InsertForms(t, o))
  \/ \E t \in Tables : \/ Queue(Bracket(InsertForms(t, "ok"), "commit"))
                       \/ Queue(Bracket(InsertForms(t, "error"), "rollback"))

(* No step of the author adds anything else, or moves the code under test. *)
LEMMA AuthorSteps ==
  ASSUME IInv, Author
  PROVE  style' = style /\ UNCHANGED codeVars /\ (Adding \/ UNCHANGED expected)
<1>0. style.tables \subseteq Tables /\ chains \in Seq(Tables)
  <2>1. style \in [uses : SUBSET Groups, tables : SUBSET Tables, room : Nat]
    BY DBTestContextAssumption DEF IInv, TypeOK
  <2> QED
    BY <2>1 DEF IInv, TypeOK
<1>1. ASSUME NEW kind \in {"begin", "commit", "rollback"}, NEW o \in Outcomes
      PROVE  Expect(kind, None, None, o) \in Others
  <2>1. Expect(kind, None, None, o) \in Expectations
    BY ExpectationType
  <2> QED
    BY <2>1 DEF Others, Expect, None
<1>2. ASSUME NEW t \in Tables, NEW op \in {"update", "delete"}, NEW o \in Outcomes
      PROVE  Expect("exec", op, t, o) \in Others
  <2>1. Expect("exec", op, t, o) \in Expectations
    BY ExpectationType
  <2> QED
    BY <2>1 DEF Others, Expect
<1>3. Default("SELECT_1") \in Others
  <2>1. Default("SELECT_1") \in Expectations
    BY ExpectationType DEF Default, Outcomes, BackgroundOps
  <2> QED
    BY <2>1 DEF Others, Default, Expect
<1>4. ASSUME NEW t \in Tables, NEW auto \in BOOLEAN,
             (IF auto THEN "create" ELSE "bare_create") \in style.uses \/ auto,
             ExpectInsert(t, auto) \/ ExpectInsertError(t, auto)
      PROVE  Adding /\ style' = style
  BY <1>4 DEF Adding, ExpectInsert, ExpectInsertError, Outcomes, AuthorVarsUnchanged, testVars
<1>5. ASSUME NEW es, Queue(es) PROVE UNCHANGED codeVars
  BY <1>5 DEF Queue
<1>6. ASSUME NEW t \in Tables, NEW auto \in BOOLEAN,
             (IF auto THEN "create" ELSE "bare_create") \in style.uses,
             ExpectInsert(t, auto) \/ ExpectInsertError(t, auto)
      PROVE  Adding /\ style' = style /\ UNCHANGED codeVars
  BY <1>4, <1>5, <1>6 DEF ExpectInsert, ExpectInsertError
<1>7. ASSUME NEW t \in Tables, NEW op \in {"update", "delete"}, NEW o \in {"ok", "error"},
             ExpectUpdateOrDelete(op, t, o)
      PROVE  Adding /\ style' = style /\ UNCHANGED codeVars
  BY <1>2, <1>5, <1>7 DEF ExpectUpdateOrDelete, Adding, Outcomes, AuthorVarsUnchanged, testVars
<1>8. ASSUME NEW kind \in {"begin", "commit", "rollback"},
             RawTransactionExpectation(kind) \/ TxEnd(kind)
      PROVE  Adding /\ style' = style /\ UNCHANGED codeVars
  BY <1>1, <1>5, <1>8
     DEF RawTransactionExpectation, TxEnd, Adding, Outcomes, AuthorVarsUnchanged, testVars
<1>9. ASSUME NEW t \in Tables, ExpectTransaction(t) \/ TxInsert(t) \/ TxInsertError(t)
      PROVE  Adding /\ style' = style /\ UNCHANGED codeVars
  <2>1. CASE ExpectTransaction(t)
    BY <1>1, <1>5, <2>1 DEF ExpectTransaction, Adding, Outcomes
  <2>2. CASE TxInsert(t) \/ TxInsertError(t)
    <3>1. ExpectInsert(t, TRUE) \/ ExpectInsertError(t, TRUE)
      BY <2>2 DEF TxInsert, TxInsertError
    <3> QED
      BY <1>4, <1>5, <3>1 DEF ExpectInsert, ExpectInsertError
  <2> QED
    BY <1>9, <2>1, <2>2
<1>10. CASE MockWithDefaults
  BY <1>3, <1>5, <1>10 DEF MockWithDefaults, Adding, AuthorVarsUnchanged, testVars
<1>11. CASE WillFailWithError \/ RollbackOnError
  BY <1>1, <1>5, <1>11
     DEF WillFailWithError, RollbackOnError, Adding, Ends2, Outcomes, AuthorVarsUnchanged, testVars
<1>12. CASE SkipVerification \/ VerifyExpectations \/ Teardown
  BY <1>12 DEF SkipVerification, VerifyExpectations, Teardown
<1> QED
  BY <1>0, <1>6, <1>7, <1>8, <1>9, <1>10, <1>11, <1>12 DEF Author

(* Each of these is a sequence of expectations, unmet and no catch-all.    *)
Fresh == {e \in Expectations : e.op # "any_version" /\ ~e.met}

(* So what a builder adds is.                                              *)
LEMMA AddedAreFresh ==
  ASSUME Adding
  PROVE  \E es \in Seq(Fresh) : Queue(es)
<1>1. ASSUME NEW t \in Tables, NEW o \in Outcomes
      PROVE  InsertForms(t, o) \in Seq(Fresh)
  <2>1. /\ Expect("exec", "insert", t, o) \in Expectations
        /\ Expect("query", "insert", t, o) \in Expectations
    BY ExpectationType
  <2>2. /\ Expect("exec", "insert", t, o) \in Fresh
        /\ Expect("query", "insert", t, o) \in Fresh
    BY <2>1 DEF Fresh, Expect
  <2> QED
    BY <2>2 DEF InsertForms
<1>2. ASSUME NEW kind \in {"begin", "commit", "rollback"}
      PROVE  Expect(kind, None, None, "ok") \in Fresh
  <2>1. Expect(kind, None, None, "ok") \in Expectations
    BY ExpectationType DEF Outcomes
  <2> QED
    BY <2>1 DEF Fresh, Expect, None
<1>3. ASSUME NEW t \in Tables, NEW o \in Outcomes, NEW end \in {"commit", "rollback"}
      PROVE  Bracket(InsertForms(t, o), end) \in Seq(Fresh)
  <2>1. /\ InsertForms(t, o) \in Seq(Fresh)
        /\ <<Expect("begin", None, None, "ok")>> \in Seq(Fresh)
        /\ <<Expect(end, None, None, "ok")>> \in Seq(Fresh)
    BY <1>1, <1>2
  <2> QED
    BY <2>1, ConcatProperties DEF Bracket
<1>4. Ends2 \in Seq(Fresh)
  BY <1>2 DEF Ends2
<1>5. \A e \in Others : <<e>> \in Seq(Fresh)
  <2>1. \A e \in Others : e \in Fresh
    BY DEF Others, Fresh
  <2> QED
    BY <2>1
<1> QED
  BY <1>1, <1>3, <1>4, <1>5 DEF Adding, Outcomes

(* What the code under test does to the queue is a call.                   *)
LEMMA CodeSteps ==
  ASSUME IInv, CodeUnderTest
  PROVE  \E c \in Calls : Calling(c)
<1>1. /\ Begin \in Calls /\ Commit \in Calls /\ Rollback \in Calls
      /\ Background \subseteq Calls /\ Writes \subseteq Calls /\ pending \in Calls
  BY DEF Calls, IInv, TypeOK
<1> QED
  BY <1>1 DEF CodeUnderTest, ExplicitBegin, ExplicitWrite, WriteBegins, ExplicitEnd,
     WriteExecutes, WriteEnds, BackgroundQuery

(* An expectation but the catch-all covers one call only.                  *)
LEMMA CoversOne ==
  ASSUME NEW e \in Expectations, e.op # "any_version",
         NEW c \in Calls, NEW d \in Calls, Covers(e, c), Covers(e, d)
  PROVE  c = d
<1>1. \A b \in Calls : b.op # "SQLITE_VERSION" /\ (b.op = "sqlite_version" => b.table = None)
                       /\ b = [kind |-> b.kind, op |-> b.op, table |-> b.table]
  BY DEF Calls, Begin, Commit, Rollback, Background, Writes, Write, Call, BackgroundOps, None
<1> QED
  BY <1>1 DEF Covers

------------------------------------------------------------------------------
(* The refinement.                                                         *)
ScriptOf(queue, c) == [n \in Fit(queue, c) |-> queue[n].outcome]

(* What the queue holds for one call, as a script.                         *)
LEMMA ScriptIs ==
  ASSUME NEW queue \in Seq(Expectations), NEW c
  PROVE  /\ DOMAIN ScriptOf(queue, c) = Fit(queue, c)
         /\ Fit(queue, c) \subseteq Nat
         /\ \A n \in Fit(queue, c) : /\ ScriptOf(queue, c)[n] = queue[n].outcome
                                     /\ ScriptOf(queue, c)[n] \in {"ok", "error"}
<1>1. DOMAIN queue = 1 .. Len(queue) /\ Len(queue) \in Nat
      /\ \A n \in DOMAIN queue : queue[n] \in Expectations
  BY LenProperties, ElementOfSeq
<1>2. \A n \in Fit(queue, c) : n \in DOMAIN queue /\ queue[n] \in Expectations
  BY <1>1 DEF Fit
<1> QED
  BY <1>1, <1>2 DEF ScriptOf, Expectations

(* The script of ScriptedDatabase in terms of the queue.                   *)
LEMMA PromiseScript ==
  /\ Promise!Init <=>
       Promise!IsScript([c \in Calls |-> ScriptOf(expected, c)]) /\ answer.outcome = "none"
  /\ Promise!Next <=>
       \/ /\ UNCHANGED answer
          /\ Promise!IsScript([c \in Calls |-> ScriptOf(expected', c)])
          /\ \A c \in Calls : Promise!Adds(ScriptOf(expected', c), ScriptOf(expected, c))
       \/ \E c \in Calls :
            \/ \E first \in Fit(expected, c) :
                 /\ answer' = [call |-> c, outcome |-> ScriptOf(expected, c)[first]]
                 /\ \A n \in Fit(expected, c) : first <= n
                 /\ [d \in Calls |-> ScriptOf(expected', d)]
                      = [[d \in Calls |-> ScriptOf(expected, d)]
                           EXCEPT ![c] = Promise!Without(ScriptOf(expected, c), first)]
            \/ /\ Fit(expected, c) = {}
               /\ answer' = [call |-> c, outcome |-> "rejected"]
               /\ [d \in Calls |-> ScriptOf(expected', d)] = [d \in Calls |-> ScriptOf(expected, d)]
BY DEF Promise!Init, Promise!Next, Promise!Configure, Promise!Take, Promise!Reject, Promise!Left,
   ScriptOf, Fit

(* A builder configures outcomes behind those there are.                   *)
LEMMA AddingConfigures ==
  ASSUME IInv, NEW es \in Seq(Fresh), Queue(es)
  PROVE  Promise!Next
<1>1. /\ expected \in Seq(Expectations) /\ es \in Seq(Expectations) /\ expected' = expected \o es
      /\ UNCHANGED answer
  BY SeqMonotonic DEF IInv, TypeOK, Queue, codeVars, Fresh
<1>2. /\ Len(expected) \in Nat /\ Len(es) \in Nat /\ expected' \in Seq(Expectations)
      /\ DOMAIN expected = 1 .. Len(expected) /\ DOMAIN expected' = 1 .. Len(expected')
      /\ Len(expected') = Len(expected) + Len(es)
      /\ \A n \in 1 .. Len(expected) : expected'[n] = expected[n]
  BY <1>1, LenProperties, ConcatProperties
<1>3. \A n \in DOMAIN expected : n \in DOMAIN expected' /\ expected'[n] = expected[n]
  BY <1>2
<1>4. \A n \in DOMAIN expected' \ DOMAIN expected : n > Len(expected) /\ n \in Nat
  BY <1>2
<1>5. ASSUME NEW c \in Calls
      PROVE  Promise!Adds(ScriptOf(expected', c), ScriptOf(expected, c))
  <2>1. \A n \in Fit(expected, c) :
          /\ n \in Fit(expected', c) /\ expected'[n] = expected[n]
          /\ n <= Len(expected) /\ n \in Nat
    BY <1>2, <1>3 DEF Fit
  <2>2. \A n \in Fit(expected', c) \ Fit(expected, c) : n > Len(expected) /\ n \in Nat
    BY <1>3, <1>4 DEF Fit
  <2>3. /\ DOMAIN ScriptOf(expected, c) = Fit(expected, c)
        /\ DOMAIN ScriptOf(expected', c) = Fit(expected', c)
    BY DEF ScriptOf
  <2>4. ASSUME NEW n \in Fit(expected, c)
        PROVE  ScriptOf(expected', c)[n] = ScriptOf(expected, c)[n]
    BY <2>1 DEF ScriptOf
  <2>5. ASSUME NEW n \in Fit(expected, c), NEW new \in Fit(expected', c) \ Fit(expected, c)
        PROVE  n < new
    BY <1>2, <2>1, <2>2
  <2>6. Fit(expected, c) \subseteq Fit(expected', c)
    BY <2>1
  <2> QED
    BY <2>3, <2>4, <2>5, <2>6, Zenon DEF Promise!Adds
<1>6. Promise!IsScript([c \in Calls |-> ScriptOf(expected', c)])
  BY <1>2, ScriptIs DEF Promise!IsScript
<1> QED
  BY <1>1, <1>5, <1>6, PromiseScript

(* A call takes the first outcome that is left of its own script, and no   *)
(* other script changes.                                                   *)
LEMMA CallingTakes ==
  ASSUME IInv, NoCatchAll, NEW c \in Calls, Calling(c)
  PROVE  Promise!Next
<1> DEFINE first == FirstCandidate(expected, InOrder, c)
<1>1. /\ expected \in Seq(Expectations) /\ expected' = After(expected, InOrder, c)
      /\ answer' = [call |-> c, outcome |-> Answer(expected, InOrder, c)]
  BY DEF IInv, TypeOK, Calling
<1>2. CASE Fit(expected, c) = {}
  <2>1. expected' = expected /\ answer' = [call |-> c, outcome |-> "rejected"]
    BY <1>1, <1>2, Taking
  <2>2. [d \in Calls |-> ScriptOf(expected', d)] = [d \in Calls |-> ScriptOf(expected, d)]
    BY <2>1
  <2> QED
    BY <1>2, <2>1, <2>2, PromiseScript
<1>3. CASE Fit(expected, c) # {}
  <2>1. /\ first \in Fit(expected, c) /\ \A n \in Fit(expected, c) : first <= n
        /\ answer' = [call |-> c, outcome |-> expected[first].outcome]
        /\ DOMAIN expected' = DOMAIN expected
        /\ expected'[first] = [expected[first] EXCEPT !.met = TRUE]
        /\ \A n \in DOMAIN expected : n # first => expected'[n] = expected[n]
    BY <1>1, <1>3, Taking
  <2> HIDE DEF first
  <2>2. first \in DOMAIN expected /\ expected[first] \in Expectations /\ Covers(expected[first], c)
        /\ ~expected[first].met
    BY <1>1, <2>1, LenProperties, ElementOfSeq DEF Fit
  <2>3. expected'[first].met /\ expected[first].op # "any_version"
    BY <2>1, <2>2 DEF Expectations, NoCatchAll
  <2>4. Fit(expected', c) = Fit(expected, c) \ {first}
    BY <2>1, <2>2, <2>3 DEF Fit
  <2>5. \A d \in Calls : d # c => first \notin Fit(expected, d) /\ first \notin Fit(expected', d)
    BY <2>2, <2>3, CoversOne DEF Fit
  <2>6. \A d \in Calls : d # c => Fit(expected', d) = Fit(expected, d)
    BY <2>1, <2>5 DEF Fit
  <2>7. ASSUME NEW d \in Calls, d # c
        PROVE  ScriptOf(expected', d) = ScriptOf(expected, d)
    <3>1. \A n \in Fit(expected, d) : expected'[n] = expected[n]
      BY <2>1, <2>5, <2>7 DEF Fit
    <3> QED
      BY <2>6, <2>7, <3>1 DEF ScriptOf
  <2>8. ScriptOf(expected', c) = Promise!Without(ScriptOf(expected, c), first)
    <3>1. \A n \in Fit(expected, c) \ {first} : expected'[n] = expected[n]
      BY <2>1 DEF Fit
    <3>2. \A n \in Fit(expected, c) \ {first} :
            expected'[n].outcome = ScriptOf(expected, c)[n]
      BY <3>1 DEF ScriptOf
    <3>3. DOMAIN ScriptOf(expected, c) = Fit(expected, c)
      BY DEF ScriptOf
    <3> QED
      BY <2>4, <3>2, <3>3 DEF ScriptOf, Promise!Without
  <2>9. [d \in Calls |-> ScriptOf(expected', d)]
          = [[d \in Calls |-> ScriptOf(expected, d)]
               EXCEPT ![c] = Promise!Without(ScriptOf(expected, c), first)]
    BY <2>7, <2>8
  <2>10. answer' = [call |-> c, outcome |-> ScriptOf(expected, c)[first]]
    BY <2>1 DEF ScriptOf
  <2> QED
    BY <2>1, <2>9, <2>10, PromiseScript
<1> QED
  BY <1>2, <1>3

(* The catch-all stays used up: no builder adds another.                   *)
LEMMA CatchAllStaysUsed ==
  ASSUME IInv, NoCatchAll, [Next]_vars
  PROVE  NoCatchAll'
<1>1. CASE UNCHANGED expected
  BY <1>1 DEF NoCatchAll
<1>2. ASSUME NEW es \in Seq(Fresh), Queue(es)
      PROVE  NoCatchAll'
  <2>1. /\ expected \in Seq(Expectations) /\ es \in Seq(Expectations) /\ expected' = expected \o es
    BY <1>2, SeqMonotonic DEF IInv, TypeOK, Queue, Fresh
  <2>2. /\ Len(expected) \in Nat /\ Len(es) \in Nat /\ expected' \in Seq(Expectations)
        /\ DOMAIN expected = 1 .. Len(expected) /\ DOMAIN expected' = 1 .. Len(expected')
        /\ Len(expected') = Len(expected) + Len(es)
        /\ \A n \in 1 .. Len(expected) + Len(es) :
             expected'[n] = IF n <= Len(expected) THEN expected[n] ELSE es[n - Len(expected)]
    BY <2>1, LenProperties, ConcatProperties
  <2>3. \A n \in 1 .. Len(es) : es[n].op # "any_version"
    <3>1. \A n \in 1 .. Len(es) : es[n] \in Fresh
      BY <1>2, ElementOfSeq
    <3> QED
      BY <3>1 DEF Fresh
  <2> SUFFICES ASSUME NEW n \in DOMAIN expected', expected'[n].op = "any_version"
               PROVE  expected'[n].met
    BY DEF NoCatchAll
  <2>4. n <= Len(expected)
    <3> SUFFICES ASSUME n > Len(expected) PROVE FALSE
      BY <2>2
    <3>1. n - Len(expected) \in 1 .. Len(es)
      BY <2>2
    <3>2. expected'[n] = es[n - Len(expected)]
      BY <2>2
    <3> QED
      BY <2>3, <3>1, <3>2
  <2>5. n \in DOMAIN expected /\ expected'[n] = expected[n]
    BY <2>2, <2>4
  <2> QED
    BY <2>5 DEF NoCatchAll
<1>3. ASSUME NEW c \in Calls, Calling(c)
      PROVE  NoCatchAll'
  <2>1. expected \in Seq(Expectations) /\ expected' = After(expected, InOrder, c)
    BY <1>3 DEF IInv, TypeOK, Calling
  <2>2. /\ Len(expected') = Len(expected) /\ expected' \in Seq(Expectations)
        /\ \A n \in 1 .. Len(expected) : /\ expected'[n].op = expected[n].op
                                         /\ expected[n].met => expected'[n].met
    BY <2>1, AfterKeeps
  <2>3. DOMAIN expected = 1 .. Len(expected) /\ DOMAIN expected' = 1 .. Len(expected)
    BY <2>1, <2>2, LenProperties
  <2> QED
    BY <2>2, <2>3 DEF NoCatchAll
<1> QED
  BY <1>1, <1>2, <1>3, AuthorSteps, AddedAreFresh, CodeSteps DEF Next, vars

(* The queue of the mock, shared by the expectations of all tables and of  *)
(* GORM's own queries and matched out of order, keeps the promise of       *)
(* ScriptedDatabase: each call is answered from its own script, in order.  *)
THEOREM PromiseKept == Spec => FollowsScript
<1>1. Init => NoCatchAll
  BY ConnectedUsesCatchAll
<1>2. IInv /\ NoCatchAll /\ [Next]_vars => NoCatchAll'
  BY CatchAllStaysUsed
<1>3. Init => Promise!Init
  <2> SUFFICES ASSUME Init PROVE Promise!Init
    OBVIOUS
  <2>1. IInv
    BY InitEstablishes
  <2>2. Promise!IsScript([c \in Calls |-> ScriptOf(expected, c)])
    BY <2>1, ScriptIs DEF Promise!IsScript, IInv, TypeOK
  <2> QED
    BY <2>2, PromiseScript DEF Init
<1>4. IInv /\ NoCatchAll /\ [Next]_vars => [Promise!Next]_<<expected, answer>>
  <2> SUFFICES ASSUME IInv, NoCatchAll, [Next]_vars, ~UNCHANGED <<expected, answer>>
               PROVE  Promise!Next
    OBVIOUS
  <2>1. CASE Author
    BY <2>1, AuthorSteps, AddedAreFresh, AddingConfigures DEF codeVars
  <2>2. CASE CodeUnderTest
    BY <2>2, CodeSteps, CallingTakes
  <2> QED
    BY <2>1, <2>2 DEF Next, vars, codeVars
<1>5. [Promise!Next]_<<expected, answer>> =>
        [Promise!Next]_<<[c \in Calls |->
                            [n \in {m \in DOMAIN expected :
                                      ~expected[m].met /\ Covers(expected[m], c)}
                               |-> expected[n].outcome]], answer>>
  OBVIOUS
<1> QED
  BY <1>1, <1>2, <1>3, <1>4, <1>5, InvariantHolds, PTL DEF Spec, FollowsScript, Promise!Spec
------------------------------------------------------------------------------
(* Why a scripted create is never rejected.  Every insert the test expects *)
(* came with a Begin that succeeds in front of it and with the end that    *)
(* its outcome calls for behind it.  A write in progress has consumed its  *)
(* Begin but not yet its insert, or its insert but not yet its end.        *)
OkBegins == {e \in Expectations : ~e.met /\ Covers(e, Begin) /\ e.outcome = "ok"}
Inserts(outcome) ==
  {e \in Expectations : /\ ~e.met /\ e.op = "insert" /\ e.outcome = outcome
                        /\ e.kind = InsertForm(e.table)}
Ends(kind) == {e \in Expectations : ~e.met /\ Covers(e, Call(kind, None, None))}

Balanced(queue, writing, committing, rollingBack) ==
  /\ Count(queue, OkBegins) + writing
       >= Count(queue, Inserts("ok")) + Count(queue, Inserts("error"))
  /\ Count(queue, Ends("commit")) >= Count(queue, Inserts("ok")) + committing
  /\ Count(queue, Ends("rollback")) >= Count(queue, Inserts("error")) + rollingBack

OneIf(condition) == IF condition THEN 1 ELSE 0

CreatesInv ==
  /\ NoCatchAll
  /\ ScriptedCreateNeverRejected
  /\ OnlyScriptedCreates =>
       /\ ~explicit
       /\ pc = "write" => pending.op = "insert" /\ Fit(expected, pending) # {}
       /\ Balanced(expected, OneIf(pc = "write"), OneIf(pc = "commit"), OneIf(pc = "rollback"))

Counted == {OkBegins, Inserts("ok"), Inserts("error"), Ends("commit"), Ends("rollback")}

(* Counts are numbers.                                                     *)
LEMMA CountedType ==
  ASSUME NEW queue \in Seq(Expectations), NEW M
  PROVE  Count(queue, M) \in Nat
BY CountType

(* Adding a balanced sequence to a balanced queue.                         *)
LEMMA BalancedConcat ==
  ASSUME NEW queue \in Seq(Expectations), NEW es \in Seq(Expectations),
         NEW w \in {0, 1}, NEW c \in {0, 1}, NEW r \in {0, 1},
         Balanced(queue, w, c, r), Balanced(es, 0, 0, 0)
  PROVE  Balanced(queue \o es, w, c, r)
<1>1. \A M : Count(queue \o es, M) = Count(queue, M) + Count(es, M)
  BY CountConcat
<1>2. \A M : Count(queue, M) \in Nat /\ Count(es, M) \in Nat
  BY CountedType
<1>3. /\ Count(queue \o es, OkBegins) = Count(queue, OkBegins) + Count(es, OkBegins)
      /\ Count(queue \o es, Inserts("ok")) = Count(queue, Inserts("ok")) + Count(es, Inserts("ok"))
      /\ Count(queue \o es, Inserts("error"))
           = Count(queue, Inserts("error")) + Count(es, Inserts("error"))
      /\ Count(queue \o es, Ends("commit"))
           = Count(queue, Ends("commit")) + Count(es, Ends("commit"))
      /\ Count(queue \o es, Ends("rollback"))
           = Count(queue, Ends("rollback")) + Count(es, Ends("rollback"))
  BY <1>1, Zenon
<1>4. /\ Count(queue, OkBegins) \in Nat /\ Count(es, OkBegins) \in Nat
      /\ Count(queue, Inserts("ok")) \in Nat /\ Count(es, Inserts("ok")) \in Nat
      /\ Count(queue, Inserts("error")) \in Nat /\ Count(es, Inserts("error")) \in Nat
      /\ Count(queue, Ends("commit")) \in Nat /\ Count(es, Ends("commit")) \in Nat
      /\ Count(queue, Ends("rollback")) \in Nat /\ Count(es, Ends("rollback")) \in Nat
  BY <1>2, Zenon
<1> DEFINE both == queue \o es
<1>5. /\ Count(both, OkBegins) = Count(queue, OkBegins) + Count(es, OkBegins)
      /\ Count(both, Inserts("ok")) = Count(queue, Inserts("ok")) + Count(es, Inserts("ok"))
      /\ Count(both, Inserts("error"))
           = Count(queue, Inserts("error")) + Count(es, Inserts("error"))
      /\ Count(both, Ends("commit")) = Count(queue, Ends("commit")) + Count(es, Ends("commit"))
      /\ Count(both, Ends("rollback"))
           = Count(queue, Ends("rollback")) + Count(es, Ends("rollback"))
  BY <1>3
<1> HIDE DEF both
<1>6. ASSUME NEW x \in Nat, NEW y \in Nat, NEW z \in Nat, NEW x2 \in Nat, NEW y2 \in Nat,
             NEW z2 \in Nat, NEW v \in {0, 1}, x + v >= y + z, x2 + 0 >= y2 + z2
      PROVE  (x + x2) + v >= (y + y2) + (z + z2)
  BY <1>6
<1>7. ASSUME NEW x \in Nat, NEW y \in Nat, NEW x2 \in Nat, NEW y2 \in Nat,
             NEW v \in {0, 1}, x >= y + v, x2 >= y2 + 0
      PROVE  x + x2 >= (y + y2) + v
  BY <1>7
<1>8. Count(both, OkBegins) + w >= Count(both, Inserts("ok")) + Count(both, Inserts("error"))
  <2>1. /\ Count(queue, OkBegins) + w
             >= Count(queue, Inserts("ok")) + Count(queue, Inserts("error"))
        /\ Count(es, OkBegins) + 0 >= Count(es, Inserts("ok")) + Count(es, Inserts("error"))
    BY DEF Balanced
  <2> QED
    BY <1>4, <1>5, <1>6, <2>1
<1>9. Count(both, Ends("commit")) >= Count(both, Inserts("ok")) + c
  <2>1. /\ Count(queue, Ends("commit")) >= Count(queue, Inserts("ok")) + c
        /\ Count(es, Ends("commit")) >= Count(es, Inserts("ok")) + 0
    BY DEF Balanced
  <2>2. /\ Count(queue, Ends("commit")) \in Nat /\ Count(es, Ends("commit")) \in Nat
        /\ Count(queue, Inserts("ok")) \in Nat /\ Count(es, Inserts("ok")) \in Nat
    BY <1>4
  <2>3. /\ Count(both, Ends("commit")) = Count(queue, Ends("commit")) + Count(es, Ends("commit"))
        /\ Count(both, Inserts("ok")) = Count(queue, Inserts("ok")) + Count(es, Inserts("ok"))
    BY <1>5
  <2> QED
    BY <1>7, <2>1, <2>2, <2>3
<1>10. Count(both, Ends("rollback")) >= Count(both, Inserts("error")) + r
  <2>1. /\ Count(queue, Ends("rollback")) >= Count(queue, Inserts("error")) + r
        /\ Count(es, Ends("rollback")) >= Count(es, Inserts("error")) + 0
    BY DEF Balanced
  <2>2. /\ Count(queue, Ends("rollback")) \in Nat /\ Count(es, Ends("rollback")) \in Nat
        /\ Count(queue, Inserts("error")) \in Nat /\ Count(es, Inserts("error")) \in Nat
    BY <1>4
  <2>3. /\ Count(both, Ends("rollback"))
             = Count(queue, Ends("rollback")) + Count(es, Ends("rollback"))
        /\ Count(both, Inserts("error"))
             = Count(queue, Inserts("error")) + Count(es, Inserts("error"))
    BY <1>5
  <2> QED
    BY <1>7, <2>1, <2>2, <2>3
<1>11. Balanced(both, w, c, r)
  BY <1>8, <1>9, <1>10 DEF Balanced
<1> QED
  BY <1>11 DEF both

(* A sequence without inserts is balanced.                                 *)
LEMMA BalancedWithoutInserts ==
  ASSUME NEW es \in Seq(Expectations), \A n \in DOMAIN es : es[n].op # "insert"
  PROVE  Balanced(es, 0, 0, 0)
<1>1. ASSUME NEW o
      PROVE  Count(es, Inserts(o)) = 0
  <2>1. \A n \in DOMAIN es : es[n] \notin Inserts(o)
    BY DEF Inserts
  <2> QED
    BY <2>1, CountType
<1>2. /\ Count(es, OkBegins) \in Nat /\ Count(es, Ends("commit")) \in Nat
      /\ Count(es, Ends("rollback")) \in Nat
  BY CountedType
<1>3. Count(es, Inserts("ok")) = 0 /\ Count(es, Inserts("error")) = 0
  BY <1>1
<1> QED
  BY <1>2, <1>3 DEF Balanced

(* So is what ExpectInsert and ExpectInsertError append: of the two forms  *)
(* of the insert, the code under test asks for one.                        *)
LEMMA BracketBalanced ==
  ASSUME NEW t \in Tables
  PROVE  /\ Balanced(Bracket(InsertForms(t, "ok"), "commit"), 0, 0, 0)
         /\ Balanced(Bracket(InsertForms(t, "error"), "rollback"), 0, 0, 0)
<1>1. ASSUME NEW o \in Outcomes, NEW end \in {"commit", "rollback"}
      PROVE  /\ Count(Bracket(InsertForms(t, o), end), Inserts(o)) = 1
             /\ \A other \in Outcomes \ {o} :
                  Count(Bracket(InsertForms(t, o), end), Inserts(other)) = 0
             /\ Count(Bracket(InsertForms(t, o), end), OkBegins) >= 1
             /\ Count(Bracket(InsertForms(t, o), end), Ends(end)) >= 1
             /\ \A M : Count(Bracket(InsertForms(t, o), end), M) \in Nat
  <2> DEFINE begin == Expect("begin", None, None, "ok")
             exec == Expect("exec", "insert", t, o)
             query == Expect("query", "insert", t, o)
             close == Expect(end, None, None, "ok")
             forms == <<exec, query>>
  <2>1. /\ begin \in Expectations /\ exec \in Expectations /\ query \in Expectations
        /\ close \in Expectations
    BY ExpectationType DEF Outcomes
  <2>2. /\ begin \in OkBegins /\ \A p \in Outcomes : begin \notin Inserts(p)
        /\ close \in Ends(end) /\ \A p \in Outcomes : close \notin Inserts(p)
    BY <2>1 DEF OkBegins, Ends, Inserts, Expect, Covers, Begin, Call, None
  <2>3. \A p \in Outcomes : /\ exec \in Inserts(p) <=> p = o /\ t \notin ReturningTables
                            /\ query \in Inserts(p) <=> p = o /\ t \in ReturningTables
    BY <2>1 DEF Inserts, Expect, InsertForm
  <2>4. /\ <<begin>> \in Seq(Expectations) /\ forms \in Seq(Expectations)
        /\ <<close>> \in Seq(Expectations)
    BY <2>1
  <2>5. Bracket(InsertForms(t, o), end) = (<<begin>> \o forms) \o <<close>>
    BY DEF Bracket, InsertForms
  <2>6. /\ Count(forms, Inserts(o)) = 1
        /\ \A other \in Outcomes \ {o} : Count(forms, Inserts(other)) = 0
    <3>1. Where(forms, Inserts(o)) = IF t \in ReturningTables THEN {2} ELSE {1}
      <4> HIDE DEF exec, query
      <4>1. DOMAIN forms = {1, 2} /\ forms[1] = exec /\ forms[2] = query
        OBVIOUS
      <4> HIDE DEF forms
      <4> QED
        BY <2>3, <4>1 DEF Where
    <3>2. \A other \in Outcomes \ {o} : Where(forms, Inserts(other)) = {}
      <4> HIDE DEF exec, query
      <4>1. DOMAIN forms = {1, 2} /\ forms[1] = exec /\ forms[2] = query
        OBVIOUS
      <4> HIDE DEF forms
      <4> QED
        BY <2>3, <4>1 DEF Where
    <3> HIDE DEF forms
    <3> QED
      BY <3>1, <3>2, FS_Singleton, FS_EmptySet DEF Count
  <2> HIDE DEF begin, exec, query, close, forms
  <2>7. /\ <<begin>> \o forms \in Seq(Expectations)
        /\ (<<begin>> \o forms) \o <<close>> \in Seq(Expectations)
    BY <2>4, ConcatProperties
  <2>8. \A M : Count((<<begin>> \o forms) \o <<close>>, M)
                 = (Count(<<begin>>, M) + Count(forms, M)) + Count(<<close>>, M)
    <3> SUFFICES ASSUME NEW M
                 PROVE  Count((<<begin>> \o forms) \o <<close>>, M)
                          = (Count(<<begin>>, M) + Count(forms, M)) + Count(<<close>>, M)
      OBVIOUS
    <3>1. Count(<<begin>> \o forms, M) = Count(<<begin>>, M) + Count(forms, M)
      BY <2>4, CountConcat, Zenon
    <3> DEFINE front == <<begin>> \o forms
    <3>2. front \in Seq(Expectations)
      BY <2>7
    <3> HIDE DEF front
    <3>3. Count(front \o <<close>>, M) = Count(front, M) + Count(<<close>>, M)
      BY <2>4, <3>2, CountConcat, Zenon
    <3> QED
      BY <3>1, <3>3 DEF front
  <2>9. \A M : /\ Count(<<begin>>, M) = (IF begin \in M THEN 1 ELSE 0)
               /\ Count(<<close>>, M) = (IF close \in M THEN 1 ELSE 0)
               /\ Count(forms, M) \in Nat
    BY <2>4, CountOne, CountedType
  <2>10. \A M : Count((<<begin>> \o forms) \o <<close>>, M) \in Nat
    BY <2>8, <2>9
  <2>11. Count((<<begin>> \o forms) \o <<close>>, OkBegins) >= 1
    BY <2>2, <2>8, <2>9
  <2>12. Count((<<begin>> \o forms) \o <<close>>, Ends(end)) >= 1
    BY <2>2, <2>8, <2>9
  <2>13. \A p \in Outcomes :
           Count((<<begin>> \o forms) \o <<close>>, Inserts(p)) = Count(forms, Inserts(p))
    BY <2>2, <2>8, <2>9
  <2> QED
    BY <2>5, <2>6, <2>10, <2>11, <2>12, <2>13
<1>2. Balanced(Bracket(InsertForms(t, "ok"), "commit"), 0, 0, 0)
  <2>1. "ok" \in Outcomes /\ "error" \in Outcomes \ {"ok"}
    BY DEF Outcomes
  <2> QED
    BY <1>1, <2>1 DEF Balanced
<1>3. Balanced(Bracket(InsertForms(t, "error"), "rollback"), 0, 0, 0)
  <2>1. "error" \in Outcomes /\ "ok" \in Outcomes \ {"error"}
    BY DEF Outcomes
  <2> QED
    BY <1>1, <2>1 DEF Balanced
<1> QED
  BY <1>2, <1>3

(* Everything a test without bare creates adds is balanced.                *)
LEMMA AddedIsBalanced ==
  ASSUME Adding, OnlyScriptedCreates
  PROVE  \E es \in Seq(Expectations) : Queue(es) /\ Balanced(es, 0, 0, 0)
<1>1. ASSUME NEW e \in Others
      PROVE  <<e>> \in Seq(Expectations) /\ Balanced(<<e>>, 0, 0, 0)
  <2>1. <<e>> \in Seq(Expectations) /\ \A n \in DOMAIN <<e>> : <<e>>[n].op # "insert"
    BY DEF Others
  <2> QED
    BY <2>1, BalancedWithoutInserts
<1>2. Ends2 \in Seq(Expectations) /\ Balanced(Ends2, 0, 0, 0)
  <2>1. /\ Expect("rollback", None, None, "ok") \in Checks
        /\ Expect("commit", None, None, "ok") \in Checks
    BY ExpectationType DEF Checks, Expect, Outcomes, None
  <2>2. Ends2 \in Seq(Checks)
    BY <2>1 DEF Ends2
  <2>3. Ends2 \in Seq(Expectations) /\ \A n \in DOMAIN Ends2 : Ends2[n].op # "insert"
    BY <2>2, SeqMonotonic, ElementOfSeq, LenProperties DEF Checks
  <2> QED
    BY <2>3, BalancedWithoutInserts
<1>3. "bare_create" \notin style.uses
  BY DEF OnlyScriptedCreates
<1>4. \A t \in Tables : /\ Bracket(InsertForms(t, "ok"), "commit") \in Seq(Expectations)
                        /\ Bracket(InsertForms(t, "error"), "rollback") \in Seq(Expectations)
  BY WriteForms DEF Outcomes
<1> QED
  BY <1>1, <1>2, <1>3, <1>4, BracketBalanced DEF Adding

(* Appending keeps what fits a call.                                       *)
LEMMA FitGrows ==
  ASSUME NEW queue \in Seq(Expectations), NEW es \in Seq(Expectations), NEW c,
         Fit(queue, c) # {}
  PROVE  Fit(queue \o es, c) # {}
<1>1. PICK n \in Fit(queue, c) : TRUE
  OBVIOUS
<1>2. /\ Len(queue) \in Nat /\ Len(es) \in Nat /\ DOMAIN queue = 1 .. Len(queue)
      /\ DOMAIN (queue \o es) = 1 .. Len(queue) + Len(es)
      /\ \A m \in 1 .. Len(queue) : (queue \o es)[m] = queue[m]
  BY LenProperties, ConcatProperties
<1>3. n \in 1 .. Len(queue) /\ ~queue[n].met /\ Covers(queue[n], c)
  BY <1>1, <1>2 DEF Fit
<1>4. n \in DOMAIN (queue \o es) /\ (queue \o es)[n] = queue[n]
  BY <1>2, <1>3
<1> QED
  BY <1>3, <1>4 DEF Fit

(* Something counted is left of what a call asks for: the call is answered.*)
LEMMA CountedFits ==
  ASSUME NEW queue \in Seq(Expectations), NEW M, Count(queue, M) >= 1, NEW c,
         \A e \in M : ~e.met /\ Covers(e, c)
  PROVE  Fit(queue, c) # {}
<1>1. PICK n \in DOMAIN queue : queue[n] \in M
  BY CountType
<1> QED
  BY <1>1 DEF Fit

(* A call that is answered takes one expectation, which covers it, out of  *)
(* every count it was part of.                                             *)
Takes(e, c) ==
  /\ e \in Expectations /\ ~e.met /\ Covers(e, c) /\ e.op # "any_version"
  /\ answer' = [call |-> c, outcome |-> e.outcome]
  /\ \A d \in Calls : Fit(expected, d) # {} /\ d # c => Fit(expected', d) # {}
  /\ \A M \in Counted :
       Count(expected', M) = IF e \in M THEN Count(expected, M) - 1 ELSE Count(expected, M)

(* Every call takes one or is rejected and changes nothing.                *)
LEMMA CallTakes ==
  ASSUME IInv, NoCatchAll, NEW c \in Calls, Calling(c)
  PROVE  IF Fit(expected, c) = {}
         THEN expected' = expected /\ answer' = [call |-> c, outcome |-> "rejected"]
         ELSE \E e : Takes(e, c)
<1> DEFINE first == FirstCandidate(expected, InOrder, c)
<1>1. /\ expected \in Seq(Expectations) /\ expected' = After(expected, InOrder, c)
      /\ answer' = [call |-> c, outcome |-> Answer(expected, InOrder, c)]
  BY DEF IInv, TypeOK, Calling
<1>2. CASE Fit(expected, c) = {}
  BY <1>1, <1>2, Taking
<1>3. CASE Fit(expected, c) # {}
  <2>1. /\ first \in Fit(expected, c)
        /\ answer' = [call |-> c, outcome |-> expected[first].outcome]
        /\ DOMAIN expected' = DOMAIN expected
        /\ expected'[first] = [expected[first] EXCEPT !.met = TRUE]
        /\ \A n \in DOMAIN expected : n # first => expected'[n] = expected[n]
    BY <1>1, <1>3, Taking
  <2> HIDE DEF first
  <2>2. first \in DOMAIN expected /\ expected[first] \in Expectations /\ Covers(expected[first], c)
        /\ ~expected[first].met
    BY <1>1, <2>1, LenProperties, ElementOfSeq DEF Fit
  <2>3. expected'[first].met /\ expected[first].op # "any_version"
    BY <2>1, <2>2 DEF Expectations, NoCatchAll
  <2>4. ASSUME NEW M \in Counted
        PROVE  Count(expected', M) = IF expected[first] \in M THEN Count(expected, M) - 1
                                     ELSE Count(expected, M)
    <3>1. expected'[first] \notin M
      BY <2>3 DEF Counted, OkBegins, Inserts, Ends
    <3>2. expected \in Seq(Expectations) /\ DOMAIN expected' = DOMAIN expected
          /\ first \in DOMAIN expected
          /\ \A n \in DOMAIN expected : n # first => expected'[n] = expected[n]
      BY <1>1, <2>1, <2>2
    <3>3. ASSUME NEW s \in Seq(Expectations), NEW t, DOMAIN t = DOMAIN s, NEW n \in DOMAIN s,
                 t[n] \notin M, \A m \in DOMAIN s : m # n => t[m] = s[m]
          PROVE  Count(t, M) = IF s[n] \in M THEN Count(s, M) - 1 ELSE Count(s, M)
      BY <3>3, CountWithout
    <3> QED
      BY <3>1, <3>2, <3>3, Zenon
  <2>5. ASSUME NEW d \in Calls, Fit(expected, d) # {}, d # c
        PROVE  Fit(expected', d) # {}
    <3>1. PICK n \in Fit(expected, d) : TRUE
      BY <2>5
    <3>2. n # first
      BY <2>2, <2>3, <2>5, <3>1, CoversOne DEF Fit
    <3> QED
      BY <2>1, <3>1, <3>2 DEF Fit
  <2>6. Takes(expected[first], c)
    BY <2>1, <2>2, <2>3, <2>4, <2>5 DEF Takes
  <2> QED
    BY <1>3, <2>6
<1> QED
  BY <1>2, <1>3

(* What a call takes belongs to the count of what it asks for, and to no   *)
(* other.                                                                  *)
LEMMA Kinds ==
  ASSUME NEW e \in Expectations, ~e.met, e.op # "any_version"
  PROVE  /\ Covers(e, Begin) => /\ e \in OkBegins <=> e.outcome = "ok"
                                /\ \A o \in Outcomes : e \notin Inserts(o)
                                /\ e \notin Ends("commit") /\ e \notin Ends("rollback")
         /\ Covers(e, Commit) => /\ e \in Ends("commit") /\ e \notin Ends("rollback")
                                 /\ \A o \in Outcomes : e \notin Inserts(o)
                                 /\ e \notin OkBegins
         /\ Covers(e, Rollback) => /\ e \in Ends("rollback") /\ e \notin Ends("commit")
                                   /\ \A o \in Outcomes : e \notin Inserts(o)
                                   /\ e \notin OkBegins
         /\ \A c \in Background : Covers(e, c) =>
              /\ e \notin Ends("rollback") /\ e \notin Ends("commit")
              /\ \A o \in Outcomes : e \notin Inserts(o)
              /\ e \notin OkBegins
         /\ \A c \in Calls : c.op = "insert" /\ Covers(e, c) =>
              /\ e \notin Ends("rollback") /\ e \notin Ends("commit") /\ e \notin OkBegins
              /\ \A o \in Outcomes : e \in Inserts(o) <=> e.outcome = o
<1>1. Covers(e, Begin) => e.kind = "begin" /\ e.op = None
  BY DEF Covers, Begin, Call, None
<1>2. Covers(e, Commit) => e.kind = "commit" /\ e.op = None
  BY DEF Covers, Commit, Call, None
<1>3. Covers(e, Rollback) => e.kind = "rollback" /\ e.op = None
  BY DEF Covers, Rollback, Call, None
<1>4. \A c \in Background : Covers(e, c) => e.kind = "query" /\ e.op # "insert"
  BY DEF Covers, Background, Call, BackgroundOps
<1>5. \A c \in Calls : c.op = "insert" /\ Covers(e, c) =>
        /\ e.op = "insert" /\ e.kind = InsertForm(e.table) /\ e.kind \in {"query", "exec"}
  <2> SUFFICES ASSUME NEW c \in Calls, c.op = "insert", Covers(e, c)
               PROVE  /\ e.op = "insert" /\ e.kind = InsertForm(e.table)
                      /\ e.kind \in {"query", "exec"}
    OBVIOUS
  <2>1. PICK t \in Tables : c = Call(InsertForm(t), "insert", t)
    <3>1. c \notin Background /\ c # Begin /\ c # Commit /\ c # Rollback
      BY DEF Background, BackgroundOps, Begin, Commit, Rollback, Call, None
    <3>2. c \in Writes
      BY <3>1 DEF Calls
    <3> QED
      BY <3>2 DEF Writes, Write, Call
  <2>2. c.kind = InsertForm(t) /\ c.op = "insert" /\ c.table = t
    BY <2>1 DEF Call
  <2>3. e.kind = InsertForm(t) /\ e.op = "insert" /\ e.table = t
    BY <2>2 DEF Covers
  <2> QED
    BY <2>3 DEF InsertForm
<1>6. /\ \A k \in {"commit", "rollback"} : e \in Ends(k) => e.kind = k /\ e.op = None
      /\ e \in OkBegins => e.kind = "begin" /\ e.op = None
      /\ \A o : e \in Inserts(o) => e.op = "insert"
  BY <1>1 DEF Ends, OkBegins, Inserts, Covers, Call, None
<1>7. None # "insert"
  BY DEF None
<1>8. Covers(e, Begin) => (e \in OkBegins <=> e.outcome = "ok")
  BY DEF OkBegins
<1>9. (Covers(e, Commit) => e \in Ends("commit")) /\ (Covers(e, Rollback) => e \in Ends("rollback"))
  BY DEF Ends, Commit, Rollback
<1>10. \A c \in Calls : c.op = "insert" /\ Covers(e, c) =>
         \A o \in Outcomes : e \in Inserts(o) <=> e.outcome = o
  BY <1>5 DEF Inserts
<1> QED
  BY <1>1, <1>2, <1>3, <1>4, <1>5, <1>6, <1>7, <1>8, <1>9, <1>10

(* The test adds to the queue: what it adds is balanced.                   *)
LEMMA AuthorKeepsCreates ==
  ASSUME IInv, CreatesInv, OnlyScriptedCreates, Author
  PROVE  CreatesInv'
<1>1. style' = style /\ UNCHANGED codeVars /\ (Adding \/ UNCHANGED expected)
  BY AuthorSteps
<1>2. NoCatchAll'
  BY CatchAllStaysUsed DEF CreatesInv, Next
<1>3. ScriptedCreateNeverRejected'
  BY <1>1 DEF ScriptedCreateNeverRejected, CreatesInv, OnlyScriptedCreates, codeVars
<1>4. UNCHANGED <<pc, pending, explicit>> /\ pending \in Calls
  BY <1>1 DEF codeVars, IInv, TypeOK
<1>5. CASE UNCHANGED expected
  BY <1>2, <1>3, <1>4, <1>5 DEF CreatesInv
<1>6. CASE Adding
  <2>1. PICK es \in Seq(Expectations) : Queue(es) /\ Balanced(es, 0, 0, 0)
    BY <1>6, AddedIsBalanced
  <2>2. expected \in Seq(Expectations) /\ expected' = expected \o es
    BY <2>1 DEF Queue, IInv, TypeOK
  <2>3. Balanced(expected, OneIf(pc = "write"), OneIf(pc = "commit"), OneIf(pc = "rollback"))
    BY DEF CreatesInv
  <2>4. Balanced(expected \o es, OneIf(pc = "write"), OneIf(pc = "commit"), OneIf(pc = "rollback"))
    <3>1. /\ OneIf(pc = "write") \in {0, 1} /\ OneIf(pc = "commit") \in {0, 1}
          /\ OneIf(pc = "rollback") \in {0, 1}
      BY DEF OneIf
    <3>2. \A w, c, r \in {0, 1} : Balanced(expected, w, c, r) => Balanced(expected \o es, w, c, r)
      BY <2>1, <2>2, BalancedConcat
    <3> QED
      BY <2>3, <3>1, <3>2, Zenon
  <2>5. pc = "write" => Fit(expected \o es, pending) # {}
    BY <2>2, FitGrows DEF CreatesInv
  <2> QED
    BY <1>2, <1>3, <1>4, <2>2, <2>4, <2>5 DEF CreatesInv
<1> QED
  BY <1>1, <1>5, <1>6

(* A scripted create begins: a Begin that succeeds is left for it.         *)
LEMMA BeginKeepsCreates ==
  ASSUME IInv, CreatesInv, OnlyScriptedCreates, NoCatchAll', NEW c \in Writes,
         WriteBegins(c)
  PROVE  CreatesInv'
<1>1. /\ pc = "idle" /\ Calling(Begin) /\ Begin \in Calls /\ c \in Calls
      /\ explicit' = FALSE /\ NoCatchAll /\ style' = style
  BY DEF WriteBegins, CreatesInv, Calls, Calling, AuthorVarsUnchanged, testVars
<1>2. c.op = "insert" /\ Fit(expected, c) # {}
  BY DEF WriteBegins, OnlyScriptedCreates, Candidates, Fit, Unmet, InOrder
<1>3. /\ expected \in Seq(Expectations)
      /\ DOMAIN expected = 1 .. Len(expected)
      /\ \A n \in DOMAIN expected : expected[n] \in Expectations
  BY LenProperties, ElementOfSeq DEF IInv, TypeOK
<1>4. PICK n \in DOMAIN expected : /\ expected[n] \in Expectations /\ ~expected[n].met
                                   /\ Covers(expected[n], c) /\ expected[n].op # "any_version"
  BY <1>1, <1>2, <1>3 DEF Fit, NoCatchAll
<1>5. expected[n].outcome \in Outcomes /\ expected[n] \in Inserts(expected[n].outcome)
  BY <1>1, <1>2, <1>4, Kinds DEF Expectations, Outcomes
<1>6. Count(expected, Inserts(expected[n].outcome)) # 0
  BY <1>3, <1>5, CountType
<1>7. /\ Count(expected, OkBegins) \in Nat
      /\ Count(expected, Inserts("ok")) \in Nat /\ Count(expected, Inserts("error")) \in Nat
      /\ Count(expected, Ends("commit")) \in Nat /\ Count(expected, Ends("rollback")) \in Nat
  BY <1>3, CountedType
<1>8. Balanced(expected, 0, 0, 0)
  BY <1>1 DEF CreatesInv, OneIf
<1>9. Count(expected, OkBegins) >= 1
  BY <1>5, <1>6, <1>7, <1>8 DEF Outcomes, Balanced
<1>10. Fit(expected, Begin) # {}
  BY <1>3, <1>9, CountedFits DEF OkBegins
<1>11. PICK e : Takes(e, Begin)
  BY <1>1, <1>10, CallTakes
<1>12. /\ e \in OkBegins <=> e.outcome = "ok"
       /\ e \notin Inserts("ok") /\ e \notin Inserts("error")
       /\ e \notin Ends("commit") /\ e \notin Ends("rollback")
       /\ e.outcome \in Outcomes /\ answer' = [call |-> Begin, outcome |-> e.outcome]
  BY <1>11, Kinds DEF Takes, Outcomes, Expectations
<1>13. /\ Count(expected', OkBegins)
            = IF e \in OkBegins THEN Count(expected, OkBegins) - 1 ELSE Count(expected, OkBegins)
       /\ Count(expected', Inserts("ok")) = Count(expected, Inserts("ok"))
       /\ Count(expected', Inserts("error")) = Count(expected, Inserts("error"))
       /\ Count(expected', Ends("commit")) = Count(expected, Ends("commit"))
       /\ Count(expected', Ends("rollback")) = Count(expected, Ends("rollback"))
  BY <1>11, <1>12 DEF Takes, Counted
<1>14. NoCatchAll' /\ ScriptedCreateNeverRejected'
  BY <1>12 DEF ScriptedCreateNeverRejected, Outcomes
<1>15. CASE e.outcome = "ok"
  <2>1. pc' = "write" /\ pending' = c
    BY <1>12, <1>15 DEF WriteBegins
  <2>2. Balanced(expected', 1, 0, 0)
    BY <1>7, <1>8, <1>12, <1>13, <1>15 DEF Balanced
  <2>3. Fit(expected', c) # {}
    <3>1. c # Begin
      BY <1>2 DEF Begin, Call, None
    <3> QED
      BY <1>1, <1>2, <1>11, <3>1 DEF Takes
  <2> QED
    BY <1>1, <1>2, <1>14, <2>1, <2>2, <2>3 DEF CreatesInv, OneIf
<1>16. CASE e.outcome = "error"
  <2>1. pc' = "idle"
    BY <1>1, <1>12, <1>16 DEF WriteBegins
  <2>2. Balanced(expected', 0, 0, 0)
    BY <1>7, <1>8, <1>12, <1>13, <1>16 DEF Balanced
  <2> QED
    BY <1>1, <1>14, <2>1, <2>2 DEF CreatesInv, OneIf
<1> QED
  BY <1>12, <1>15, <1>16 DEF Outcomes

(* The insert of a scripted create is executed: its own expectation is     *)
(* left, and the end that its outcome calls for is still expected.         *)
LEMMA ExecuteKeepsCreates ==
  ASSUME IInv, CreatesInv, OnlyScriptedCreates, NoCatchAll', WriteExecutes
  PROVE  CreatesInv'
<1>1. /\ pc = "write" /\ Calling(pending) /\ pending \in Calls
      /\ explicit' = FALSE /\ NoCatchAll /\ style' = style
      /\ pending.op = "insert" /\ Fit(expected, pending) # {}
  BY DEF WriteExecutes, CreatesInv, IInv, TypeOK, Calling, AuthorVarsUnchanged, testVars
<1>2. expected \in Seq(Expectations)
  BY DEF IInv, TypeOK
<1>3. /\ Count(expected, OkBegins) \in Nat
      /\ Count(expected, Inserts("ok")) \in Nat /\ Count(expected, Inserts("error")) \in Nat
      /\ Count(expected, Ends("commit")) \in Nat /\ Count(expected, Ends("rollback")) \in Nat
  BY <1>2, CountedType
<1>4. Balanced(expected, 1, 0, 0)
  BY <1>1 DEF CreatesInv, OneIf
<1>5. PICK e : Takes(e, pending)
  BY <1>1, CallTakes
<1>6. /\ e \in Inserts("ok") <=> e.outcome = "ok"
      /\ e \in Inserts("error") <=> e.outcome = "error"
      /\ e \notin OkBegins /\ e \notin Ends("commit") /\ e \notin Ends("rollback")
      /\ e.outcome \in Outcomes /\ answer' = [call |-> pending, outcome |-> e.outcome]
  BY <1>1, <1>5, Kinds DEF Takes, Outcomes, Expectations
<1>7. /\ Count(expected', OkBegins) = Count(expected, OkBegins)
      /\ Count(expected', Inserts("ok"))
           = IF e \in Inserts("ok") THEN Count(expected, Inserts("ok")) - 1
             ELSE Count(expected, Inserts("ok"))
      /\ Count(expected', Inserts("error"))
           = IF e \in Inserts("error") THEN Count(expected, Inserts("error")) - 1
             ELSE Count(expected, Inserts("error"))
      /\ Count(expected', Ends("commit")) = Count(expected, Ends("commit"))
      /\ Count(expected', Ends("rollback")) = Count(expected, Ends("rollback"))
  BY <1>5, <1>6 DEF Takes, Counted
<1>8. ScriptedCreateNeverRejected'
  BY <1>6 DEF ScriptedCreateNeverRejected, Outcomes
<1>9. CASE e.outcome = "ok"
  <2>1. pc' = "commit"
    BY <1>6, <1>9 DEF WriteExecutes
  <2>2. Balanced(expected', 0, 1, 0)
    BY <1>3, <1>4, <1>6, <1>7, <1>9 DEF Balanced
  <2> QED
    BY <1>1, <1>8, <2>1, <2>2 DEF CreatesInv, OneIf
<1>10. CASE e.outcome = "error"
  <2>1. pc' = "rollback"
    BY <1>6, <1>10 DEF WriteExecutes
  <2>2. Balanced(expected', 0, 0, 1)
    BY <1>3, <1>4, <1>6, <1>7, <1>10 DEF Balanced
  <2> QED
    BY <1>1, <1>8, <2>1, <2>2 DEF CreatesInv, OneIf
<1> QED
  BY <1>6, <1>9, <1>10 DEF Outcomes

(* The transaction of a scripted create ends: the Commit or the Rollback   *)
(* is left for it.                                                         *)
LEMMA EndKeepsCreates ==
  ASSUME IInv, CreatesInv, OnlyScriptedCreates, NoCatchAll', WriteEnds
  PROVE  CreatesInv'
<1>1. /\ explicit' = FALSE /\ NoCatchAll /\ style' = style /\ pc' = "idle"
      /\ Commit \in Calls /\ Rollback \in Calls
      /\ (pc = "commit" /\ Calling(Commit)) \/ (pc = "rollback" /\ Calling(Rollback))
  <2>1. (pc = "commit" /\ Calling(Commit)) \/ (pc = "rollback" /\ Calling(Rollback))
    <3>1. CASE pc = "commit"
      BY <3>1 DEF WriteEnds
    <3>2. CASE pc = "rollback"
      BY <3>2 DEF WriteEnds
    <3> QED
      BY <3>1, <3>2 DEF WriteEnds
  <2> QED
    BY <2>1 DEF WriteEnds, CreatesInv, Calls, Calling, AuthorVarsUnchanged, testVars
<1>2. expected \in Seq(Expectations)
  BY DEF IInv, TypeOK
<1>3. /\ Count(expected, OkBegins) \in Nat
      /\ Count(expected, Inserts("ok")) \in Nat /\ Count(expected, Inserts("error")) \in Nat
      /\ Count(expected, Ends("commit")) \in Nat /\ Count(expected, Ends("rollback")) \in Nat
  BY <1>2, CountedType
<1>4. SUFFICES Balanced(expected', 0, 0, 0) /\ answer'.outcome # "rejected"
  BY <1>1 DEF CreatesInv, OneIf, ScriptedCreateNeverRejected
<1>5. CASE pc = "commit" /\ Calling(Commit)
  <2>1. Balanced(expected, 0, 1, 0)
    BY <1>5 DEF CreatesInv, OneIf
  <2>2. Count(expected, Ends("commit")) >= 1
    BY <1>3, <2>1 DEF Balanced
  <2>3. Fit(expected, Commit) # {}
    BY <1>2, <2>2, CountedFits DEF Ends, Commit
  <2>4. PICK e : Takes(e, Commit)
    BY <1>1, <1>5, <2>3, CallTakes
  <2>5. /\ e \in Ends("commit") /\ e \notin Inserts("ok") /\ e \notin Inserts("error")
        /\ e \notin OkBegins /\ e \notin Ends("rollback")
        /\ e.outcome \in Outcomes /\ answer' = [call |-> Commit, outcome |-> e.outcome]
    BY <2>4, Kinds DEF Takes, Outcomes, Expectations
  <2>6. /\ Count(expected', OkBegins) = Count(expected, OkBegins)
        /\ Count(expected', Inserts("ok")) = Count(expected, Inserts("ok"))
        /\ Count(expected', Inserts("error")) = Count(expected, Inserts("error"))
        /\ Count(expected', Ends("commit")) = Count(expected, Ends("commit")) - 1
        /\ Count(expected', Ends("rollback")) = Count(expected, Ends("rollback"))
    BY <2>4, <2>5 DEF Takes, Counted
  <2>7. Balanced(expected', 0, 0, 0)
    BY <1>3, <2>1, <2>6 DEF Balanced
  <2> QED
    BY <2>5, <2>7 DEF Outcomes
<1>6. CASE pc = "rollback" /\ Calling(Rollback)
  <2>1. Balanced(expected, 0, 0, 1)
    BY <1>6 DEF CreatesInv, OneIf
  <2>2. Count(expected, Ends("rollback")) >= 1
    BY <1>3, <2>1 DEF Balanced
  <2>3. Fit(expected, Rollback) # {}
    BY <1>2, <2>2, CountedFits DEF Ends, Rollback
  <2>4. PICK e : Takes(e, Rollback)
    BY <1>1, <1>6, <2>3, CallTakes
  <2>5. /\ e \in Ends("rollback") /\ e \notin Inserts("ok") /\ e \notin Inserts("error")
        /\ e \notin OkBegins /\ e \notin Ends("commit")
        /\ e.outcome \in Outcomes /\ answer' = [call |-> Rollback, outcome |-> e.outcome]
    BY <2>4, Kinds DEF Takes, Outcomes, Expectations
  <2>6. /\ Count(expected', OkBegins) = Count(expected, OkBegins)
        /\ Count(expected', Inserts("ok")) = Count(expected, Inserts("ok"))
        /\ Count(expected', Inserts("error")) = Count(expected, Inserts("error"))
        /\ Count(expected', Ends("commit")) = Count(expected, Ends("commit"))
        /\ Count(expected', Ends("rollback")) = Count(expected, Ends("rollback")) - 1
    BY <2>4, <2>5 DEF Takes, Counted
  <2>7. Balanced(expected', 0, 0, 0)
    BY <1>3, <2>1, <2>6 DEF Balanced
  <2> QED
    BY <2>5, <2>7 DEF Outcomes
<1> QED
  BY <1>1, <1>5, <1>6

(* A query of GORM's own takes nothing that a create needs, whether it is  *)
(* answered or rejected.                                                   *)
LEMMA QueryKeepsCreates ==
  ASSUME IInv, CreatesInv, OnlyScriptedCreates, NoCatchAll', NEW c \in Background,
         BackgroundQuery(c)
  PROVE  CreatesInv'
<1>1. /\ pc = "idle" /\ pc' = "idle" /\ explicit' = FALSE /\ NoCatchAll /\ style' = style
      /\ c \in Calls /\ Calling(c)
  BY DEF BackgroundQuery, CreatesInv, Calls, Calling, AuthorVarsUnchanged, testVars
<1>2. ScriptedCreateNeverRejected'
  BY <1>1 DEF ScriptedCreateNeverRejected, Calling
<1>3. Balanced(expected, 0, 0, 0)
  BY <1>1 DEF CreatesInv, OneIf
<1>4. Balanced(expected', 0, 0, 0)
  <2>1. CASE Fit(expected, c) = {}
    BY <1>1, <1>3, <2>1, CallTakes
  <2>2. CASE Fit(expected, c) # {}
    <3>1. PICK e : Takes(e, c)
      BY <1>1, <2>2, CallTakes
    <3>2. /\ e \notin Ends("rollback") /\ e \notin Inserts("ok") /\ e \notin Inserts("error")
          /\ e \notin OkBegins /\ e \notin Ends("commit")
      BY <3>1, Kinds DEF Takes, Outcomes
    <3>3. /\ Count(expected', OkBegins) = Count(expected, OkBegins)
          /\ Count(expected', Inserts("ok")) = Count(expected, Inserts("ok"))
          /\ Count(expected', Inserts("error")) = Count(expected, Inserts("error"))
          /\ Count(expected', Ends("commit")) = Count(expected, Ends("commit"))
          /\ Count(expected', Ends("rollback")) = Count(expected, Ends("rollback"))
      BY <3>1, <3>2 DEF Takes, Counted
    <3> QED
      BY <1>3, <3>3 DEF Balanced
  <2> QED
    BY <2>1, <2>2
<1> QED
  BY <1>1, <1>2, <1>4 DEF CreatesInv, OneIf

(* A create that the test scripted is never rejected half way, whatever    *)
(* else the test expects and however its creates are interleaved with its  *)
(* expectations.                                                           *)
THEOREM ScriptedCreatesSucceed == Spec => []ScriptedCreateNeverRejected
<1>1. Init => CreatesInv
  <2> SUFFICES ASSUME Init PROVE CreatesInv
    OBVIOUS
  <2>1. NoCatchAll
    BY ConnectedUsesCatchAll
  <2>2. /\ expected \in Seq(Expectations) /\ Len(expected) = Len(Defaults)
        /\ \A n \in 1 .. Len(Defaults) : expected[n].op = Defaults[n].op
    BY DefaultsType, AfterKeeps DEF Init, Connected
  <2>3. \A n \in 1 .. Len(Defaults) : Defaults[n].op # "insert"
    BY DefaultsType, ElementOfSeq DEF Checks
  <2>4. \A n \in DOMAIN expected : expected[n].op # "insert"
    BY <2>2, <2>3, LenProperties
  <2>5. Balanced(expected, 0, 0, 0)
    BY <2>2, <2>4, BalancedWithoutInserts
  <2> QED
    BY <2>1, <2>5 DEF Init, CreatesInv, OneIf, ScriptedCreateNeverRejected
<1>2. IInv /\ CreatesInv /\ [Next]_vars => CreatesInv'
  <2> SUFFICES ASSUME IInv, CreatesInv, [Next]_vars PROVE CreatesInv'
    OBVIOUS
  <2>1. NoCatchAll'
    BY CatchAllStaysUsed DEF CreatesInv
  <2>2. CASE UNCHANGED vars
    BY <2>1, <2>2
       DEF vars, testVars, codeVars, CreatesInv, ScriptedCreateNeverRejected, OnlyScriptedCreates
  <2>3. style' = style
    BY AuthorSteps DEF Next, CodeUnderTest, ExplicitBegin, ExplicitWrite, WriteBegins,
       ExplicitEnd, WriteExecutes, WriteEnds, BackgroundQuery, Calling, AuthorVarsUnchanged,
       testVars, vars
  <2>4. CASE ~OnlyScriptedCreates
    BY <2>1, <2>3, <2>4 DEF CreatesInv, ScriptedCreateNeverRejected, OnlyScriptedCreates
  <2>5. CASE OnlyScriptedCreates /\ Author
    BY <2>5, AuthorKeepsCreates
  <2>6. CASE OnlyScriptedCreates /\ CodeUnderTest
    <3>1. "transactions" \notin style.uses /\ ~explicit
      BY <2>6 DEF OnlyScriptedCreates, CreatesInv
    <3>2. CASE \E c \in Writes : WriteBegins(c)
      BY <2>1, <2>6, <3>2, BeginKeepsCreates
    <3>3. CASE WriteExecutes
      BY <2>1, <2>6, <3>3, ExecuteKeepsCreates
    <3>4. CASE WriteEnds
      BY <2>1, <2>6, <3>4, EndKeepsCreates
    <3>5. CASE \E c \in Background : BackgroundQuery(c)
      BY <2>1, <2>6, <3>5, QueryKeepsCreates
    <3> QED
      BY <2>6, <3>1, <3>2, <3>3, <3>4, <3>5
         DEF CodeUnderTest, ExplicitBegin, ExplicitWrite, ExplicitEnd
  <2> QED
    BY <2>2, <2>4, <2>5, <2>6 DEF Next
<1>3. CreatesInv => ScriptedCreateNeverRejected
  BY DEF CreatesInv
<1> QED
  BY <1>1, <1>2, <1>3, InvariantHolds, PTL DEF Spec
=============================================================================
