---------------------------- MODULE DBTestContext ----------------------------
(***************************************************************************)
(* The life of one DBTestContext (db_test_context.go): the expectations it *)
(* configures itself, those the test adds through ExpectationsBuilder and  *)
(* TransactionExpectationBuilder (expectations_builder.go), the calls the  *)
(* code under test makes through GORM, and the verification at the end.    *)
(*                                                                         *)
(* A test has a style, fixed when it starts: the groups of methods its     *)
(* author and its code use, on which tables, and how many expectations it  *)
(* adds at most.  This only says what a run explores: a style may contain  *)
(* every group and every table.                                            *)
(***************************************************************************)
EXTENDS Integers, Sequences, FiniteSets, Functions, Sqlmock

CONSTANTS
  Tables,          \* the tables of the code under test
  ReturningTables, \* those whose model makes GORM create with RETURNING
  MasterChecks,    \* defaults for table existence checks: 50 in the code
  SchemaChecks,    \* defaults of each other schema query: 10 in the code
  Styles           \* the styles of test explored

Groups == {"create", "bare_create", "update", "raw", "chain", "skip",
           "writes", "scripted_creates", "transactions", "background"}

ASSUME DBTestContextAssumption ==
  /\ VersionTables \subseteq Tables
  /\ ReturningTables \subseteq Tables
  /\ MasterChecks \in Nat
  /\ SchemaChecks \in Nat
  /\ Styles \subseteq [uses : SUBSET Groups, tables : SUBSET Tables, room : Nat]

VARIABLES
  expected,           \* the expectation queue of tc.mock
  chains,             \* the tables ExpectTransaction was called for, in order
  skipVerification,
  logged,             \* positions of the expectations warned about
  tornDown,
  pc,                 \* GORM: "idle", or within a write: "write", "commit", "rollback"
  pending,            \* the statement of that write, Begin when there is none
  explicit,           \* is a transaction begun by the code itself open?
  answer,             \* the last call and what it was answered
  style               \* the style of the test, which never changes

testVars == <<chains, skipVerification, logged, tornDown, style>>
codeVars == <<pc, pending, explicit, answer>>
vars == <<expected, testVars, codeVars>>

None == "-"
Begin    == Call("begin", None, None)
Commit   == Call("commit", None, None)
Rollback == Call("rollback", None, None)
Write(form, op, t) == Call(form, op, t)

BackgroundOps == {"SELECT_1", "select_1", "sqlite_version", "user_version",
                  "sqlite_master", "table_info", "foreign_key_list", "index_list"}
Background == {Call("query", op, None) : op \in BackgroundOps}
InsertForm(t) == IF t \in ReturningTables THEN "query" ELSE "exec"
Writes == {Write(InsertForm(t), "insert", t) : t \in Tables}
            \cup {Write("exec", op, t) : op \in {"update", "delete"}, t \in Tables}
Calls == {Begin, Commit, Rollback} \cup Background \cup Writes

------------------------------------------------------------------------------
(* configureSQLMockDefaults: the order of the expectations matters, since  *)
(* the first unmet one is the one that gets reported.                      *)
InOrder == FALSE

Default(op) == Expect("query", op, None, "ok")
Repeated(op, times) == [n \in 1 .. times |-> Default(op)]

Defaults ==
  <<Default("SELECT_1"), Default("select_1"), Default("any_version"),
    Default("sqlite_version"), Default("SQLITE_VERSION"), Default("user_version")>>
  \o Repeated("sqlite_master", MasterChecks)
  \o Repeated("table_info", SchemaChecks)
  \o Repeated("foreign_key_list", SchemaChecks)
  \o Repeated("index_list", SchemaChecks)

NotConnected == Defaults   \* a bug: connecting before the defaults are there

(* The queue right after NewDBTestContext: connecting asks the server for  *)
(* its version, which the catch-all default answers.                       *)
Connected == After(Defaults, InOrder, Call("query", "sqlite_version", None))

PingsNotIgnored(e) ==      \* a bug: the filter forgets SELECT 1
  e.op \in {"sqlite_version", "SQLITE_VERSION", "user_version", "sqlite_master", "index_list"}

(* VerifyExpectations skips an error whose text names one of these; the    *)
(* text of the index-list default names sqlite_master too.                 *)
Ignored(e) == e.op \in {"SELECT_1", "sqlite_version", "SQLITE_VERSION",
                        "user_version", "sqlite_master", "index_list"}

Init ==
  /\ expected = Connected
  /\ chains = <<>>
  /\ skipVerification = FALSE
  /\ logged = {}
  /\ tornDown = FALSE
  /\ pc = "idle"
  /\ pending = Begin
  /\ explicit = FALSE
  /\ answer = [call |-> Begin, outcome |-> "none"]
  /\ style \in Styles

Expectations ==
  [kind : {"begin", "commit", "rollback", "query", "exec"},
   op : BackgroundOps \cup {"any_version", "SQLITE_VERSION", "insert", "update",
                            "delete", None},
   table : Tables \cup {None},
   outcome : {"ok", "error"},
   met : BOOLEAN]

TypeOK ==
  /\ expected \in Seq(Expectations)
  /\ chains \in Seq(Tables)
  /\ skipVerification \in BOOLEAN
  /\ logged \subseteq DOMAIN expected
  /\ tornDown \in BOOLEAN
  /\ pc \in {"idle", "write", "commit", "rollback"}
  /\ pending \in Calls
  /\ explicit \in BOOLEAN
  /\ answer.call \in Calls
  /\ answer.outcome \in {"none", "ok", "error", "rejected"}
  /\ style \in Styles

------------------------------------------------------------------------------
(* What the test author does: every builder method appends to the queue.   *)
Queue(es) ==
  /\ ~tornDown
  /\ Len(expected) + Len(es) <= Len(Defaults) + style.room
  /\ expected' = expected \o es
  /\ UNCHANGED codeVars

AuthorVarsUnchanged == UNCHANGED testVars

InsertForms(t, outcome) ==
  <<Expect("exec", "insert", t, outcome), Expect("query", "insert", t, outcome)>>

NoEnd(es, end) ==          \* a bug: the transaction is never expected to end
  <<Expect("begin", None, None, "ok")>> \o es

Bracket(es, end) ==
  <<Expect("begin", None, None, "ok")>> \o es \o <<Expect(end, None, None, "ok")>>

ExpectInsert(t, autoHandle) ==
  /\ Queue(IF autoHandle THEN Bracket(InsertForms(t, "ok"), "commit")
           ELSE InsertForms(t, "ok"))
  /\ AuthorVarsUnchanged

ExpectInsertError(t, autoHandle) ==
  /\ Queue(IF autoHandle THEN Bracket(InsertForms(t, "error"), "rollback")
           ELSE InsertForms(t, "error"))
  /\ AuthorVarsUnchanged

ExpectUpdateOrDelete(op, t, outcome) ==
  /\ "update" \in style.uses
  /\ Queue(<<Expect("exec", op, t, outcome)>>)
  /\ AuthorVarsUnchanged

(* tc.Mock().ExpectBegin() and its like, which the docs recommend around   *)
(* an ExpectCreate that does not handle the transaction.                   *)
RawTransactionExpectation(kind) ==
  /\ "raw" \in style.uses
  /\ Queue(<<Expect(kind, None, None, "ok")>>)
  /\ AuthorVarsUnchanged

MockWithDefaults ==
  /\ "raw" \in style.uses
  /\ Queue(<<Default("SELECT_1")>>)
  /\ AuthorVarsUnchanged

ExpectTransaction(t) ==
  /\ "chain" \in style.uses
  /\ Queue(<<Expect("begin", None, None, "ok")>>)
  /\ chains' = Append(chains, t)
  /\ UNCHANGED <<skipVerification, logged, tornDown, style>>

(* The methods of the TransactionExpectationBuilder that ExpectTransaction *)
(* returned: Insert and InsertError call ExpectInsert and                  *)
(* ExpectInsertError without turning the automatic handling off.           *)
TxInsert(t) ==
  /\ t \in Range(chains)
  /\ ExpectInsert(t, TRUE)

TxInsertError(t) ==
  /\ t \in Range(chains)
  /\ ExpectInsertError(t, TRUE)

TxEnd(kind) ==
  /\ chains # <<>>
  /\ Queue(<<Expect(kind, None, None, "ok")>>)
  /\ AuthorVarsUnchanged

WillFailWithError ==
  /\ chains # <<>>
  /\ Queue(<<Expect("begin", None, None, "error")>>)
  /\ AuthorVarsUnchanged

RollbackOnError ==
  /\ chains # <<>>
  /\ Queue(<<Expect("rollback", None, None, "ok"), Expect("commit", None, None, "ok")>>)
  /\ AuthorVarsUnchanged

SkipVerification ==
  /\ ~tornDown /\ "skip" \in style.uses
  /\ skipVerification' = TRUE
  /\ UNCHANGED <<expected, chains, logged, tornDown, style, codeVars>>

(* ExpectationsWereMet reports the first unmet expectation and no other.   *)
Reported ==
  IF skipVerification \/ Unmet(expected) = {} THEN {}
  ELSE {n \in {FirstUnmet(expected)} : ~Ignored(expected[n])}

VerifyExpectations ==
  /\ ~tornDown
  /\ logged' = logged \cup Reported
  /\ UNCHANGED <<expected, chains, skipVerification, tornDown, style, codeVars>>

TeardownClears ==          \* a bug: the mock is reset, its warnings are not
  /\ ~tornDown
  /\ pc = "idle"
  /\ logged' = logged \cup Reported
  /\ tornDown' = TRUE
  /\ expected' = <<>>
  /\ UNCHANGED <<chains, skipVerification, style, codeVars>>

Teardown ==
  /\ ~tornDown
  /\ pc = "idle"
  /\ logged' = logged \cup Reported
  /\ tornDown' = TRUE
  /\ UNCHANGED <<expected, chains, skipVerification, style, codeVars>>

------------------------------------------------------------------------------
(* What the code under test does.  Each call to the database is answered   *)
(* by the queue.                                                           *)
Calling(c) ==
  /\ ~tornDown
  /\ expected' = After(expected, InOrder, c)
  /\ answer' = [call |-> c, outcome |-> Answer(expected, InOrder, c)]
  /\ AuthorVarsUnchanged

(* tx := db.Begin(), and statements, Commit or Rollback on that tx.        *)
ExplicitBegin ==
  /\ "transactions" \in style.uses /\ pc = "idle" /\ ~explicit
  /\ Calling(Begin)
  /\ explicit' = (answer'.outcome = "ok")
  /\ UNCHANGED <<pc, pending>>

ExplicitWrite(c) ==
  /\ pc = "idle" /\ explicit
  /\ Calling(c)
  /\ UNCHANGED <<pc, pending, explicit>>

ExplicitEnd(c) ==
  /\ pc = "idle" /\ explicit
  /\ Calling(c)
  /\ explicit' = FALSE
  /\ UNCHANGED <<pc, pending>>

(* A write outside a transaction: GORM begins one, writes, and commits, or *)
(* rolls back when the write failed.  A begin that fails ends the write.   *)
WriteBegins(c) ==
  /\ pc = "idle" /\ ~explicit
  /\ \/ "writes" \in style.uses
     \/ /\ "scripted_creates" \in style.uses
        /\ c.op = "insert"
        /\ Candidates(expected, InOrder, c) # {}
  /\ Calling(Begin)
  /\ IF answer'.outcome = "ok"
     THEN pc' = "write" /\ pending' = c
     ELSE UNCHANGED <<pc, pending>>
  /\ UNCHANGED explicit

WriteExecutes ==
  /\ pc = "write"
  /\ Calling(pending)
  /\ pc' = IF answer'.outcome = "ok" THEN "commit" ELSE "rollback"
  /\ UNCHANGED <<pending, explicit>>

WriteEnds ==
  /\ pc \in {"commit", "rollback"}
  /\ Calling(IF pc = "commit" THEN Commit ELSE Rollback)
  /\ pc' = "idle"
  /\ pending' = Begin
  /\ UNCHANGED explicit

BackgroundQuery(c) ==
  /\ pc = "idle" /\ "background" \in style.uses
  /\ Calling(c)
  /\ UNCHANGED <<pc, pending, explicit>>

------------------------------------------------------------------------------
Author ==
  \/ \E t \in style.tables, auto \in BOOLEAN :
        /\ (IF auto THEN "create" ELSE "bare_create") \in style.uses
        /\ ExpectInsert(t, auto) \/ ExpectInsertError(t, auto)
  \/ \E t \in style.tables, op \in {"update", "delete"}, o \in {"ok", "error"} :
        ExpectUpdateOrDelete(op, t, o)
  \/ \E kind \in {"begin", "commit", "rollback"} : RawTransactionExpectation(kind)
  \/ \E t \in style.tables : ExpectTransaction(t) \/ TxInsert(t) \/ TxInsertError(t)
  \/ \E kind \in {"commit", "rollback"} : TxEnd(kind)
  \/ MockWithDefaults \/ WillFailWithError \/ RollbackOnError
  \/ SkipVerification \/ VerifyExpectations \/ Teardown

CodeUnderTest ==
  \/ ExplicitBegin
  \/ \E c \in {w \in Writes : w.table \in style.tables} : ExplicitWrite(c) \/ WriteBegins(c)
  \/ \E c \in {Commit, Rollback} : ExplicitEnd(c)
  \/ WriteExecutes \/ WriteEnds
  \/ \E c \in Background : BackgroundQuery(c)

Next == Author \/ CodeUnderTest

Spec == Init /\ [][Next]_vars

------------------------------------------------------------------------------
(* Whatever a test scripts and however the expectations of its tables and  *)
(* of GORM's own queries are interleaved in the one queue, each call is    *)
(* answered from its own script, in the order the test wrote it: nothing   *)
(* is answered out of turn, answered twice or stolen by another pattern.   *)
Promise == INSTANCE ScriptedDatabase WITH
  Calls  <- Calls,
  script <- [c \in Calls |->
               [n \in {m \in DOMAIN expected : ~expected[m].met /\ Covers(expected[m], c)}
                  |-> expected[n].outcome]],
  answer <- answer

FollowsScript == Promise!Spec

(* VerifyExpectations warns of nothing while the default SELECT 1 of       *)
(* configureSQLMockDefaults (db_test_context.go:401), first in the queue,  *)
(* has not been consumed, whatever the test left unmet: the error text     *)
(* names that expectation only, and the filter drops it.                   *)
SilentUntilSelect1 == logged # {} => expected[1].met

(* A create that the test scripted is never rejected half way, whatever    *)
(* else the test expects: its Begin, its INSERT in either form, and the    *)
(* Commit or the Rollback that its outcome calls for all find their        *)
(* expectation.  Of such a test only queries of GORM's own are rejected.   *)
OnlyScriptedCreates == {"bare_create", "writes", "transactions"} \cap style.uses = {}

ScriptedCreateNeverRejected ==
  OnlyScriptedCreates /\ answer.outcome = "rejected" => answer.call \in Background

(* db_test_context.go:484-487 says a warning is logged at the end if any   *)
(* expectation was not met, unless it is SQLite-related.                   *)
SqliteRelated(e) ==
  e.op \in BackgroundOps \cup {"any_version", "SQLITE_VERSION"}

UnmetIsReported ==
  tornDown /\ ~skipVerification
    /\ (\E n \in Unmet(expected) : ~SqliteRelated(expected[n]))
      => logged # {}

(* expectations_builder.go:1349 says WillFailWithError configures the      *)
(* transaction to return an error when beginning.                          *)
FailingChain ==
  /\ Len(chains) = 1
  /\ \E n \in Unmet(expected) : expected[n].kind = "begin" /\ expected[n].outcome = "error"

BeginFailsAsConfigured ==
  [][FailingChain /\ ExplicitBegin => answer'.outcome = "error"]_vars
==============================================================================
