-------------------------- MODULE FindExpectations --------------------------
(***************************************************************************)
(* FindExpectationBuilder, CountExpectationBuilder and                     *)
(* SearchExpectationBuilder of expectations_builder.go and the helper of   *)
(* search_testing.go, for the one table a test is about: the chain         *)
(* of calls by which the author describes a query, the regular expression  *)
(* and the arguments the last call of the chain gives the mock, and the    *)
(* queries the code under test then makes through GORM.                    *)
(***************************************************************************)
EXTENDS SearchPatterns

NotGiven == "not_given"

CONSTANTS
  Tables,          \* the tables of the code under test
  SoftTables,      \* those whose model has a DeletedAt field
  NamedTables,     \* those whose model has a TableName method
  PrefixCases,     \* whether config.TablePrefix is set: the cases explored
  Prefixed,        \* the names of the tables with that prefix
  Clauses,         \* the where clauses written by authors and code under test
  Values,          \* arguments of the code under test
  Room             \* a chain is begun while fewer expectations are unmet

ASSUME FindExpectationsAssumption ==
  /\ SoftTables \subseteq Tables
  /\ NamedTables \subseteq Tables
  /\ PrefixCases \subseteq BOOLEAN
  /\ DOMAIN Prefixed = Tables
  /\ Clauses \subseteq DOMAIN Text
  /\ Values # {}
  /\ {NotGiven, AnyArg, KeyArg} \cap Values = {}
  /\ Room \in Nat

VARIABLES
  table,       \* the table of the test
  prefixed,    \* is a table prefix configured?
  registered,  \* was the model of the table registered?
  chain,       \* the builder the author is calling, or NoChain
  expected,    \* the unmet expectations of the mock, in order
  loaded,      \* was the destination of a First filled by an earlier query?
  answer       \* the last query and what it was answered

vars == <<table, prefixed, registered, chain, expected, loaded, answer>>

NoAnswer == [outcome |-> "none"]

(* ForTable(), then ExpectFind() or ExpectCount(): an empty builder.       *)
(* `call` is the call that will end the chain, and `known` whether the     *)
(* builder then knows the model.                                           *)
Builder(op, name) ==
  [op |-> op, table |-> name, where |-> "none", value |-> NotGiven,
   withArgs |-> NotGiven, first |-> FALSE, deleted |-> FALSE,
   search |-> NoSearch, call |-> "none", known |-> FALSE]
NoChain == Builder("none", "none")

Init ==
  /\ table \in Tables
  /\ prefixed \in PrefixCases
  /\ registered \in BOOLEAN
  /\ chain = NoChain
  /\ expected = <<>>
  /\ loaded = FALSE
  /\ answer = NoAnswer

------------------------------------------------------------------------------
(* What the context knows of the table.  The registry is keyed by the name *)
(* extractTableName gives, which has no prefix; the builder asks with the  *)
(* name NewExpectationsBuilder made, which has one unless the registered   *)
(* model names its table itself.                                           *)
NewExpectationsBuilder ==
  IF prefixed /\ ~(registered /\ table \in NamedTables) THEN Prefixed[table] ELSE table

BuilderNameIsRegistered == registered /\ (prefixed => table \in NamedTables)

HasSoftDelete == BuilderNameIsRegistered => table \in SoftTables

EveryQueryIsScoped(queryType) == HasSoftDelete  \* a bug: Table().Count() forgotten

WillGORMAddSoftDeleteClause(queryType) ==
  HasSoftDelete /\ queryType # "COUNT" /\ BuilderNameIsRegistered

DeletedAt == {"deleted_null", "soft", "deleted_notnull"}
HasDeletedAtCondition(clause) == Mentions(clause, DeletedAt)

WhereToken == {"WHERE"}
FirstEnding == <<{"ORDER_BY"}, Gap, {"LIMIT_1"}>>
AnySelect == <<{"star", "count"}, {chain.table}>>   \* ^SELECT .* FROM
Star == <<{"star"}, {chain.table}>>                 \* ^SELECT \* FROM
SelectCount(name) == <<{"count"}, {name}>>         \* SELECT count(*) FROM

(* normalizeDeletedAtCondition compares the text of the clause, hence the  *)
(* qualified condition, which is not spelled "deleted_at is null", falls   *)
(* to its last case.                                                       *)
NormalizeDeletedAtCondition(clause) ==
  AnySelect \o <<WhereToken, Gap>> \o
  IF clause = "nullUser" THEN <<{"deleted_null", "soft"}, Gap, {"username"}, Gap>>
  ELSE IF clause = "null"
       THEN <<{"deleted_null"}, Gap, {"soft"}, Gap>> \o FirstEnding \o <<Gap>>
  ELSE IF Mentions(clause, {"deleted_null"})
       THEN <<{"deleted_null", "soft"}, Gap>> \o FirstEnding \o <<Gap>>
  ELSE IF Mentions(clause, {"deleted_notnull"})
       THEN <<{"deleted_notnull"}, Gap>> \o FirstEnding \o <<Gap>>
  ELSE <<DeletedAt, Gap>>

(* The fields of a clause in parentheses, anything between them.           *)
ExtractKeyFields(clause) ==
  FlattenSeq([n \in DOMAIN SelectSeq(Text[clause], LAMBDA t : t \notin Unbound) |->
                <<Gap, {SelectSeq(Text[clause], LAMBDA t : t \notin Unbound)[n]}>>])

(* Without parentheses only the text before the first placeholder counts:  *)
(* of an order or a limit, what the end of any query begins with.          *)
Begins(clause) ==
  CASE clause = "order" -> {"ORDER_BY", "ORDER_BY_name"}
    [] clause \in {"limit", "limitOffset"} -> {"LIMIT_1", "LIMIT_n"}
    [] OTHER -> {Head(Text[clause])}

MakeFlexiblePattern(clause) ==
  AnySelect \o
  (IF clause = "none" THEN <<>>
   ELSE IF Mentions(clause, {"("}) THEN <<WhereToken>> \o ExtractKeyFields(clause)
   ELSE <<WhereToken, Gap, Begins(clause)>>)
  \o <<Gap>>

Equalities == {"pk", "id", "username", "email", "status"}

DetectFirstLikeQuery(clause, args) ==
  \/ Mentions(clause, {"id", "("})
  \/ args # <<>> /\ Mentions(clause, Equalities \cup {"AND", "OR"})

ArgsOf(c) == IF c.value = NotGiven THEN <<>> ELSE Copies(c.value, ArgCount(c.where))

IsFirstLike(c) == c.first \/ DetectFirstLikeQuery(c.where, ArgsOf(c))

(* The exact statement of a First on a soft-deleting model.                *)
OpenEnded(clause) ==       \* a bug: the pattern is not closed with a $
  Star \o <<WhereToken>> \o Quoted(Text[clause]) \o <<{"AND"}, {"soft"}, Gap>>

ExactSoftFirst(clause) ==
  Star \o <<WhereToken>> \o Quoted(Text[clause] \o <<"AND", "soft", "ORDER_BY", "LIMIT_1">>)

ExactPlainFirst(clause) ==
  Star \o <<WhereToken>> \o Quoted(Text[clause] \o <<"ORDER_BY", "LIMIT_1">>)

SimplePattern(clause) ==
  AnySelect
  \o (IF clause # "none" THEN <<WhereToken>>
      ELSE IF HasSoftDelete THEN <<WhereToken, {"soft"}>> ELSE <<>>)
  \o <<Gap>>

(* A bug: the exact pattern of First on a model without soft delete is     *)
(* missing from ReturnError.                                               *)
ErrorForgetsPlainFirst(c) ==
  IF c.deleted /\ c.where # "none" /\ c.first THEN ExactSoftFirst(c.where)
  ELSE IF HasDeletedAtCondition(c.where) THEN NormalizeDeletedAtCondition(c.where)
  ELSE IF IsFirstLike(c) THEN MakeFlexiblePattern(c.where)
  ELSE SimplePattern(c.where)

(* FindExpectationBuilder.ReturnRows: its branches in their order.         *)
RowsPattern(c) ==
  IF c.deleted /\ c.where # "none" /\ c.first THEN ExactSoftFirst(c.where)
  ELSE IF c.deleted /\ c.where = "null" /\ c.first THEN ExactSoftFirst("null")
  ELSE IF HasDeletedAtCondition(c.where) THEN NormalizeDeletedAtCondition(c.where)
  ELSE IF IsFirstLike(c) /\ ~HasSoftDelete /\ c.where # "none" THEN ExactPlainFirst(c.where)
  ELSE IF IsFirstLike(c) THEN MakeFlexiblePattern(c.where)
  ELSE SimplePattern(c.where)

ErrorPattern(c) ==
  IF c.deleted /\ c.where # "none" /\ c.first THEN ExactSoftFirst(c.where)
  ELSE IF HasDeletedAtCondition(c.where) THEN NormalizeDeletedAtCondition(c.where)
  ELSE IF IsFirstLike(c) /\ ~HasSoftDelete /\ c.where # "none" THEN ExactPlainFirst(c.where)
  ELSE IF IsFirstLike(c) THEN MakeFlexiblePattern(c.where)
  ELSE SimplePattern(c.where)

(* The arguments of a First on a soft-deleting model: one more than the    *)
(* author gave, for the primary key GORM may add.                          *)
FirstArgs(c) ==
  LET args == ArgsOf(c) IN
  CASE c.where = "username" /\ Len(args) = 1 -> Exactly(args \o <<AnyArg>>)
    [] c.where = "id" /\ Len(args) = 1 -> Exactly(args)
    [] OTHER -> Exactly(Copies(AnyArg, Len(args) + 1))

DefaultArgs(c) ==
  IF IsFirstLike(c) /\ ~HasSoftDelete /\ c.where # "none" THEN Exactly(ArgsOf(c))
  ELSE IF IsFirstLike(c) THEN FirstArgs(c)
  ELSE Exactly(Copies(AnyArg, Len(ArgsOf(c))))

(* WithArgs gives an argument to each placeholder of the clause, and may   *)
(* give one where there is no placeholder or no clause.                    *)
GivenArgs(c) ==
  IF c.withArgs = NotGiven THEN <<>>
  ELSE Copies(c.withArgs, IF ArgCount(c.where) = 0 THEN 1 ELSE ArgCount(c.where))
IsExactFirst(c) == c.deleted /\ c.where # "none" /\ c.first

WithArgsForgotten(c) ==    \* a bug: WithArgs is not looked at
  IF IsExactFirst(c) THEN Exactly(ArgsOf(c)) ELSE DefaultArgs(c)

RowsArgs(c) ==
  IF IsExactFirst(c) THEN Exactly(ArgsOf(c))
  ELSE IF c.withArgs # NotGiven THEN Exactly(GivenArgs(c))
  ELSE DefaultArgs(c)

ErrorArgs(c) == IF IsExactFirst(c) THEN Exactly(ArgsOf(c)) ELSE DefaultArgs(c)

------------------------------------------------------------------------------
(* The author.  A chain is one expression of the test: nothing else runs   *)
(* until its last call.                                                    *)
Expectation(pattern, args, outcome, by, call) ==
  [pattern |-> pattern, args |-> args, outcome |-> outcome,
   by |-> [by EXCEPT !.call = call, !.known = BuilderNameIsRegistered]]

CanBegin == chain = NoChain /\ answer = NoAnswer /\ Len(expected) < Room

RegisterModel ==
  /\ chain = NoChain
  /\ answer = NoAnswer
  /\ ~registered
  /\ registered' = TRUE
  /\ UNCHANGED <<table, prefixed, chain, expected, loaded, answer>>

Begin(op) ==
  /\ CanBegin
  /\ chain' = Builder(op, NewExpectationsBuilder)
  /\ UNCHANGED <<table, prefixed, registered, expected, loaded, answer>>

ExpectFind == Begin("find")

(* ExpectCount(n) queues at once, and still returns a builder.             *)
ExpectCount == Begin("count")
ExpectCountOf ==
  /\ CanBegin
  /\ chain' = Builder("count", NewExpectationsBuilder)
  /\ expected' = Append(expected, Expectation(SelectCount(chain'.table) \o <<Gap>>, Unchecked,
                                             "ok", chain', "ExpectCount"))
  /\ UNCHANGED <<table, prefixed, registered, loaded, answer>>

Calls(op, newChain) ==
  /\ chain.op \in op
  /\ chain' = newChain
  /\ chain' # chain
  /\ UNCHANGED <<table, prefixed, registered, expected, loaded, answer>>

(* Every call that describes the rows replaces the clause and its          *)
(* arguments: Limit, OrderBy and the others are such calls too.            *)
SetWhere(clause, value) == [chain EXCEPT !.where = clause, !.value = value]
Anything == {"find", "count"}
Written(value, clause) == IF ArgCount(clause) = 0 THEN NotGiven ELSE value
Author == CHOOSE v \in Values : TRUE    \* the argument the author writes

WhereCall(clause, value) ==
  clause \notin {"none", "pk", "like", "likes", "limit", "limitOffset", "offset", "order"}
    /\ Calls(Anything, SetWhere(clause, Written(value, clause)))
WithWhereLikeField == Calls(Anything, SetWhere("like", Author))
WithWhereLikeFields(some) == some /\ Calls(Anything, SetWhere("likes", Author))
OrderBy == Calls({"find"}, SetWhere("order", Author))
Limit == Calls(Anything, SetWhere("limit", Author))
Offset == Calls(Anything, SetWhere("offset", Author))
LimitOffset == Calls(Anything, SetWhere("limitOffset", Author))
WithPagination(pageSize, start) == pageSize > 0 /\ IF start > 0 THEN LimitOffset ELSE Limit
CountWithDeletedAt == Calls({"count"}, SetWhere("null", NotGiven))
ByID == Calls({"find"}, SetWhere("pk", Author))
WithArgs == Calls(Anything, [chain EXCEPT !.withArgs = Author])
First == Calls({"find"}, [chain EXCEPT !.first = TRUE])
WithDeletedAt == Calls({"find"}, [chain EXCEPT !.deleted = TRUE])

Describe ==
  \/ \E clause \in Clauses, value \in {Author, NotGiven} : WhereCall(clause, value)
  \/ "like" \in Clauses /\ WithWhereLikeField
  \/ "likes" \in Clauses /\ WithWhereLikeFields(TRUE)
  \/ "limit" \in Clauses /\ \E start \in {0, 1} : WithPagination(1, start)
  \/ "order" \in Clauses /\ OrderBy
  \/ "offset" \in Clauses /\ Offset
  \/ "null" \in Clauses /\ CountWithDeletedAt
  \/ ByID \/ WithArgs \/ First \/ WithDeletedAt

(* The calls that end a chain.                                             *)
Ends(call, pattern, args, outcome) ==
  /\ expected' = Append(expected, Expectation(pattern, args, outcome, chain, call))
  /\ chain' = NoChain
  /\ UNCHANGED <<table, prefixed, registered, loaded, answer>>

ReturnRows ==
  chain.op = "find" /\ Ends("ReturnRows", RowsPattern(chain), RowsArgs(chain), "ok")
ReturnError ==
  chain.op = "find" /\ Ends("ReturnError", ErrorPattern(chain), ErrorArgs(chain), "error")

(* The handlers of one statement each fall back to ReturnRows when the     *)
(* clause is not theirs.                                                   *)
Handler(call, mine, pattern, args) ==
  /\ chain.op = "find"
  /\ IF mine THEN Ends(call, pattern, args, "ok") ELSE ReturnRows

HandleDeletedAtRows ==
  Handler("HandleDeletedAtRows", chain.where = "null", ExactSoftFirst("null"), Unchecked)

HandleStandardFirstRows ==
  Handler("HandleStandardFirstRows",
          Len(ArgsOf(chain)) = 1 /\ Mentions(chain.where, Equalities),
          ExactSoftFirst(chain.where), Exactly(ArgsOf(chain)))

HandleDeletedNotNullRows ==
  Handler("HandleDeletedNotNullRows", Mentions(chain.where, {"deleted_notnull"}),
          ExactPlainFirst(chain.where), Exactly(ArgsOf(chain)))

CountPattern(c) ==
  SelectCount(c.table) \o (IF c.where # "none" THEN <<WhereToken>> ELSE <<>>)
        \o (IF WillGORMAddSoftDeleteClause("COUNT") /\ ~HasDeletedAtCondition(c.where)
            THEN <<WhereToken, {"soft"}>> ELSE <<>>)
        \o <<Gap>>

CountErrorPattern(c) ==
  SelectCount(c.table) \o (IF c.where # "none" THEN <<WhereToken>>
            ELSE IF HasSoftDelete THEN <<WhereToken, {"soft"}>> ELSE <<>>)
        \o <<Gap>>

CountArgs(c) ==
  IF c.withArgs # NotGiven THEN Exactly(GivenArgs(c))
  ELSE Exactly(Copies(AnyArg, Len(ArgsOf(c))))

ReturnCount ==
  chain.op = "count" /\ Ends("ReturnCount", CountPattern(chain), CountArgs(chain), "ok")
CountReturnError ==
  chain.op = "count" /\ Ends("CountReturnError", CountErrorPattern(chain), CountArgs(chain), "error")

(* ExpectCount(n) as it is mostly used: its builder is dropped.            *)
DropBuilder ==
  /\ chain.op = "count"
  /\ expected # <<>>
  /\ chain' = NoChain
  /\ UNCHANGED <<table, prefixed, registered, expected, loaded, answer>>

End == \/ ReturnRows \/ ReturnError \/ ReturnCount \/ CountReturnError \/ DropBuilder
       \/ HandleDeletedAtRows \/ HandleStandardFirstRows \/ HandleDeletedNotNullRows

(* A search.  With... of its builder set one field each and are the choice *)
(* of s.  ReturnCount queues and returns the same builder.                 *)
ExpectSearch(s) ==
  /\ CanBegin
  /\ chain' = [Builder("search", NewExpectationsBuilder) EXCEPT !.value = Author, !.search = s]
  /\ UNCHANGED <<table, prefixed, registered, expected, loaded, answer>>

SearchReturnCount ==
  /\ chain.op = "search"
  /\ Len(expected) < Room
  /\ expected' = Append(expected, Expectation(SearchCountPattern(chain.search, chain.table),
                                             Unchecked, "ok", chain, "SearchCount"))
  /\ UNCHANGED <<table, prefixed, registered, chain, loaded, answer>>

SearchReturnRows ==
  /\ chain.op = "search"
  /\ Ends("SearchRows", SearchRowsPattern(chain.search, chain.table),
          SearchArgs(chain.search, Author), "ok")

SearchReturnError ==
  /\ chain.op = "search"
  /\ Ends("SearchError", SearchCountPattern(chain.search, chain.table),
          SearchArgs(chain.search, Author), "error")

(* SearchTestHelper queues the count and the rows in one call, for the     *)
(* name of the table it is given.                                          *)
Helper(count, rows) ==
  LET by == Builder("search", table) IN
  /\ CanBegin
  /\ expected' = expected \o <<Expectation(count, Unchecked, "ok", by, "HelperCount"),
                              Expectation(rows, Unchecked, "ok", by, "HelperRows")>>
  /\ UNCHANGED <<table, prefixed, registered, chain, loaded, answer>>

HelperSearch == Helper(LooseCount(table), LooseRows(table))
HelperSearchWithPagination == Helper(LooseCount(table), PagedRows(table))
HelperSearchWithSorting == Helper(LooseCount(table), SortedRows(table))
HelperSearchWithQueryUtil(s) == Helper(LiteralCount(s, table), LiteralRows(s, table))
HelperTextSearch(s) == Helper(TextCount(s, table), TextRows(s, table))
HelperSearchError ==
  /\ CanBegin
  /\ expected' = Append(expected, Expectation(LooseCount(table), Unchecked, "error",
                                             Builder("search", table), "HelperError"))
  /\ UNCHANGED <<table, prefixed, registered, chain, loaded, answer>>

Search ==
  \/ \E s \in Searches : ExpectSearch(s) \/ HelperSearchWithQueryUtil(s) \/ HelperTextSearch(s)
  \/ SearchReturnCount \/ SearchReturnRows \/ SearchReturnError
  \/ HelperSearch \/ HelperSearchWithPagination \/ HelperSearchWithSorting
  \/ HelperSearchError

------------------------------------------------------------------------------
(* The code under test: the queries GORM can make of the table's model.    *)
(* A model with a TableName method is queried by the name it returns; for  *)
(* another, a service with prefixed tables puts the prefix itself, or it   *)
(* leaves the name to GORM, which is not told of the prefix.               *)
TablesQueried ==
  {table} \cup (IF prefixed /\ table \notin NamedTables THEN {Prefixed[table]} ELSE {})

CodeClauses == Clauses \ {"limit", "limitOffset", "offset", "order"}

Queries ==
  {q \in [select : {"star", "count"}, table : TablesQueried, clause : CodeClauses \cup {"none", "pk"},
          value : Values, scoped : BOOLEAN, loaded : BOOLEAN, ending : DOMAIN Ending] :
     /\ q.scoped => table \in SoftTables
     /\ q.loaded => loaded /\ q.select = "star" /\ q.ending = "first"
     /\ q.select = "count" => q.ending = "all"
     /\ ArgCount(q.clause) = 0 => q.value = Author}

Candidates(q) == {n \in DOMAIN expected : Admits(expected[n], q)}
Answering(q) == CHOOSE n \in Candidates(q) : \A m \in Candidates(q) : n <= m

(* go-sqlmock takes the first unmet expectation that admits the query.     *)
Query(q) ==
  /\ IF Candidates(q) = {}
     THEN /\ answer' = [query |-> q, outcome |-> "rejected"]
          /\ UNCHANGED <<expected, loaded>>
     ELSE LET e == expected[Answering(q)] IN
          /\ answer' = [query |-> q, outcome |-> e.outcome, by |-> e.by]
          /\ expected' = RemoveAt(expected, Answering(q))
          /\ loaded' = (loaded \/ (e.outcome = "ok" /\ q.ending = "first"))
  /\ UNCHANGED <<table, prefixed, registered, chain>>

CodeUnderTest ==
  /\ chain = NoChain
  /\ expected # <<>>
  /\ answer = NoAnswer
  /\ \E q \in Queries : Query(q)

(* The answer is kept until the test has seen it.  A rejected query fails  *)
(* the test, which is not followed any further.                            *)
SeeAnswer ==
  /\ answer.outcome \in {"ok", "error"}
  /\ answer' = NoAnswer
  /\ UNCHANGED <<table, prefixed, registered, chain, expected, loaded>>

Next ==
  \/ RegisterModel \/ ExpectFind \/ ExpectCount \/ ExpectCountOf
  \/ Describe \/ End \/ Search
  \/ CodeUnderTest
  \/ SeeAnswer

Spec == Init /\ [][Next]_vars

------------------------------------------------------------------------------
(* The uses the documentation and the tests of the builders give: which    *)
(* query each is for.  A destination is a fresh one, as in the examples.   *)
Simple == {"pk", "id", "username", "status"}
ForFirst(by, q) == q.ending = "first" /\ q.select = "star" /\ ~q.loaded /\ q.clause = by.where
SameValue(by, q) == by.value \in {q.value, NotGiven} /\ (by.value = NotGiven => ArgCount(by.where) = 0)
Returns(by) == by.call \in {"ReturnRows", "ReturnError"}

\* flexible_pattern_test.go:39-44, soft_delete_test.go:100-109 and
\* flexible_pattern_test.go:112-121: the handlers.
HandlerUse(by, q) ==
  /\ ForFirst(by, q)
  /\ SameValue(by, q)
  /\ \/ by.call = "HandleStandardFirstRows" /\ q.scoped /\ by.where \in Simple
     \/ by.call = "HandleDeletedAtRows" /\ q.scoped
     \/ by.call = "HandleDeletedNotNullRows" /\ ~q.scoped

\* flexible_pattern_test.go:545-556, 632-639, 670-677: First with WithDeletedAt.
SoftFirstUse(by, q) ==
  /\ Returns(by)
  /\ by.first /\ by.deleted /\ by.where \in Simple \cup {"null"}
  /\ ForFirst(by, q) /\ q.scoped /\ SameValue(by, q)

\* flexible_pattern_test.go:143-163: a registered model without soft delete.
PlainFirstUse(by, q) ==
  /\ Returns(by)
  /\ by.known /\ table \notin SoftTables
  /\ by.where \in Simple /\ ~by.deleted /\ by.withArgs = NotGiven
  /\ ForFirst(by, q) /\ SameValue(by, q)

\* count_expectation_test.go, count_integration_test.go: a count by Table() or Model().
\* WithArgs comes after a Where with placeholders (expectations_builder.go:946-950).
CountUse(by, q) ==
  /\ by.call \in {"ReturnCount", "ExpectCount"}
  /\ q.select = "count"
  /\ by.where \in {"none", q.clause}
  /\ by.withArgs = NotGiven \/ (by.withArgs = q.value /\ ArgCount(by.where) > 0)

\* expectations_builder.go:1425-1440: Where without arguments, then WithArgs.
WithArgsUse(by, q) ==
  /\ by.call = "ReturnRows"
  /\ by.where \in {"username", "status", "age", "either", "like"}
  /\ by.value = NotGiven /\ by.withArgs = q.value
  /\ ~by.first
  /\ q.select = "star" /\ q.clause = by.where /\ ~q.loaded

\* expectations_builder.go:1852, return_models_test.go:27-33: a query for several
\* rows.  An equality with its argument, as at :1827, is taken for a First.
FindUse(by, q) ==
  /\ Returns(by)
  /\ by.where \in {"none", "age", "like"}
  /\ by.where = "none" => q.scoped \/ (by.known /\ table \notin SoftTables)
  /\ by.withArgs = NotGiven
  /\ ~by.first
  /\ q.select = "star" /\ q.ending = "all" /\ q.clause = by.where

\* expect_search_relationships_test.go:31-37: a search for one condition.
SearchUse(by, q) ==
  /\ by.call \in {"SearchCount", "SearchRows"}
  /\ Text[q.clause] = SearchConditions(by.search) /\ Len(Text[q.clause]) = 1
  /\ ~by.search.sorted /\ ~by.search.paged
  /\ q.value = by.value /\ ~q.loaded
  /\ q.select = IF by.call = "SearchCount" THEN "count" ELSE "star"

Documented(by, q) ==
  /\ by.table = q.table
  /\ \/ HandlerUse(by, q) \/ SoftFirstUse(by, q) \/ PlainFirstUse(by, q)
     \/ CountUse(by, q) \/ WithArgsUse(by, q) \/ FindUse(by, q)
     \/ SearchUse(by, q)

(* A query is never rejected while an expectation that was written for it, *)
(* in a way the documentation or the tests show, is unmet: the patterns    *)
(* and the argument counts agree with what GORM sends, for tables with and *)
(* without soft delete, registered or not.  Written for it means also that *)
(* the builder has the name the query uses: with a prefix, a model with a  *)
(* TableName method must have been registered before.                      *)
DocumentedUseNeverRejected ==
  answer.outcome = "rejected" =>
    \A n \in DOMAIN expected : ~Documented(expected[n].by, answer.query)

(* An expectation with an exact pattern answers the one statement it       *)
(* quotes: never a count, a find for several rows, a query with another    *)
(* clause, nor one whose destination an earlier query has loaded.          *)
ExactPatternsAnswerOnlyTheirFirst ==
  (answer.outcome \in {"ok", "error"}
     /\ (IsExactFirst(answer.by) \/ answer.by.call \in
           {"HandleDeletedAtRows", "HandleStandardFirstRows", "HandleDeletedNotNullRows"}))
  => ForFirst(answer.by, answer.query)

(* Outside the exact patterns, a ReturnRows, ReturnCount or count error    *)
(* whose author gave WithArgs answers no query with another argument or    *)
(* with more or fewer of them - nor with none where there was no Where,    *)
(* which is why that use does not work.                                    *)
ArgumentsAreCompared ==
  (answer.outcome \in {"ok", "error"}
     /\ answer.by.call \in {"ReturnRows", "ReturnCount", "CountReturnError"}
     /\ ~IsExactFirst(answer.by) /\ answer.by.withArgs # NotGiven)
  => /\ answer.query.value = answer.by.withArgs
     /\ ArgCount(answer.query.clause) + (IF answer.query.loaded THEN 1 ELSE 0)
          = Len(GivenArgs(answer.by))

(* ReturnRows and ReturnError classify a chain by two copies of the same   *)
(* code: they expect the same statement and, without WithArgs, the same    *)
(* arguments.                                                              *)
RowsAndErrorsAgree ==
  chain.op = "find" =>
    /\ RowsPattern(chain) = ErrorPattern(chain)
    /\ chain.withArgs = NotGiven => RowsArgs(chain) = ErrorArgs(chain)

(* The example of First() at expectations_builder.go:1575-1580:            *)
(* Where("username = ?", "john").First().ReturnRows(rows) "will match a    *)
(* query that uses First() with the specified conditions".                 *)
FirstExampleMatches ==
  answer.outcome = "rejected" =>
    \A n \in DOMAIN expected :
      LET by == expected[n].by IN
      ~ (/\ by.call = "ReturnRows" /\ by.known
         /\ by.where = "username" /\ by.value = answer.query.value
         /\ by.withArgs = NotGiven /\ by.first /\ ~by.deleted
         /\ by.table = answer.query.table
         /\ ForFirst(by, answer.query)
         /\ answer.query.scoped = (table \in SoftTables))
=============================================================================
