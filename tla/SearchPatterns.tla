--------------------------- MODULE SearchPatterns ---------------------------
(***************************************************************************)
(* The statements a search is expected to make: SearchExpectationBuilder   *)
(* of expectations_builder.go and SearchTestHelper of search_testing.go.   *)
(*                                                                         *)
(* A search looks for a term in some fields, filters, sorts and pages.     *)
(* Its where clause is used as a regular expression without quoting: a     *)
(* parenthesis groups, and `?` makes the character before it optional, so  *)
(* that a condition matches its own text up to the placeholder and nothing *)
(* that the pattern has after it can follow.                               *)
(***************************************************************************)
EXTENDS SqlPatterns

Searches ==
  [fields : {<<>>, <<"name_like">>, <<"name_like", "title_like">>},
   filters : {<<>>, <<"status">>},
   sorted : BOOLEAN, paged : BOOLEAN]

(* No field, no filter: the builder as ExpectSearch() returns it.          *)
NoSearch == [fields |-> <<>>, filters |-> <<>>, sorted |-> FALSE, paged |-> FALSE]

Never == {"matches_no_statement"}

(* The conditions of buildWhereClause: the fields in parentheses, then     *)
(* each filter.  Parentheses and placeholders are not quoted.              *)
SearchConditions(s) == s.fields \o s.filters

Unquoted(conditions, more) ==
  IF conditions = <<>> THEN <<{"1=1"}>>
  ELSE IF Len(conditions) > 1 \/ more THEN <<{conditions[1]}, Never>>
  ELSE <<{conditions[1]}>>

SearchSuffix(s) ==
  (IF s.sorted THEN <<{"ORDER_BY_name"}>> ELSE <<>>)
    \o (IF s.paged THEN <<{"LIMIT_n"}>> ELSE <<>>)

SearchCountPattern(s, t) ==
  <<{"count"}, {t}, {"WHERE"}>> \o Unquoted(SearchConditions(s), FALSE) \o <<Gap>>

SearchRowsPattern(s, t) ==
  <<{"star", "count"}, {t}, {"WHERE"}>>
    \o Unquoted(SearchConditions(s), s.sorted \/ s.paged) \o SearchSuffix(s) \o <<Gap>>

SearchArgs(s, term) == Exactly(Copies(term, Len(SearchConditions(s))))

------------------------------------------------------------------------------
(* SearchTestHelper: the loose forms ask for a where clause only; the      *)
(* others spell the values into the pattern, where GORM binds them.        *)
LooseCount(t) == <<{"count"}, {t}, {"WHERE"}, Gap>>
LooseRows(t) == <<{"star", "count"}, {t}, {"WHERE"}, Gap>>
PagedRows(t) == LooseRows(t) \o <<{"LIMIT_n"}, Gap>>
SortedRows(t) == LooseRows(t) \o <<{"ORDER_BY_name"}, Gap>>

Literally(conditions) == IF conditions = <<>> THEN <<{"1=1"}>> ELSE <<Never>>

LiteralCount(s, t) == <<{"count"}, {t}, {"WHERE"}>> \o Literally(s.filters) \o <<Gap>>
LiteralRows(s, t) ==
  <<{"star", "count"}, {t}, {"WHERE"}>> \o Literally(s.filters) \o SearchSuffix(s) \o <<Gap>>

(* A text search or a global search without fields is a loose one.         *)
TextCount(s, t) ==
  IF s.fields = <<>> THEN LooseCount(t) ELSE <<{"count"}, {t}, {"WHERE"}, Never>>
TextRows(s, t) ==
  IF s.fields = <<>> THEN LooseRows(t) ELSE <<{"star", "count"}, {t}, {"WHERE"}, Never>>
=============================================================================
