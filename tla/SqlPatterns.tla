---------------------------- MODULE SqlPatterns ----------------------------
(***************************************************************************)
(* SQL text and the regular expressions written for it, as sequences of    *)
(* tokens.  A token is a table, a keyword or one condition with its        *)
(* placeholder ("username" stands for `username = ?`); a pattern is a      *)
(* sequence of sets of tokens, Gap standing for `.*`, and it must match    *)
(* the whole text, so that an open end is a final Gap.                     *)
(*                                                                         *)
(* What GORM writes and how go-sqlmock matches is not part of the          *)
(* repository: modelled from the statements the tests and the comments of  *)
(* expectations_builder.go give.                                           *)
(***************************************************************************)
EXTENDS Naturals, Sequences, SequencesExt, FiniteSets

Gap == {}

(* How many tokens of a text may be read when the first n members of the   *)
(* pattern have been: none to begin with, any further number for a Gap,    *)
(* one more of the right kind for a set.                                   *)
Reached(pattern, text) ==
  LET read[n \in 0 .. Len(pattern)] ==
        IF n = 0 THEN {0}
        ELSE LET before == read[n - 1] IN
             IF pattern[n] = Gap THEN {k \in 0 .. Len(text) : \E j \in before : j <= k}
             ELSE {k \in 1 .. Len(text) : k - 1 \in before /\ text[k] \in pattern[n]}
  IN read

Matches(pattern, text) == Len(text) \in Reached(pattern, text)[Len(pattern)]

(* The pattern that quotes a text, token by token. *)
Quoted(text) == [n \in DOMAIN text |-> {text[n]}]

(* The where clauses that tests and code under test write.                 *)
Text ==
  [none |-> <<>>,                      pk |-> <<"pk">>,
   id |-> <<"id">>,                    username |-> <<"username">>,
   status |-> <<"status">>,            age |-> <<"age_above">>,
   either |-> <<"username", "OR", "email">>,
   null |-> <<"deleted_null">>,        userNull |-> <<"username", "AND", "deleted_null">>,
   nullUser |-> <<"deleted_null", "AND", "username">>,
   softUser |-> <<"soft", "AND", "username">>,
   notNull |-> <<"deleted_notnull">>,  userNotNull |-> <<"username", "AND", "deleted_notnull">>,
   like |-> <<"name_like">>,           likes |-> <<"(", "name_like", "OR", "title_like", ")">>,
   limit |-> <<"LIMIT_?">>,            limitOffset |-> <<"LIMIT_?", "OFFSET_?">>,
   offset |-> <<"OFFSET_?">>,          order |-> <<"ORDER_BY_?">>]

Mentions(clause, tokens) == ToSet(Text[clause]) \cap tokens # {}

Unbound == {"(", ")", "AND", "OR", "soft", "deleted_null", "deleted_notnull"}
ArgCount(clause) == Cardinality({n \in DOMAIN Text[clause] : Text[clause][n] \notin Unbound})

(* GORM joins the conditions of a query with AND; one that holds an AND or *)
(* an OR itself is put in parentheses when it is not alone.  The scope of  *)
(* a soft-deleting model comes after the code's own clause, and the        *)
(* primary key of a destination that was loaded before comes last.         *)
Conditions(q) ==
  LET own == Text[q.clause]
      others == (IF q.scoped THEN <<"AND", "soft">> ELSE <<>>)
                  \o (IF q.loaded THEN <<"AND", "pk">> ELSE <<>>) IN
  IF own = <<>> THEN (IF others = <<>> THEN <<>> ELSE Tail(others))
  ELSE IF others # <<>> /\ Mentions(q.clause, {"AND", "OR"})
       THEN <<"(">> \o own \o <<")">> \o others
  ELSE own \o others

Ending == [first |-> <<"ORDER_BY", "LIMIT_1">>, all |-> <<>>,
           page |-> <<"LIMIT_n">>, sorted |-> <<"ORDER_BY_name">>]

Sql(q) ==
  <<q.select, q.table>>
    \o (IF Conditions(q) = <<>> THEN <<>> ELSE <<"WHERE">> \o Conditions(q))
    \o Ending[q.ending]

KeyArg == "key"              \* the primary key of a loaded destination
AnyArg == "any_argument"     \* sqlmock.AnyArg()
Copies(value, n) == [i \in 1 .. n |-> value]

Args(q) == Copies(q.value, ArgCount(q.clause)) \o (IF q.loaded THEN <<KeyArg>> ELSE <<>>)

(* An expectation without arguments checks none. *)
Unchecked == [checked |-> FALSE, list |-> <<>>]
Exactly(list) == IF list = <<>> THEN Unchecked ELSE [checked |-> TRUE, list |-> list]

ArgsAdmit(args, actual) ==
  args.checked =>
    /\ Len(args.list) = Len(actual)
    /\ \A n \in DOMAIN actual : args.list[n] \in {AnyArg, actual[n]}

Admits(e, q) == Matches(e.pattern, Sql(q)) /\ ArgsAdmit(e.args, Args(q))
=============================================================================
