------------------------- MODULE ResolverCallbacks -------------------------
(***************************************************************************)
(* The GORM callbacks of a test context.  NewDBTestContext, every DB() and *)
(* Transaction() and every transaction of a helper register callbacks on   *)
(* processors that all sessions of the database share; before a statement  *)
(* is executed they run in the order they were registered, each naming the *)
(* statement's table if it has none yet.                                   *)
(*                                                                         *)
(* Goroutines of a test share the context, its mutex and the processors.   *)
(* Nothing locks the callbacks of a processor: gorm registers one by       *)
(* reading them and writing them back with it, and removes one likewise.   *)
(* The processors of queries, updates, deletes and raw statements are      *)
(* treated alike by the code and are one here, "query".                    *)
(***************************************************************************)
EXTENDS TableNames, Sequences, SequencesExt

CONSTANTS
  Models,       \* the models a test may register: a type, and whether by pointer
  Statements,   \* the statements the code under test makes
  Routines,     \* goroutines sharing the context
  MaxSessions,  \* helpers made: bounds the calls of DB() and Transaction()
  MaxHelpers,   \* those of Transaction()
  MaxUses       \* transactions run on the helpers

ASSUME ResolverCallbacksAssumption ==
  /\ Models \subseteq [type : NamedTypes, byPointer : BOOLEAN]
  /\ Statements \subseteq [dest : Dests, type : NamedTypes, model : BOOLEAN, parsed : BOOLEAN]
  /\ "free" \notin Routines
  /\ MaxSessions \in Nat
  /\ MaxHelpers \in Nat
  /\ MaxUses \in Nat

Ops == {"query", "create"}

VARIABLES
  registered,  \* registeredModels: the models by table
  processors,  \* the callbacks of each operation, in order
  sessions,    \* how many helpers exist: session IDs are 1 .. sessions
  helpers,     \* those Transaction() returned to the test
  tracked,     \* registeredCallbacks of each of them
  uses,        \* transactions begun on them
  todo,        \* what is left of the call each routine is in
  seen,        \* the callbacks each routine has read and will write back changed
  overwritten, \* where one wrote back others than there were by then (history)
  statement,   \* the statement each routine executes, or NoStatement
  mutex        \* mu: the routine that will never release it, or "free"

vars == <<registered, processors, sessions, helpers, tracked, uses, todo, seen, overwritten,
          statement, mutex>>

NoStatement == [end |-> "none"]
Callback(what, of) == [what |-> what, of |-> of]
NotRead == << >>
Register(query, create, of) ==
  [do |-> "register", query |-> query, create |-> create, of |-> of]
Removal(callbacks, of) == [do |-> "remove", callbacks |-> callbacks, of |-> of]
CallsDB == [do |-> "DB", of |-> 0]
Wraps(h) == [do |-> "wrap", of |-> h]

NoAutoResolution == [op \in Ops |-> <<>>]     \* a bug: no context has it

(* enableAutoTableResolution, when the context is made.                    *)
AutoResolution == [op \in Ops |-> <<Callback("auto", 0)>>]

Init ==
  /\ registered = << >>
  /\ processors = AutoResolution
  /\ sessions = 0
  /\ helpers = {}
  /\ tracked = [h \in 1 .. MaxSessions |-> {}]
  /\ uses = 0
  /\ todo = [r \in Routines |-> <<>>]
  /\ seen = [r \in Routines |-> NotRead]
  /\ overwritten = {}
  /\ statement = [r \in Routines |-> NoStatement]
  /\ mutex = "free"

(* An endless recursion ends the test binary. *)
Alive == \A r \in Routines : statement[r].end # "endless"
Idle(r) == Alive /\ todo[r] = <<>> /\ statement[r] = NoStatement

RegisterModel(r, m) ==
  LET name == ExtractTableName(m.type, m.byPointer) IN
  /\ Idle(r)
  /\ mutex = "free"
  /\ name \notin DOMAIN registered
  /\ registered' = [n \in DOMAIN registered \cup {name} |-> IF n = name THEN m ELSE registered[n]]
  /\ UNCHANGED <<processors, sessions, helpers, tracked, uses, todo, seen, overwritten, statement, mutex>>

------------------------------------------------------------------------------
(* The calls that register callbacks.                                      *)
DB(r) ==
  /\ Idle(r)
  /\ todo' = [todo EXCEPT ![r] = <<CallsDB>>]
  /\ UNCHANGED <<registered, processors, sessions, helpers, tracked, uses, seen, overwritten, statement, mutex>>

(* NewTransactionTestHelper: the ID of a new helper, a time stamp.         *)
NewTransactionTestHelper == sessions + 1

(* Transaction() calls DB() for each of its two callbacks.                 *)
Transaction(r) ==
  LET h == NewTransactionTestHelper IN
  /\ Idle(r)
  /\ sessions < MaxSessions
  /\ Cardinality(helpers) < MaxHelpers
  /\ sessions' = sessions + 1
  /\ helpers' = helpers \cup {h}
  /\ todo' = [todo EXCEPT ![r] = <<CallsDB, Register(<<>>, <<"complex_table_fix">>, h),
                                   CallsDB, Register(<<"query_table_fix">>, <<>>, h)>>]
  /\ UNCHANGED <<registered, processors, tracked, uses, seen, overwritten, statement, mutex>>

(* A helper is used by one routine at a time.                              *)
CanUse(r, h) ==
  /\ Idle(r)
  /\ h \in helpers
  /\ uses < MaxUses
  /\ \A other \in Routines : \A n \in DOMAIN todo[other] : todo[other][n].of # h

Uses(r, h, calls) ==
  /\ CanUse(r, h)
  /\ uses' = uses + 1
  /\ todo' = [todo EXCEPT ![r] = calls]
  /\ UNCHANGED <<registered, processors, sessions, helpers, tracked, seen, overwritten, statement, mutex>>

ExecuteInTransaction(r, h) ==
  Uses(r, h, <<CallsDB, Wraps(h), Register(<<>>, <<"table_resolver">>, h)>>)

(* WithRollbackOnly and WithCommitOnly. *)
WithRollbackOnly(r, h) == Uses(r, h, <<CallsDB, Wraps(h)>>)

Rest(r, before) == [todo EXCEPT ![r] = before \o Tail(@)]

(* What a step is about to read and write of the processors.               *)
Touched(step) ==
  CASE step.do = "DB" -> IF registered = << >> THEN {} ELSE Ops
    [] step.do = "register" -> {op \in Ops : step[op] # <<>>}
    [] step.do = "remove" -> IF step.callbacks = {} THEN {} ELSE Ops
    [] step.do = "wrap" -> {}

(* The first half of Register and Remove of gorm.  One step does both      *)
(* processors, of which a statement and each property look at one.         *)
ReadCallbacks(r) ==
  LET ops == Touched(Head(todo[r])) IN
  /\ todo[r] # <<>>
  /\ DOMAIN seen[r] # ops
  /\ seen' = [seen EXCEPT ![r] = [op \in ops |-> processors[op]]]
  /\ UNCHANGED <<registered, processors, sessions, helpers, tracked, uses, todo, overwritten, statement, mutex>>

(* The second half: what others have written in between is lost.           *)
WriteCallbacks(r, written) ==
  /\ DOMAIN seen[r] = Touched(Head(todo[r]))
  /\ processors' = [op \in Ops |-> IF op \in DOMAIN seen[r] THEN written[op] ELSE processors[op]]
  /\ overwritten' = overwritten \cup {op \in DOMAIN seen[r] : seen[r][op] # processors[op]}
  /\ seen' = [seen EXCEPT ![r] = NotRead]

With(callbacks, query, create, of) ==
  LET Added(op) == IF op = "query" THEN query ELSE create IN
  [op \in DOMAIN callbacks |->
     callbacks[op] \o [n \in DOMAIN Added(op) |-> Callback(Added(op)[n], of)]]

(* DB() reads registeredModels without the mutex and returns the database  *)
(* as it is when there is none.                                            *)
DBRegisters(r) ==
  /\ todo[r] # <<>> /\ Head(todo[r]) = CallsDB
  /\ IF registered = << >>
     THEN UNCHANGED <<sessions, processors, seen, overwritten>>
     ELSE /\ sessions < MaxSessions
          /\ sessions' = sessions + 1
          /\ WriteCallbacks(r, With(seen[r], <<"ensure_table">>, <<"ensure_table">>,
                                   NewTransactionTestHelper))
  /\ todo' = Rest(r, <<>>)
  /\ UNCHANGED <<registered, helpers, tracked, uses, statement, mutex>>

(* The callbacks it tracks: "create_table_resolver" is not one of them.    *)
Tracked == {"ensure_table"}

NothingRemoved(h) == {}  \* a bug: what was registered before is left

(* removeExistingCallbacks knows a processor by the name of the callback,  *)
(* and finds none for "table_resolver".                                    *)
RemoveExistingCallbacks(h) == tracked[h] \cap {"ensure_table"}

WrapTransactionWithTableInfo(r) ==
  LET h == Head(todo[r]).of IN
  /\ todo[r] # <<>> /\ Head(todo[r]).do = "wrap"
  /\ IF registered = << >>
     THEN todo' = Rest(r, <<>>) /\ UNCHANGED tracked
     ELSE /\ todo' = Rest(r, <<Removal(RemoveExistingCallbacks(h), h),
               Register(<<"ensure_table">>, <<"ensure_table">>, h),
               Register(<<>>, <<"create_table_resolver">>, h)>>)
          /\ tracked' = [tracked EXCEPT ![h] = Tracked]
  /\ UNCHANGED <<registered, processors, sessions, helpers, uses, seen, overwritten, statement, mutex>>

NamesAnySession(step, callback) == callback.what \in step.callbacks  \* a bug: no session

Names(step, callback) == callback.what \in step.callbacks /\ callback.of = step.of

(* The callbacks at these positions, in their order.                       *)
Keeping(callbacks, positions) ==
  [m \in 1 .. Cardinality(positions) |->
     callbacks[CHOOSE n \in positions : Cardinality({k \in positions : k <= n}) = m]]

Without(callbacks, step) ==
  [op \in DOMAIN callbacks |->
     Keeping(callbacks[op], {n \in DOMAIN callbacks[op] : ~Names(step, callbacks[op][n])})]

Registers(r) ==
  LET step == Head(todo[r]) IN
  /\ todo[r] # <<>> /\ step.do = "register"
  /\ WriteCallbacks(r, With(seen[r], step.query, step.create, step.of))
  /\ tracked' = IF step.create = <<"table_resolver">>
                THEN [tracked EXCEPT ![step.of] = @ \cup {"table_resolver"}] ELSE tracked
  /\ todo' = Rest(r, <<>>)
  /\ UNCHANGED <<registered, sessions, helpers, uses, statement, mutex>>

Removes(r) ==
  LET step == Head(todo[r]) IN
  /\ todo[r] # <<>> /\ step.do = "remove"
  /\ WriteCallbacks(r, Without(seen[r], step))
  /\ todo' = Rest(r, <<>>)
  /\ UNCHANGED <<registered, sessions, helpers, tracked, uses, statement, mutex>>

Calls(r) ==
  /\ Alive
  /\ \/ ReadCallbacks(r)
     \/ DBRegisters(r) \/ WrapTransactionWithTableInfo(r) \/ Registers(r) \/ Removes(r)

------------------------------------------------------------------------------
(* A statement.  gorm names the table of a model it can parse, and runs    *)
(* the callbacks there are when the statement starts; each does nothing    *)
(* once there is a name.  Two statements have only the mutex in common, so *)
(* one at a time is executed.                                              *)
Execute(r, op, s) ==
  /\ Idle(r)
  /\ \A other \in Routines : statement[other].end # "running"
  /\ statement' = [statement EXCEPT ![r] =
       [end |-> "running", of |-> s, table |-> IF s.parsed THEN GormTable(s.type) ELSE "",
        rest |-> IF s.parsed THEN <<>> ELSE processors[op]]]
  /\ UNCHANGED <<registered, processors, sessions, helpers, tracked, uses, todo, seen, overwritten, mutex>>

Resolve(what, s) ==
  CASE what = "auto" -> {Returns(EnsureTableIsSet(s))}
    [] what \in {"ensure_table", "query_table_fix"} -> EnsureTableSet(s, registered)
    [] what = "complex_table_fix" -> EnsureComplexTable(s, registered)
    [] what = "create_table_resolver" -> CreateTableResolver(s, registered)
    [] what = "table_resolver" -> TableResolver(s)

RunCallback(r) ==
  LET now == statement[r] IN
  /\ Alive
  /\ now.end = "running" /\ now.rest # <<>>
  /\ Head(now.rest).what \notin {"auto", "table_resolver"} => mutex = "free"
  /\ \E outcome \in Resolve(Head(now.rest).what, now.of) :
       /\ statement' = [statement EXCEPT ![r].table = outcome.table,
                          ![r].rest = IF outcome.table = "" THEN Tail(@) ELSE <<>>,
                          ![r].end = IF outcome.end = "returns" THEN @ ELSE outcome.end]
       /\ mutex' = IF outcome.end = "blocked" THEN r ELSE mutex
  /\ UNCHANGED <<registered, processors, sessions, helpers, tracked, uses, todo, seen, overwritten>>

Finished(r) == statement[r].end = "running" /\ statement[r].rest = <<>>

FinishStatement(r) ==
  /\ Alive
  /\ Finished(r)
  /\ statement' = [statement EXCEPT ![r] = NoStatement]
  /\ UNCHANGED <<registered, processors, sessions, helpers, tracked, uses, todo, seen, overwritten, mutex>>

Next ==
  \E r \in Routines :
    \/ \E m \in Models : RegisterModel(r, m)
    \/ DB(r)
    \/ Transaction(r)
    \/ \E h \in helpers : ExecuteInTransaction(r, h) \/ WithRollbackOnly(r, h)
    \/ Calls(r)
    \/ \E op \in Ops, s \in Statements : Execute(r, op, s)
    \/ RunCallback(r)
    \/ FinishStatement(r)

Spec == Init /\ [][Next]_vars

------------------------------------------------------------------------------
Statement(r) == statement[r].of
Named(t, n) == registered[n].type = t /\ registered[n].byPointer
Alone(t, n) == \A m \in DOMAIN registered \ {n} : registered[m].type.name # t.name

(* A statement whose destination is a pointer to a named type gets the     *)
(* name of its own TableName method or else the plural of its type, what-  *)
(* ever is registered and however many resolvers there are: it never       *)
(* reaches those that guess, wait or recur, because the context's own      *)
(* resolver runs first.                                                    *)
PointersResolveAlone ==
  \A r \in Routines :
    (statement[r] # NoStatement /\ Statement(r).dest = "ptr") =>
      /\ statement[r].end = "running"
      /\ Finished(r) => statement[r].table = GormTable(Statement(r).type)

(* A value or a slice of a registered model that gorm could not parse gets *)
(* the name the model was registered under, if any resolver names it at    *)
(* all: the inference of tryGetTableName spells some names otherwise, but  *)
(* the registry is asked before it.  The exceptions: a `table:` tag, two   *)
(* types of the same name, and create_table_resolver, which a value of a   *)
(* model with a pointer's TableName reaches while another goroutine has    *)
(* removed the helper's ensure_table and not registered it again, or where *)
(* that registration was lost.                                             *)
RegisteredNamesAgree ==
  [][\A r \in Routines :
       (/\ statement[r].end = "running" /\ statement'[r].end = "running"
        /\ statement[r].table = "" /\ statement'[r].table # ""
        /\ Statement(r).dest \in {"value"} \cup Slices
        /\ Statement(r).type.tag = ""
        /\ Head(statement[r].rest).what # "create_table_resolver")
         => \A n \in DOMAIN registered :
              Named(Statement(r).type, n) /\ Alone(Statement(r).type, n)
                => statement'[r].table = n]_vars

(* The mutex of the context, which is not reentrant, is waited for by the  *)
(* goroutine that holds it only for a pointer to a slice that gorm could   *)
(* not parse, without Model() and unless just one model is registered.     *)
OnlyPointersToSlicesBlock ==
  \A r \in Routines :
    statement[r].end = "blocked" =>
      /\ Statement(r).dest = "ptr_slice"
      /\ ~Statement(r).parsed /\ ~Statement(r).model
      /\ Cardinality(DOMAIN registered) # 1

(* However often a helper is used, each processor holds its ensure_table   *)
(* callback once when it is not at work, and never twice - as long as no   *)
(* two goroutines had read the processor before either wrote it: then one  *)
(* registration is lost, or a callback that was removed comes back.        *)
OneOfEachPerHelper ==
  \A h \in helpers, op \in Ops \ overwritten :
    LET mine == {n \in DOMAIN processors[op] : processors[op][n] = Callback("ensure_table", h)} IN
    /\ Cardinality(mine) <= 1
    /\ ("ensure_table" \in tracked[h]
          /\ \A r \in Routines : \A n \in DOMAIN todo[r] : todo[r][n].of # h) => mine # {}

(* A callback is removed only by the helper that registered it, whoever    *)
(* else uses the context: those of other transactions and of DB() stay,    *)
(* unless a goroutine writes what it read before they were registered.     *)
OnlyOwnCallbacksAreRemoved ==
  [][\A op \in Ops : \A c \in ToSet(processors[op]) \ ToSet(processors'[op]) :
       \E r \in Routines :
         /\ op \in DOMAIN seen[r] \ DOMAIN seen'[r]    \* r writes what it read
         /\ \/ Head(todo[r]).do = "remove" /\ Head(todo[r]).of = c.of
            \/ c \notin ToSet(seen[r][op])]_vars

(* Where an expectation is written for TableNameForModel(&model) of a      *)
(* registered model, with or without a table prefix, it names the table    *)
(* gorm uses: the prefix comes once for an inferred name, and not at all   *)
(* for that of a TableName method.                                         *)
ForTableNamesGormsTable ==
  \A n \in DOMAIN registered, prefix \in BOOLEAN :
    registered[n].byPointer =>
      LET t == registered[n].type IN
      ForTable(prefix, registered, TableNameForModel(prefix, t, TRUE))
        = Name(prefix /\ t.receiver = "none", GormTable(t))

(* "No more callback warning messages in test output thanks to unique      *)
(* session IDs and precise callback tracking" (README.md:759-760): gorm    *)
(* warns of a callback registered under a name that is taken.              *)
NoDuplicateCallbacks == \A op \in Ops : IsInjective(processors[op])
=============================================================================
