----------------------------- MODULE TableNames -----------------------------
(***************************************************************************)
(* How transaction_test_helpers.go and db_test_context.go name the table   *)
(* of a GORM statement: the strategies of each resolver as the set of      *)
(* outcomes it may have.  There may be several, as Go iterates over the    *)
(* map of registered models in any order, and some are not a name: a       *)
(* resolver may wait for the mutex it holds, or call itself for ever.      *)
(*                                                                         *)
(* A type is a record of what the resolvers ask of it by reflection: its   *)
(* name, the table names inferred from it, its TableName method, a         *)
(* `table:` tag, its hooks, its relationships and its Validate method.     *)
(***************************************************************************)
EXTENDS Naturals, FiniteSets

(* A slice or a map: reflection gives it no name. *)
Unnamed == [name |-> "", plural |-> "", singular |-> "", looped |-> "", own |-> "",
            receiver |-> "none", tag |-> "", hooks |-> FALSE, relations |-> FALSE,
            validates |-> FALSE, struct |-> FALSE]

(* The types that have a name: reflection infers others from it, and a     *)
(* TableName method returns a name too.                                    *)
Types == [name : STRING, plural : STRING, singular : STRING, looped : STRING, own : STRING,
          receiver : {"none", "value", "pointer"}, tag : STRING, hooks : BOOLEAN,
          relations : BOOLEAN, validates : BOOLEAN, struct : BOOLEAN]

NamedTypes == {t \in Types : /\ t.name # "" /\ t.plural # "" /\ t.looped # ""
                             /\ t.receiver = "none" \/ t.own # ""}

HasMethod(t, byPointer) == t.receiver = "value" \/ (byPointer /\ t.receiver = "pointer")

(* The name a model is registered under. *)
ExtractTableName(t, byPointer) == IF HasMethod(t, byPointer) THEN t.own ELSE t.plural

(* The name gorm itself gives the statements of a type it can parse. *)
GormTable(t) == ExtractTableName(t, TRUE)

------------------------------------------------------------------------------
(* The names of expectations, where a prefix may be configured.            *)
Name(prefixed, table) == [prefixed |-> prefixed, table |-> table]

PrefixTableName(prefix, name) == IF prefix THEN Name(TRUE, name.table) ELSE name

TableNameForModel(prefix, t, byPointer) ==
  IF HasMethod(t, byPointer) THEN Name(FALSE, ExtractTableName(t, byPointer))
  ELSE PrefixTableName(prefix, Name(FALSE, ExtractTableName(t, byPointer)))

NamesItself(registered, name) ==
  /\ ~name.prefixed
  /\ name.table \in DOMAIN registered
  /\ HasMethod(registered[name.table].type, registered[name.table].byPointer)

PrefixAlways(prefix, registered, name) == PrefixTableName(prefix, name)  \* a bug

NewExpectationsBuilder(prefix, registered, name) ==
  IF NamesItself(registered, name) THEN name ELSE PrefixTableName(prefix, name)

ForTable(prefix, registered, name) ==
  NewExpectationsBuilder(prefix, registered,
    IF NamesItself(registered, name) THEN Name(FALSE, registered[name.table].type.own) ELSE name)

------------------------------------------------------------------------------
(* What a resolver does to a statement without a table.                    *)
Returns(table) == [end |-> "returns", table |-> table]
Blocked == [end |-> "blocked", table |-> ""]
Endless == [end |-> "endless", table |-> ""]

(* The registered models of the same type, or of a type with the same name *)
(* in another package: the first that the iteration meets is taken.        *)
Matching(t, registered) == {n \in DOMAIN registered : registered[n].type.name = t.name}

(* A bug: the mutex is taken before the model is asked for its name.       *)
LocksFirst(t, registered, held) ==
  IF held THEN {Blocked} ELSE {Returns(IF t.receiver # "none" THEN t.own ELSE t.plural)}

(* A bug: the inferred name is not a last resort.                          *)
InfersFirst(t, registered, held) == {Returns(IF t.receiver # "none" THEN t.own ELSE t.looped)}

(* tryGetTableName.  The clean instance of a model with hooks is a pointer *)
(* like any other and takes the same branch again.                         *)
TryGetTableName(t, registered, held) ==
  IF t.receiver # "none" THEN {Returns(t.own)}
  ELSE IF t.tag # "" THEN {Returns(t.tag)}
  ELSE IF t.hooks THEN {Endless}
  ELSE IF held THEN {Blocked}
  ELSE IF Matching(t, registered) = {} THEN {Returns(t.looped)}
  ELSE {Returns(n) : n \in Matching(t, registered)}

HooksAndRelationships(t, byPointer) == byPointer /\ t.struct /\ t.hooks /\ t.relations

(* setTableFromModel: a model with hooks and relationships is resolved     *)
(* with the mutex held.  What follows the call of tryGetTableName is never *)
(* reached for a type that has a name.                                     *)
SetTableFromModel(t, byPointer, registered, held) ==
  IF HooksAndRelationships(t, byPointer)
  THEN IF held THEN {Blocked} ELSE TryGetTableName(t, registered, TRUE)
  ELSE TryGetTableName(t, registered, held)

(* A statement: its destination, the type that destination is made of, and *)
(* whether Model(&T{}) was called.  gorm hands the resolvers the value a   *)
(* pointer points to, so their branches for a pointer value never run.     *)
Dests == {"ptr", "value", "ptr_slice", "values", "pointers", "ptr_map", "map"}
Pointers == {"ptr", "ptr_slice", "ptr_map"}
Maps == {"map", "ptr_map"}
Slices == {"values", "pointers"}

(* ensureTableIsSet, the resolver of every context.                        *)
EnsureTableIsSet(s) ==
  IF s.model /\ s.type.receiver # "none" THEN s.type.own
  ELSE IF s.dest \in {"ptr", "value"} /\ HasMethod(s.type, s.dest = "ptr") THEN s.type.own
  ELSE IF s.dest = "ptr" THEN s.type.plural
  ELSE ""

(* ensureTableSet by its strategies: the value, the only model, a map, the *)
(* Model, the destination, and the first element of a slice.  The last but *)
(* one takes the mutex for a pointer and keeps it to the end.              *)
ByModel(s, registered) ==
  IF s.model \/ s.dest = "ptr" THEN SetTableFromModel(s.type, TRUE, registered, FALSE)
  ELSE IF s.dest = "value" THEN SetTableFromModel(s.type, FALSE, registered, FALSE)
  ELSE {Returns("")}

ByDestination(s, registered) ==
  SetTableFromModel(Unnamed, FALSE, registered, s.dest \in Pointers)

ByElement(s, registered) ==
  IF s.dest \in Slices /\ (s.type.struct \/ s.dest = "pointers")
  THEN SetTableFromModel(s.type, s.dest = "pointers", registered, FALSE)
  ELSE {Returns("")}

EnsureTableSet(s, registered) ==
  IF s.dest \in {"ptr", "value"} /\ s.type.receiver = "value" THEN {Returns(s.type.own)}
  ELSE IF Cardinality(DOMAIN registered) = 1 \/ s.dest \in Maps
       THEN {Returns(n) : n \in DOMAIN registered}
  ELSE IF Returns("") \notin ByModel(s, registered) THEN ByModel(s, registered)
  ELSE IF Returns("") \notin ByDestination(s, registered) THEN ByDestination(s, registered)
  ELSE ByElement(s, registered)

(* The resolver that Transaction() adds for creates.                       *)
EnsureComplexTable(s, registered) ==
  IF s.dest # "ptr" THEN {Returns("")}
  ELSE IF s.type.receiver # "none" THEN {Returns(s.type.own)}
  ELSE IF ~(s.type.validates /\ s.type.relations) THEN {Returns("")}
  ELSE IF Matching(s.type, registered) = {} THEN {Returns(s.type.plural)}
  ELSE {Returns(n) : n \in Matching(s.type, registered)}

(* The last attempt of wrapTransactionWithTableInfo for creates.           *)
CreateTableResolver(s, registered) ==
  LET t == IF s.dest \in {"ptr", "value"} THEN s.type ELSE Unnamed IN
  IF t.receiver = "value" THEN {Returns(t.own)}
  ELSE IF t.plural \in DOMAIN registered THEN {Returns(t.plural)}
  ELSE IF t.singular \in DOMAIN registered THEN {Returns(t.singular)}
  ELSE {Returns(t.plural)}

(* The resolver of ExecuteInTransaction: what it does for a pointer value  *)
(* is never reached.                                                       *)
TableResolver(s) ==
  {Returns(IF s.dest \in {"ptr", "value"} /\ s.type.receiver = "value" THEN s.type.own ELSE "")}
=============================================================================
