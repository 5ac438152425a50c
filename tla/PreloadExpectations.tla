------------------------ MODULE PreloadExpectations ------------------------
(***************************************************************************)
(* Expectations that answer with models.  ReturnRows(BuildRowsFrom(...))   *)
(* answers with their rows; ReturnModelsWithPreload also registers a GORM  *)
(* callback that puts the relations of the models into the results.  The   *)
(* callbacks stay: each runs after every later query of the context, in    *)
(* the order of registration, on whatever that query has found.            *)
(*                                                                         *)
(* Each call is given a slice of its own, so that the callback, named by   *)
(* the address of the slice, never takes the name of another.              *)
(***************************************************************************)
EXTENDS ModelRows, FiniteSets

CONSTANTS
  Types,            \* the model types, by name
  Models,           \* the models of each type a test may return
  MaxExpectations,  \* expectations written
  MaxModels         \* models in all of them

ASSUME PreloadAssumption ==
  /\ DOMAIN Models = DOMAIN Types
  /\ MaxExpectations \in Nat
  /\ MaxModels \in Nat

VARIABLES
  expected,   \* the expectations, in the order they were written
  answered,   \* those that a query has consumed
  callbacks,  \* the relations each registered callback injects
  found       \* the last result: the expectation and the models read

preloadVars == <<expected, answered, callbacks, found>>

NothingFound == [by |-> 0, models |-> <<>>]

PreloadInit ==
  /\ expected = <<>>
  /\ answered = {}
  /\ callbacks = <<>>
  /\ found = NothingFound

------------------------------------------------------------------------------
(* The relations of a model, by its type, ID and field: an embedded struct *)
(* of the test's own counts as one.                                        *)
IdOf(name, model) == model[CHOOSE p \in IdPaths(Types[name]) : TRUE]

KeyWithoutType(name, id, field) == <<"", id, field.name>>  \* a bug: types share their IDs

Key(name, id, field) == <<name, id, field.name>>

IsInjected(f) == f.kind \in {"many", "one", "ptr", "embed"}
Injected(name) == {i \in DOMAIN Types[name] : IsInjected(Types[name][i])}

FieldValue(name, model, i) ==
  IF Embeds(Types[name][i])
  THEN [j \in DOMAIN Types[name][i].fields |-> model[<<i, j>>]]
  ELSE model[<<i>>]

ExtractModelRelationships(data, name, model) ==
  LET KeyOf(i) == Key(name, IdOf(name, model), Types[name][i])
      keys == {KeyOf(i) : i \in Injected(name)} IN
  [k \in DOMAIN data \cup keys |->
     IF k \in keys
     THEN FieldValue(name, model, CHOOSE i \in Injected(name) : KeyOf(i) = k)
     ELSE data[k]]

ExtractRelationshipData(name, models) ==
  FoldLeft(LAMBDA data, model : ExtractModelRelationships(data, name, model), << >>, models)

(* JSON null leaves a slice as it is and makes a pointer one to a zero     *)
(* struct.                                                                 *)
InjectModelRelationships(name, model, data) ==
  [p \in DOMAIN model |->
     LET f == Types[name][p[1]]
         k == Key(name, IdOf(name, model), f) IN
     IF ~IsInjected(f) \/ k \notin DOMAIN data THEN model[p]
     ELSE IF f.kind = "embed" THEN data[k][p[2]]
     ELSE IF data[k] = Nil THEN IF f.kind = "ptr" THEN Zero ELSE model[p]
     ELSE data[k]]

InjectRelationships(name, models, data) ==
  [n \in DOMAIN models |-> InjectModelRelationships(name, models[n], data)]

------------------------------------------------------------------------------
Expects(name, models, columns, preload) ==
  /\ Len(expected) < MaxExpectations
  /\ FoldLeft(LAMBDA n, e : n + Len(e.models), Len(models), expected) <= MaxModels
  /\ expected' = Append(expected,
       [type |-> name, models |-> models, preload |-> preload,
        rows |-> [n \in DOMAIN models |-> Row(Types[name], columns, models[n])]])
  /\ UNCHANGED <<answered, found>>

ReturnRows(name, models) ==
  /\ Expects(name, models, RowColumns(Types[name]), FALSE)
  /\ UNCHANGED callbacks

ReturnModelsWithPreload(name, models) ==
  /\ Expects(name, models, RelationColumns(Types[name]), TRUE)
  /\ callbacks' = Append(callbacks, ExtractRelationshipData(name, models))

(* The code under test looks for models of a type; the first expectation   *)
(* for their table that is left answers.                                   *)
Find(name) ==
  LET left == {n \in DOMAIN expected : n \notin answered /\ expected[n].type = name} IN
  /\ left # {}
  /\ LET n == CHOOSE m \in left : \A l \in left : m <= l
         rows == expected[n].rows
         read == [m \in DOMAIN rows |-> Scanned(Types[name], rows[m])] IN
       /\ answered' = answered \cup {n}
       /\ found' = [by |-> n, models |->
            FoldLeft(LAMBDA models, data : InjectRelationships(name, models, data),
                     read, callbacks)]
  /\ UNCHANGED <<expected, callbacks>>

PreloadNext ==
  \E name \in DOMAIN Types :
    \/ \E models \in BoundedSeq(Models[name], MaxModels) \ {<<>>} :
         ReturnRows(name, models) \/ ReturnModelsWithPreload(name, models)
    \/ Find(name)

------------------------------------------------------------------------------
Given == expected[found.by]
Type == Types[Given.type]

(* No two of the models registered for preloading that have this ID differ *)
(* in this field.                                                          *)
Undisturbed(i, id) ==
  LET registered ==
        {FieldValue(Given.type, model, i) :
           model \in UNION {ToSet(expected[m].models) :
             m \in {l \in DOMAIN expected : expected[l].type = Given.type
                      /\ (expected[l].preload \/ l = found.by)}}
             \cap {m \in Models[Given.type] : IdOf(Given.type, m) = id}} IN
  Cardinality(registered) = 1

(* The stored fields that scan back: those whose column the code and GORM  *)
(* spell alike.                                                            *)
WellNamed(f) == Stored(f) /\ (f.tag = "column" \/ f.own = f.column)

Comes(n, path) == found.models[n][path] = Given.models[n][path]
Undisturbable(n, path) ==
  FieldAt(Type, <<path[1]>>).kind = "embed"
    => Undisturbed(path[1], IdOf(Given.type, Given.models[n]))

(* The stored fields of models returned with ReturnRows(BuildRowsFrom())   *)
(* come back as they were given, gorm.Model, embedded structs, foreign     *)
(* keys and tagged columns included.  Two do not: the key of a relation    *)
(* inside an embedded struct, which is read from the wrong field, and a    *)
(* DeletedAt with an index tag outside gorm.Model, which has no column.    *)
PlainRowsScanBack ==
  (found.by # 0 /\ ~Given.preload) =>
    \A n \in DOMAIN found.models : \A e \in ToSet(Entries(Type)) :
      (/\ WellNamed(e.field) /\ Undisturbable(n, e.path)
       /\ ~(Len(e.path) = 2 /\ \E f \in ToSet(e.of) : IsRelation(f) /\ f.fk = e.field.name)
       /\ ~(e.field.kind = "deleted" /\ e.field.tag = "index" /\ Len(e.path) = 1))
        => Comes(n, e.path)

(* The same for ReturnModelsWithPreload, but for a foreign key that a      *)
(* later relation names in its tag: its column then holds the ID of the    *)
(* related model, whether or not the test has filled that in.              *)
PreloadedRowsScanBack ==
  (found.by # 0 /\ Given.preload) =>
    \A n \in DOMAIN found.models : \A e \in ToSet(Entries(Type)) :
      (/\ WellNamed(e.field) /\ Undisturbable(n, e.path)
       /\ ~\E f \in ToSet(e.of) : f.tag = "foreignKey" /\ f.fk = e.field.name)
        => Comes(n, e.path)

(* The relations of models returned with ReturnModelsWithPreload come back *)
(* without a Preload, whatever else has been registered, unless a model of *)
(* the same type and ID was registered with another value; a nil pointer   *)
(* comes back as a zero struct.                                            *)
RelationsComeBack ==
  (found.by # 0 /\ Given.preload) =>
    \A n \in DOMAIN found.models : \A i \in Injected(Given.type) :
      (Type[i].kind # "embed" /\ Undisturbed(i, IdOf(Given.type, Given.models[n])))
        => found.models[n][<<i>>] =
             IF Type[i].kind = "ptr" /\ Given.models[n][<<i>>] = Nil THEN Zero
             ELSE Given.models[n][<<i>>]
=============================================================================
