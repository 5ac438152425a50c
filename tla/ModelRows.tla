----------------------------- MODULE ModelRows -----------------------------
(***************************************************************************)
(* Mock rows made from the structs of a test, and what GORM scans back     *)
(* from them.  The columns of a row are a function from their name to the  *)
(* path of the field they are read from, as in the code; the order of the  *)
(* columns has no effect.                                                  *)
(*                                                                         *)
(* A type is a sequence of fields.  A field has a kind: a "scalar", "fk"   *)
(* (an unsigned integer whose name ends in ID), "deleted" (DeletedAt),     *)
(* "one", "ptr" and "many" (a struct, a pointer and a slice: relations),   *)
(* "embed" (a struct with fields) and "gorm" (gorm.Model).  `own` is the   *)
(* column the code makes of its name or json tag, `json` the same with the *)
(* suffix of a relation's JSON, `column` the one GORM knows it by; `tag`   *)
(* the gorm tag; a relation names its key `fk`, whose column is `fkOwn`.   *)
(*                                                                         *)
(* A value is <<>> for nil and NULL, or <<n>>; that of a relation is the   *)
(* ID of the related model.  An embedded struct embeds no other, and has   *)
(* no more fields than the struct around it; a key has no tag.             *)
(***************************************************************************)
EXTENDS Naturals, Sequences, SequencesExt

Nil == <<>>
Zero == <<0>>

Embeds(f) == f.kind \in {"embed", "gorm"}
FieldAt(type, path) ==
  IF Len(path) = 1 THEN type[path[1]] ELSE type[path[1]].fields[path[2]]

(* The fields in the order of the recursive walk, each with its path and   *)
(* the struct it belongs to.                                               *)
Entries(type) ==
  FlattenSeq([i \in DOMAIN type |->
    IF Embeds(type[i])
    THEN [j \in DOMAIN type[i].fields |->
            [path |-> <<i, j>>, field |-> type[i].fields[j], of |-> type[i].fields]]
    ELSE <<[path |-> <<i>>, field |-> type[i], of |-> type]>>])

Paths(type) == {e.path : e \in ToSet(Entries(type))}

Put(columns, column, path) == [c \in DOMAIN columns \cup {column} |->
                                 IF c = column THEN path ELSE columns[c]]
PutNew(columns, column, path) ==
  IF column \in DOMAIN columns THEN columns ELSE Put(columns, column, path)

(* gorm.Model goes first, with the fields it is known to have.             *)
ModelColumns(type) ==
  LET at == {i \in DOMAIN type : type[i].kind = "gorm"} IN
  IF at = {} THEN << >>
  ELSE LET i == CHOOSE n \in at : \A m \in at : n <= m IN
       [c \in {f.own : f \in ToSet(type[i].fields)} |->
          CHOOSE path \in Paths(type) : path[1] = i /\ FieldAt(type, path).own = c]

------------------------------------------------------------------------------
(* BuildRowsFrom.                                                          *)
KeyColumns(type) ==
  FoldLeft(LAMBDA columns, i : IF type[i].kind = "fk" THEN Put(columns, type[i].own, <<i>>)
                               ELSE columns,
           ModelColumns(type), [i \in DOMAIN type |-> i])

(* To extractFieldNames a DeletedAt is a relation as well.                 *)
IsRelation(f) == f.kind \in {"one", "ptr", "deleted"}

UntaggedOnly(f) == IF f.tag # "" THEN "" ELSE f.own  \* a bug: no tagged column

ColumnName(f) ==
  CASE f.tag = "column" -> f.column
    [] f.tag = "" \/ (f.tag = "index" /\ ~IsRelation(f)) -> f.own
    [] OTHER -> ""

KeyIndex(e) == {j \in DOMAIN e.of : e.of[j].kind = "fk" /\ e.of[j].name = e.field.fk}

(* The path of a relation's key is its index in the struct it belongs to,  *)
(* embedded or not.                                                        *)
ExtractField(columns, e) ==
  IF e.field.kind = "many" \/ e.field.tag = "foreignKey" THEN columns
  ELSE IF IsRelation(e.field) /\ KeyIndex(e) # {}
       THEN Put(columns, e.field.fkOwn, <<CHOOSE j \in KeyIndex(e) : TRUE>>)
  ELSE IF ColumnName(e.field) = "" THEN columns
  ELSE PutNew(columns, ColumnName(e.field), e.path)

RowColumns(type) == FoldLeft(ExtractField, KeyColumns(type), Entries(type))

------------------------------------------------------------------------------
(* BuildRowsWithRelations.                                                 *)
NoColumnTag(f) == IF f.tag = "foreignKey" THEN f.fkOwn ELSE f.own  \* a bug: tag ignored

GetColumnName(f) ==
  CASE f.tag = "foreignKey" -> f.fkOwn
    [] f.tag = "column" -> f.column
    [] OTHER -> f.own

(* Later fields take the columns of earlier ones.                          *)
ExtractWithRelations(columns, e) ==
  IF e.field.kind = "many"
  THEN IF e.field.tag = "foreignKey" THEN Put(columns, e.field.json, e.path) ELSE columns
  ELSE LET named == Put(columns, GetColumnName(e.field), e.path) IN
       IF e.field.kind \in {"one", "ptr"} THEN Put(named, e.field.json, e.path) ELSE named

RelationColumns(type) == FoldLeft(ExtractWithRelations, ModelColumns(type), Entries(type))

------------------------------------------------------------------------------
(* The value of a column: for a relation and for an embedded struct that   *)
(* of its ID, and none for a slice.                                        *)
IdPaths(type) == {p \in Paths(type) : FieldAt(type, p).name = "ID"}

RowValue(type, model, path) ==
  IF path \notin Paths(type)
  THEN LET ids == {p \in IdPaths(type) : p[1] = path[1]} IN
       IF ids = {} THEN Nil ELSE model[CHOOSE p \in ids : TRUE]
  ELSE IF FieldAt(type, path).kind = "many" THEN Nil
  ELSE model[path]

Row(type, columns, model) == [c \in DOMAIN columns |-> RowValue(type, model, columns[c])]

(* What GORM makes of a row: a column it does not know is ignored, a field *)
(* without a column or with a NULL keeps its zero value.                   *)
Stored(f) == f.kind \in {"scalar", "fk", "deleted"}
ZeroOf(f) == IF f.kind \in {"scalar", "fk", "one"} THEN Zero ELSE Nil

Scanned(type, row) ==
  [p \in Paths(type) |->
     LET f == FieldAt(type, p) IN
     IF Stored(f) /\ f.column \in DOMAIN row /\ row[f.column] # Nil
     THEN row[f.column] ELSE ZeroOf(f)]
=============================================================================
