---------------------- MODULE ResolverCallbacksProofs ----------------------
(***************************************************************************)
(* Proofs about the callbacks of a test context, for any models, any       *)
(* statements and any number of goroutines and helpers: which callbacks    *)
(* there are, what they make of a statement, and which wait for ever.      *)
(***************************************************************************)
EXTENDS ResolverCallbacks, CountingLemmas

------------------------------------------------------------------------------
(* The names of tables.                                                    *)

(* Every model is registered under the name ExtractTableName gives it.     *)
RegistryOK ==
  \A n \in DOMAIN registered :
    /\ registered[n] \in Models
    /\ n = ExtractTableName(registered[n].type, registered[n].byPointer)

Ends == {"returns", "blocked", "endless"}
TableNamesOrNone == STRING \cup {""}
Outcomes == [end : Ends, table : TableNamesOrNone]

(* What a named type is called is not empty, and is a string.              *)
LEMMA NamesAreNames ==
  ASSUME NEW t \in NamedTypes, NEW byPointer \in BOOLEAN
  PROVE  /\ ExtractTableName(t, byPointer) \in STRING /\ ExtractTableName(t, byPointer) # ""
         /\ GormTable(t) = (IF t.receiver # "none" THEN t.own ELSE t.plural)
         /\ GormTable(t) \in STRING /\ GormTable(t) # ""
         /\ t \in Types /\ t.name # "" /\ t.plural # "" /\ t.looped # ""
         /\ t.receiver # "none" => t.own # ""
         /\ \A b \in BOOLEAN : HasMethod(t, b) => t.receiver # "none"
BY DEF NamedTypes, Types, ExtractTableName, HasMethod, GormTable

(* The registered names are too.                                           *)
LEMMA RegisteredAreNames ==
  ASSUME RegistryOK, NEW n \in DOMAIN registered
  PROVE  /\ n \in STRING /\ n # ""
         /\ registered[n].type \in NamedTypes /\ registered[n].byPointer \in BOOLEAN
<1>1. registered[n] \in Models /\ n = ExtractTableName(registered[n].type, registered[n].byPointer)
  BY DEF RegistryOK
<1>2. registered[n].type \in NamedTypes /\ registered[n].byPointer \in BOOLEAN
  BY <1>1, ResolverCallbacksAssumption
<1> QED
  BY <1>1, <1>2, NamesAreNames

(* An expectation written for the name of a registered model is one for    *)
(* the table that gorm uses, with a prefix or without.                     *)
LEMMA ForTableAgrees == RegistryOK => ForTableNamesGormsTable
<1> SUFFICES ASSUME RegistryOK, NEW n \in DOMAIN registered, NEW prefix \in BOOLEAN,
                    registered[n].byPointer
             PROVE  LET t == registered[n].type IN
                    ForTable(prefix, registered, TableNameForModel(prefix, t, TRUE))
                      = Name(prefix /\ t.receiver = "none", GormTable(t))
  BY DEF ForTableNamesGormsTable
<1> DEFINE t == registered[n].type
<1>1. /\ t \in NamedTypes /\ n = ExtractTableName(t, TRUE)
  BY RegisteredAreNames DEF RegistryOK
<1>2. t.receiver \in {"none", "value", "pointer"}
  BY <1>1 DEF NamedTypes, Types
<1>3. CASE t.receiver # "none"
  <2>1. HasMethod(t, TRUE) /\ n = t.own /\ GormTable(t) = t.own
    BY <1>1, <1>2, <1>3 DEF HasMethod, ExtractTableName, GormTable
  <2>2. NamesItself(registered, Name(FALSE, n))
    BY <1>3, <2>1 DEF NamesItself, Name, HasMethod
  <2>3. TableNameForModel(prefix, t, TRUE) = Name(FALSE, n)
    BY <2>1 DEF TableNameForModel, ExtractTableName
  <2>4. Name(FALSE, n).table = n
    BY DEF Name
  <2>5. ForTable(prefix, registered, Name(FALSE, n))
          = NewExpectationsBuilder(prefix, registered, Name(FALSE, registered[n].type.own))
    BY <2>2, <2>4 DEF ForTable
  <2>6. @ = Name(FALSE, n)
    BY <2>1, <2>2 DEF NewExpectationsBuilder
  <2>7. (prefix /\ t.receiver = "none") = FALSE
    BY <1>3
  <2> QED
    BY <2>1, <2>3, <2>5, <2>6, <2>7
<1>4. CASE t.receiver = "none"
  <2>1. ~HasMethod(t, TRUE) /\ ~HasMethod(t, registered[n].byPointer)
        /\ n = t.plural /\ GormTable(t) = t.plural
    BY <1>1, <1>4 DEF HasMethod, ExtractTableName, GormTable
  <2>2. \A p \in BOOLEAN : ~NamesItself(registered, Name(p, n))
    BY <2>1 DEF NamesItself, Name
  <2>3. TableNameForModel(prefix, t, TRUE) = Name(prefix, n)
    <3>1. TableNameForModel(prefix, t, TRUE) = PrefixTableName(prefix, Name(FALSE, n))
      BY <2>1 DEF TableNameForModel, ExtractTableName
    <3>2. CASE prefix = TRUE
      BY <3>1, <3>2 DEF PrefixTableName, Name
    <3>3. CASE prefix = FALSE
      BY <3>1, <3>3 DEF PrefixTableName, Name
    <3> QED
      BY <3>2, <3>3
  <2>4. ForTable(prefix, registered, Name(prefix, n)) = Name(prefix, n)
    BY <2>2 DEF ForTable, NewExpectationsBuilder, PrefixTableName, Name
  <2>5. (prefix /\ t.receiver = "none") = prefix
    BY <1>4
  <2> QED
    BY <2>1, <2>3, <2>4, <2>5
<1> QED
  BY <1>3, <1>4
------------------------------------------------------------------------------
(* The callbacks that are kept when others are removed.                    *)

(* The positions of a set are numbered by how many there are up to each:   *)
(* in their order, and every number from 1 to how many there are is that   *)
(* of exactly one.                                                         *)
LEMMA Ranks ==
  ASSUME NEW N \in Nat, NEW positions \in SUBSET (1 .. N), NEW Rank,
         Rank = [n \in positions |-> Cardinality({k \in positions : k <= n})]
  PROVE  /\ IsFiniteSet(positions) /\ Cardinality(positions) \in Nat
         /\ \A n \in positions : Rank[n] \in 1 .. Cardinality(positions)
         /\ \A n, o \in positions : n < o => Rank[n] < Rank[o]
         /\ \A m \in 1 .. Cardinality(positions) : \E n \in positions : Rank[n] = m
         /\ 1 \in positions => Rank[1] = 1
<1> DEFINE UpTo(n) == {k \in positions : k <= n}
<1>1. IsFiniteSet(positions) /\ Cardinality(positions) \in Nat
  <2>1. IsFiniteSet(1 .. N)
    BY FS_Interval
  <2>2. IsFiniteSet(positions)
    BY <2>1, FS_Subset
  <2> QED
    BY <2>2, FS_CardinalityType
<1>2. \A n \in positions : n \in 1 .. N /\ n \in Nat
  OBVIOUS
<1>3. ASSUME NEW n \in positions
      PROVE  /\ IsFiniteSet(UpTo(n)) /\ Cardinality(UpTo(n)) \in Nat
             /\ Cardinality(UpTo(n)) # 0 /\ Cardinality(UpTo(n)) <= Cardinality(positions)
  <2>1. UpTo(n) \in SUBSET positions /\ n \in UpTo(n)
    BY <1>2
  <2>2. IsFiniteSet(UpTo(n)) /\ Cardinality(UpTo(n)) <= Cardinality(positions)
    BY <1>1, <2>1, FS_Subset
  <2>3. Cardinality(UpTo(n)) \in Nat /\ Cardinality(UpTo(n)) # 0
    BY <2>1, <2>2, FS_CardinalityType, FS_EmptySet
  <2> QED
    BY <2>2, <2>3
<1>4. ASSUME NEW n \in positions, NEW o \in positions, n < o
      PROVE  Cardinality(UpTo(n)) < Cardinality(UpTo(o))
  <2>1. n \in Nat /\ o \in Nat /\ \A k \in positions : k \in Nat
    BY <1>2
  <2>2. \A k \in positions : k <= n => k <= o
    BY <1>4, <2>1
  <2>3. UpTo(n) \in SUBSET UpTo(o)
    BY <2>2
  <2>4. o \in UpTo(o) /\ o \notin UpTo(n)
    BY <1>4, <2>1
  <2>5. Cardinality(UpTo(n)) <= Cardinality(UpTo(o)) /\ Cardinality(UpTo(n)) # Cardinality(UpTo(o))
    BY <1>3, <2>3, <2>4, FS_Subset
  <2> QED
    BY <1>3, <2>5
<1>5. \A n \in positions : Rank[n] = Cardinality(UpTo(n))
  OBVIOUS
<1> HIDE DEF UpTo
<1>6. \A n \in positions : Rank[n] \in 1 .. Cardinality(positions)
  BY <1>1, <1>3, <1>5
<1>7. \A n, o \in positions : n < o => Rank[n] < Rank[o]
  BY <1>4, <1>5
<1>8. Rank \in Injection(positions, 1 .. Cardinality(positions))
  <2>1. Rank \in [positions -> 1 .. Cardinality(positions)]
    BY <1>6
  <2>2. ASSUME NEW n \in positions, NEW o \in positions, Rank[n] = Rank[o]
        PROVE  n = o
    <3>1. n \in Nat /\ o \in Nat /\ Rank[n] \in Nat /\ Rank[o] \in Nat
      BY <1>2, <1>6
    <3>2. ~(n < o) /\ ~(o < n)
      BY <1>7, <2>2, <3>1
    <3> QED
      BY <3>1, <3>2
  <2> QED
    BY <2>1, <2>2 DEF Injection, IsInjective
<1>9. \A m \in 1 .. Cardinality(positions) : \E n \in positions : Rank[n] = m
  <2>1. IsFiniteSet(1 .. Cardinality(positions))
        /\ Cardinality(1 .. Cardinality(positions)) = Cardinality(positions)
    BY <1>1, FS_Interval
  <2>2. Rank \in Surjection(positions, 1 .. Cardinality(positions))
    BY <1>8, <2>1, FS_Injection
  <2> QED
    BY <2>2 DEF Surjection
<1>10. 1 \in positions => Rank[1] = 1
  <2> SUFFICES ASSUME 1 \in positions PROVE Rank[1] = 1
    OBVIOUS
  <2>1. UpTo(1) = {1}
    <3>1. \A k \in positions : k <= 1 => k = 1
      BY <1>2
    <3>2. 1 \in UpTo(1)
      BY DEF UpTo
    <3>3. \A k \in UpTo(1) : k = 1
      BY <3>1 DEF UpTo
    <3> QED
      BY <3>2, <3>3
  <2> QED
    BY <1>5, <2>1, FS_Singleton
<1> QED
  BY <1>1, <1>6, <1>7, <1>9, <1>10

HasKept(kept, callbacks, positions) ==
  /\ \A c : (\E m \in DOMAIN kept : kept[m] = c) <=> (\E n \in positions : callbacks[n] = c)
  /\ \A M : Count(kept, M) = Cardinality({n \in positions : callbacks[n] \in M})
  /\ 1 \in positions => Len(kept) >= 1 /\ kept[1] = callbacks[1]

(* What is kept is what there was at the positions, each once, and what    *)
(* came first is still first.                                              *)
LEMMA KeepingKeeps ==
  ASSUME NEW S, NEW callbacks \in Seq(S), NEW positions \in SUBSET DOMAIN callbacks,
         NEW kept, kept = Keeping(callbacks, positions)
  PROVE  kept \in Seq(S) /\ HasKept(kept, callbacks, positions)
<1> DEFINE Rank == [n \in positions |-> Cardinality({k \in positions : k <= n})]
           N == Cardinality(positions)
<1>1. DOMAIN callbacks = 1 .. Len(callbacks) /\ Len(callbacks) \in Nat
  BY LenProperties
<1>2. /\ IsFiniteSet(positions) /\ N \in Nat
      /\ \A n \in positions : Rank[n] \in 1 .. N
      /\ \A n, o \in positions : n < o => Rank[n] < Rank[o]
      /\ \A m \in 1 .. N : \E n \in positions : Rank[n] = m
      /\ 1 \in positions => Rank[1] = 1
  BY <1>1, Ranks
<1>3. \A n \in positions : n \in Nat
  BY <1>1
<1>4. ASSUME NEW n \in positions, NEW o \in positions, Rank[n] = Rank[o]
      PROVE  n = o
  <2>1. \A i \in positions : Rank[i] \in Nat
    BY <1>2
  <2> HIDE DEF Rank
  <2>2. ~(n < o) /\ ~(o < n)
    BY <1>2, <1>4, <2>1
  <2> QED
    BY <1>3, <2>2
<1> DEFINE At(m) == CHOOSE n \in positions : Cardinality({k \in positions : k <= n}) = m
<1>5. kept = [m \in 1 .. N |-> callbacks[At(m)]]
  BY DEF Keeping
<1>6. ASSUME NEW m \in 1 .. N
      PROVE  At(m) \in positions /\ Rank[At(m)] = m
  <2>1. \E n \in positions : Cardinality({k \in positions : k <= n}) = m
    BY <1>2
  <2>2. At(m) \in positions /\ Cardinality({k \in positions : k <= At(m)}) = m
    BY <2>1
  <2> QED
    BY <2>2
<1> HIDE DEF Rank, At
<1>7. ASSUME NEW n \in positions
      PROVE  Rank[n] \in 1 .. N /\ At(Rank[n]) = n
  <2>1. Rank[n] \in 1 .. N
    BY <1>2
  <2>2. At(Rank[n]) \in positions /\ Rank[At(Rank[n])] = Rank[n]
    BY <1>6, <2>1
  <2> QED
    BY <1>4, <2>1, <2>2
<1>8. kept \in Seq(S)
  <2>1. \A m \in 1 .. N : kept[m] \in S
    BY <1>1, <1>5, <1>6, ElementOfSeq
  <2>2. kept = [m \in 1 .. N |-> kept[m]]
    BY <1>5
  <2>3. N \in Nat /\ kept \in [1 .. N -> S]
    BY <1>2, <2>1, <2>2
  <2> QED
    BY <2>3, SeqDef
<1>9. DOMAIN kept = 1 .. N
  BY <1>5
<1>10. ASSUME NEW c
       PROVE  (\E m \in DOMAIN kept : kept[m] = c) <=> (\E n \in positions : callbacks[n] = c)
  BY <1>5, <1>6, <1>7, <1>9
<1>11. ASSUME NEW M
       PROVE  Count(kept, M) = Cardinality({n \in positions : callbacks[n] \in M})
  <2> DEFINE there == {n \in positions : callbacks[n] \in M}
             here == Where(kept, M)
             place == [m \in here |-> At(m)]
  <2>1. here \in SUBSET (1 .. N) /\ \A m \in 1 .. N : m \in here <=> callbacks[At(m)] \in M
    BY <1>5, <1>9 DEF Where
  <2>2. place \in [here -> there]
    BY <1>6, <2>1
  <2>3. place \in Surjection(here, there)
    <3>1. ASSUME NEW n \in there PROVE \E m \in here : place[m] = n
      <4>1. Rank[n] \in here
        BY <1>7, <2>1
      <4> QED
        BY <1>7, <4>1
    <3> QED
      BY <2>2, <3>1 DEF Surjection
  <2>4. place \in Injection(here, there)
    <3>1. ASSUME NEW m \in here, NEW o \in here, place[m] = place[o] PROVE m = o
      BY <1>6, <2>1, <3>1
    <3> QED
      BY <2>2, <3>1 DEF Injection, IsInjective
  <2>5. IsFiniteSet(here)
    BY <1>8, CountType
  <2>6. Cardinality(there) = Cardinality(here)
    <3> HIDE DEF place, there, here
    <3> QED
      BY <2>3, <2>4, <2>5, FS_Surjection
  <2> QED
    BY <2>6 DEF Count
<1>12. ASSUME 1 \in positions PROVE Len(kept) >= 1 /\ kept[1] = callbacks[1]
  <2>1. Rank[1] = 1 /\ 1 \in 1 .. N /\ At(1) = 1
    BY <1>2, <1>7, <1>12
  <2>2. Len(kept) = N
    BY <1>2, <1>8, <1>9, LenProperties
  <2> QED
    BY <1>2, <1>5, <2>1, <2>2
<1> QED
  BY <1>8, <1>10, <1>11, <1>12 DEF HasKept
------------------------------------------------------------------------------
(* What a callback makes of a statement.                                   *)

CallbackNames == {"auto", "ensure_table", "query_table_fix", "complex_table_fix",
                  "create_table_resolver", "table_resolver"}

LEMMA UnnamedMatchesNone ==
  ASSUME RegistryOK
  PROVE  Matching(Unnamed, registered) = {}
<1>1. \A n \in DOMAIN registered : registered[n].type.name # ""
  BY RegisteredAreNames, NamesAreNames
<1> QED
  BY <1>1 DEF Matching, Unnamed

LEMMA EndsAreOutcomes ==
  /\ Blocked \in Outcomes /\ Blocked.end = "blocked" /\ Blocked.table = ""
  /\ Endless \in Outcomes /\ Endless.end = "endless" /\ Endless.table = ""
  /\ Returns("") \in Outcomes /\ Returns("").end = "returns"
  /\ Blocked # Returns("")
<1>1. "" \in TableNamesOrNone /\ {"returns", "blocked", "endless"} = Ends
  BY DEF Ends, TableNamesOrNone
<1>2. Blocked \in Outcomes /\ Blocked.end = "blocked" /\ Blocked.table = ""
  BY <1>1 DEF Blocked, Outcomes
<1>3. Endless \in Outcomes /\ Endless.end = "endless" /\ Endless.table = ""
  BY <1>1 DEF Endless, Outcomes
<1>4. Returns("") \in Outcomes /\ Returns("").end = "returns"
  BY <1>1 DEF Returns, Outcomes
<1> QED
  BY <1>2, <1>3, <1>4

(* A name that tryGetTableName finds is a name; it waits for the mutex     *)
(* only where it is held, and never for a model with hooks.                *)
LEMMA TriedNames ==
  ASSUME RegistryOK, NEW t \in NamedTypes, NEW held \in BOOLEAN,
         NEW outcome \in TryGetTableName(t, registered, held)
  PROVE  /\ outcome \in Outcomes
         /\ outcome # Returns("")
         /\ outcome.end # "returns" => outcome.table = ""
         /\ outcome.end = "blocked" => held /\ ~t.hooks
<1>1. t \in Types /\ t.own \in STRING /\ t.tag \in STRING /\ t.looped \in STRING /\ t.looped # ""
      /\ (t.receiver # "none" => t.own # "")
  BY NamesAreNames DEF Types
<1>2. \A n \in Matching(t, registered) : n \in STRING /\ n # ""
  BY RegisteredAreNames DEF Matching
<1>3. \A name \in STRING : /\ Returns(name) \in Outcomes /\ Returns(name).end = "returns"
                           /\ name # "" => Returns(name) # Returns("")
  BY DEF Returns, Outcomes, Ends, TableNamesOrNone
<1>4. Blocked \in Outcomes /\ Blocked.end = "blocked" /\ Blocked.table = ""
      /\ Endless \in Outcomes /\ Endless.end = "endless" /\ Endless.table = ""
      /\ Returns("").end = "returns"
  BY EndsAreOutcomes
<1>5. CASE t.receiver # "none"
  BY <1>1, <1>3, <1>5 DEF TryGetTableName
<1>6. CASE t.receiver = "none" /\ t.tag # ""
  BY <1>1, <1>3, <1>6 DEF TryGetTableName
<1>7. CASE t.receiver = "none" /\ t.tag = "" /\ t.hooks
  BY <1>4, <1>7 DEF TryGetTableName
<1>8. CASE t.receiver = "none" /\ t.tag = "" /\ ~t.hooks /\ held
  BY <1>4, <1>8 DEF TryGetTableName
<1>9. CASE t.receiver = "none" /\ t.tag = "" /\ ~t.hooks /\ ~held
  BY <1>1, <1>2, <1>3, <1>9 DEF TryGetTableName
<1> QED
  BY <1>5, <1>6, <1>7, <1>8, <1>9

(* A model that is resolved without the mutex in hand never waits for it.  *)
LEMMA ModelsAreNamed ==
  ASSUME RegistryOK, NEW t \in NamedTypes, NEW byPointer \in BOOLEAN,
         NEW outcome \in SetTableFromModel(t, byPointer, registered, FALSE)
  PROVE  /\ outcome \in Outcomes
         /\ outcome # Returns("")
         /\ outcome.end # "returns" => outcome.table = ""
         /\ outcome.end # "blocked"
<1>1. CASE HooksAndRelationships(t, byPointer)
  <2>1. outcome \in TryGetTableName(t, registered, TRUE) /\ t.hooks
    BY <1>1 DEF SetTableFromModel, HooksAndRelationships
  <2> QED
    BY <2>1, TriedNames
<1>2. CASE ~HooksAndRelationships(t, byPointer)
  <2>1. outcome \in TryGetTableName(t, registered, FALSE)
    BY <1>2 DEF SetTableFromModel
  <2> QED
    BY <2>1, TriedNames
<1> QED
  BY <1>1, <1>2

(* There is always an outcome for such a model, if only the inferred name. *)
LEMMA ModelsHaveOutcomes ==
  ASSUME NEW t \in NamedTypes, NEW byPointer \in BOOLEAN
  PROVE  SetTableFromModel(t, byPointer, registered, FALSE) # {}
BY DEF SetTableFromModel, TryGetTableName

(* The destination itself, a slice or a map or a pointer, has no name that *)
(* was registered: a pointer is waited with for ever.                      *)
LEMMA DestinationsHaveNoName ==
  ASSUME RegistryOK, NEW s \in Statements
  PROVE  ByDestination(s, registered) =
           IF s.dest \in Pointers THEN {Blocked} ELSE {Returns("")}
<1>1. /\ Unnamed.receiver = "none" /\ Unnamed.tag = "" /\ Unnamed.hooks = FALSE
      /\ Unnamed.looped = "" /\ ~HooksAndRelationships(Unnamed, FALSE)
  BY DEF Unnamed, HooksAndRelationships
<1>2. Matching(Unnamed, registered) = {}
  BY UnnamedMatchesNone
<1>3. CASE s.dest \in Pointers
  BY <1>1, <1>3 DEF ByDestination, SetTableFromModel, TryGetTableName
<1>4. CASE s.dest \notin Pointers
  BY <1>1, <1>2, <1>4 DEF ByDestination, SetTableFromModel, TryGetTableName
<1> QED
  BY <1>3, <1>4

OnlySliceBlocks(s, outcome) ==
  outcome.end = "blocked" =>
    s.dest = "ptr_slice" /\ ~s.model /\ Cardinality(DOMAIN registered) # 1

LEMMA EnsureTableSetOutcomes ==
  ASSUME RegistryOK, NEW s \in Statements, NEW outcome \in EnsureTableSet(s, registered)
  PROVE  /\ outcome \in Outcomes
         /\ outcome.end # "returns" => outcome.table = ""
         /\ OnlySliceBlocks(s, outcome)
<1>1. s.type \in NamedTypes /\ s.dest \in Dests /\ s.model \in BOOLEAN
      /\ s.type.own \in STRING
  BY ResolverCallbacksAssumption, NamesAreNames DEF Types
<1>2. \A name \in TableNamesOrNone : Returns(name) \in Outcomes /\ Returns(name).end = "returns"
  BY DEF Returns, Outcomes, Ends
<1>3. \A n \in DOMAIN registered : n \in STRING
  BY RegisteredAreNames
<1>4. CASE s.dest \in {"ptr", "value"} /\ s.type.receiver = "value"
  BY <1>1, <1>2, <1>4 DEF EnsureTableSet, OnlySliceBlocks, TableNamesOrNone
<1>5. CASE /\ ~(s.dest \in {"ptr", "value"} /\ s.type.receiver = "value")
           /\ Cardinality(DOMAIN registered) = 1 \/ s.dest \in Maps
  BY <1>2, <1>3, <1>5 DEF EnsureTableSet, OnlySliceBlocks, TableNamesOrNone
<1>6. CASE /\ ~(s.dest \in {"ptr", "value"} /\ s.type.receiver = "value")
           /\ ~(Cardinality(DOMAIN registered) = 1 \/ s.dest \in Maps)
  <2>1. CASE s.model \/ s.dest \in {"ptr", "value"}
    <3>1. PICK byPointer \in BOOLEAN :
            ByModel(s, registered) = SetTableFromModel(s.type, byPointer, registered, FALSE)
      BY <2>1 DEF ByModel
    <3>2. Returns("") \notin ByModel(s, registered)
      BY <1>1, <3>1, ModelsAreNamed
    <3>3. outcome \in SetTableFromModel(s.type, byPointer, registered, FALSE)
      BY <1>6, <3>1, <3>2 DEF EnsureTableSet
    <3> QED
      BY <1>1, <3>3, ModelsAreNamed DEF OnlySliceBlocks
  <2>2. CASE ~s.model /\ s.dest \notin {"ptr", "value"}
    <3>1. ByModel(s, registered) = {Returns("")}
      BY <2>2 DEF ByModel
    <3>2. CASE s.dest \in Pointers
      <4>1. ByDestination(s, registered) = {Blocked} /\ Blocked # Returns("")
        BY <3>2, DestinationsHaveNoName DEF Blocked, Returns
      <4>2. outcome = Blocked
        BY <1>6, <3>1, <4>1 DEF EnsureTableSet
      <4>3. s.dest = "ptr_slice"
        BY <1>6, <2>2, <3>2 DEF Pointers, Maps
      <4>4. outcome \in Outcomes /\ outcome.table = ""
        BY <4>2, EndsAreOutcomes
      <4> QED
        BY <1>6, <2>2, <4>3, <4>4 DEF OnlySliceBlocks
    <3>3. CASE s.dest \notin Pointers
      <4>1. ByDestination(s, registered) = {Returns("")}
        BY <3>3, DestinationsHaveNoName
      <4>2. outcome \in ByElement(s, registered)
        BY <1>6, <3>1, <4>1 DEF EnsureTableSet
      <4>3. CASE outcome = Returns("")
        BY <4>3, EndsAreOutcomes DEF OnlySliceBlocks
      <4>4. CASE outcome # Returns("")
        <5>1. PICK byPointer \in BOOLEAN :
                outcome \in SetTableFromModel(s.type, byPointer, registered, FALSE)
          BY <4>2, <4>4 DEF ByElement
        <5> QED
          BY <1>1, <5>1, ModelsAreNamed DEF OnlySliceBlocks
      <4> QED
        BY <4>3, <4>4
    <3> QED
      BY <3>2, <3>3
  <2> QED
    BY <2>1, <2>2
<1> QED
  BY <1>4, <1>5, <1>6

(* Any callback: the context's own names a pointer to a named type, and    *)
(* only that of a slice by pointer waits for ever.                         *)
LEMMA ResolveOutcomes ==
  ASSUME RegistryOK, NEW s \in Statements, NEW what \in CallbackNames,
         NEW outcome \in Resolve(what, s)
  PROVE  /\ outcome \in Outcomes
         /\ outcome.end # "returns" => outcome.table = ""
         /\ OnlySliceBlocks(s, outcome)
         /\ outcome.end = "blocked" => what \notin {"auto", "table_resolver"}
         /\ what = "auto" /\ s.dest = "ptr" => outcome = Returns(GormTable(s.type))
<1>1. /\ s.type \in NamedTypes /\ s.dest \in Dests /\ s.model \in BOOLEAN
      /\ s.type \in Types
  BY ResolverCallbacksAssumption, NamesAreNames
<1>2. s.type.own \in STRING /\ s.type.plural \in STRING /\ s.type.singular \in STRING
      /\ s.type.receiver \in {"none", "value", "pointer"}
  BY <1>1 DEF Types
<1>3. \A name \in TableNamesOrNone : Returns(name) \in Outcomes /\ Returns(name).end = "returns"
  BY DEF Returns, Outcomes, Ends
<1>4. \A n \in DOMAIN registered : n \in STRING
  BY RegisteredAreNames
<1>5. CASE what = "auto"
  <2>1. outcome = Returns(EnsureTableIsSet(s)) /\ EnsureTableIsSet(s) \in TableNamesOrNone
    <3>1. Resolve(what, s) = {Returns(EnsureTableIsSet(s))}
      BY <1>5 DEF Resolve
    <3>2. EnsureTableIsSet(s) \in {s.type.own, s.type.plural, ""}
      BY DEF EnsureTableIsSet
    <3> QED
      BY <1>2, <3>1, <3>2 DEF TableNamesOrNone
  <2>2. s.dest = "ptr" => EnsureTableIsSet(s) = GormTable(s.type)
    BY <1>2 DEF EnsureTableIsSet, GormTable, ExtractTableName, HasMethod
  <2> QED
    BY <1>3, <1>5, <2>1, <2>2 DEF OnlySliceBlocks
<1>6. CASE what \in {"ensure_table", "query_table_fix"}
  <2>1. outcome \in EnsureTableSet(s, registered)
    BY <1>6 DEF Resolve
  <2> QED
    BY <1>6, <2>1, EnsureTableSetOutcomes
<1>7. CASE what = "complex_table_fix"
  <2>1. \E name \in TableNamesOrNone : outcome = Returns(name)
    <3>1. outcome \in EnsureComplexTable(s, registered)
      BY <1>7 DEF Resolve
    <3>2. outcome \in {Returns(name) : name \in {"", s.type.own, s.type.plural} \cup DOMAIN registered}
      BY <3>1 DEF EnsureComplexTable, Matching
    <3>3. \A name \in {"", s.type.own, s.type.plural} \cup DOMAIN registered : name \in TableNamesOrNone
      BY <1>2, <1>4 DEF TableNamesOrNone
    <3> QED
      BY <3>2, <3>3
  <2> QED
    BY <1>3, <1>7, <2>1 DEF OnlySliceBlocks
<1>8. CASE what = "create_table_resolver"
  <2>1. \E name \in TableNamesOrNone : outcome = Returns(name)
    <3>1. outcome \in CreateTableResolver(s, registered)
      BY <1>8 DEF Resolve
    <3>2. CASE s.dest \in {"ptr", "value"}
      BY <1>2, <3>1, <3>2 DEF CreateTableResolver, TableNamesOrNone
    <3>3. CASE s.dest \notin {"ptr", "value"}
      <4>1. Unnamed.receiver = "none" /\ Unnamed.plural = "" /\ Unnamed.singular = ""
        BY DEF Unnamed
      <4>2. outcome = Returns("")
        BY <3>1, <3>3, <4>1 DEF CreateTableResolver
      <4> QED
        BY <4>2 DEF TableNamesOrNone
    <3> QED
      BY <3>2, <3>3
  <2> QED
    BY <1>3, <1>8, <2>1 DEF OnlySliceBlocks
<1>9. CASE what = "table_resolver"
  <2>1. \E name \in TableNamesOrNone : outcome = Returns(name)
    <3>1. outcome \in TableResolver(s)
      BY <1>9 DEF Resolve
    <3>2. outcome \in {Returns(s.type.own), Returns("")}
      BY <3>1 DEF TableResolver
    <3> QED
      BY <1>2, <3>2 DEF TableNamesOrNone
  <2> QED
    BY <1>3, <1>9, <2>1 DEF OnlySliceBlocks
<1> QED
  BY <1>5, <1>6, <1>7, <1>8, <1>9 DEF CallbackNames
------------------------------------------------------------------------------
(* The calls a routine may be in, and how far it has come with one.        *)

Callbacks == [what : CallbackNames, of : Nat]

ComplexFix(h) == Register(<<>>, <<"complex_table_fix">>, h)
QueryFix(h) == Register(<<"query_table_fix">>, <<>>, h)
Ensures(h) == Register(<<"ensure_table">>, <<"ensure_table">>, h)
Creates(h) == Register(<<>>, <<"create_table_resolver">>, h)
Resolves(h) == Register(<<>>, <<"table_resolver">>, h)

SetsUp(h) ==
  {<<CallsDB, ComplexFix(h), CallsDB, QueryFix(h)>>, <<ComplexFix(h), CallsDB, QueryFix(h)>>,
   <<CallsDB, QueryFix(h)>>, <<QueryFix(h)>>}

Starts(h) ==
  {<<CallsDB, Wraps(h)>>, <<CallsDB, Wraps(h), Resolves(h)>>, <<Wraps(h)>>, <<Wraps(h), Resolves(h)>>}

Removing(callbacks, h) ==
  {<<Removal(callbacks, h), Ensures(h), Creates(h)>>,
   <<Removal(callbacks, h), Ensures(h), Creates(h), Resolves(h)>>}

Restoring(h) == {<<Ensures(h), Creates(h)>>, <<Ensures(h), Creates(h), Resolves(h)>>}

Finishing(h) == {<<Creates(h)>>, <<Creates(h), Resolves(h)>>, <<Resolves(h)>>}

(* The helper's ensure_table callbacks are being replaced, or they are not.*)
Replacing(h) ==
  Restoring(h) \cup (UNION {Removing(callbacks, h) : callbacks \in SUBSET {"ensure_table"}})
Settled(h) == SetsUp(h) \cup Starts(h) \cup Finishing(h)
Plans(h) == Replacing(h) \cup Settled(h)

NoPlan == {<<>>, <<CallsDB>>}

------------------------------------------------------------------------------
(* The invariant.                                                          *)

Executions == [end : {"running", "blocked", "endless"}, of : Statements,
               table : TableNamesOrNone, rest : Seq(Callbacks)]

StatementTypes ==
  /\ RegistryOK
  /\ IsFiniteSet(DOMAIN registered)
  /\ statement \in [Routines -> Executions \cup {NoStatement}]
  /\ mutex \in Routines \cup {"free"}

CallTypes ==
  /\ processors \in [Ops -> Seq(Callbacks)]
  /\ sessions \in 0 .. MaxSessions
  /\ helpers \subseteq 1 .. sessions
  /\ tracked \in [1 .. MaxSessions -> SUBSET CallbackNames]
  /\ DOMAIN todo = Routines
  /\ \A r \in Routines : todo[r] \in NoPlan \/ \E h \in helpers : todo[r] \in Plans(h)

(* The context's own resolver was registered first and is never removed.   *)
FirstIsAuto ==
  \A op \in Ops : Len(processors[op]) >= 1 /\ processors[op][1] = Callback("auto", 0)

(* A statement that gorm named needs no callback; one for a pointer gets   *)
(* no further than the first; and where one waits, no model is registered  *)
(* any more.                                                               *)
StatementInv(r) ==
  LET now == statement[r] IN
  now # NoStatement =>
    /\ now.of.parsed \/ now.of.dest = "ptr" => now.end = "running"
    /\ now.of.parsed => now.rest = <<>> /\ now.table = GormTable(now.of.type)
    /\ now.of.dest = "ptr" /\ now.rest = <<>> => now.table = GormTable(now.of.type)
    /\ now.of.dest = "ptr" /\ now.rest # <<>> => Head(now.rest).what = "auto"
    /\ now.end = "blocked" =>
         /\ now.of.dest = "ptr_slice" /\ ~now.of.model /\ Cardinality(DOMAIN registered) # 1
         /\ mutex # "free"

(* What a routine has read of a processor is what it once held.            *)
Sound(callbacks, last) ==
  /\ callbacks \in Seq(Callbacks)
  /\ Len(callbacks) >= 1 /\ callbacks[1] = Callback("auto", 0)
  /\ \A n \in DOMAIN callbacks : callbacks[n].of <= last

SeenInv ==
  /\ overwritten \subseteq Ops
  /\ DOMAIN seen = Routines
  /\ \A r \in Routines : DOMAIN seen[r] \subseteq Ops
                           /\ \A op \in DOMAIN seen[r] : Sound(seen[r][op], sessions)

(* The ID of the next helper has not been used.                            *)
IDsAreFresh ==
  /\ \A op \in Ops : \A n \in DOMAIN processors[op] : processors[op][n].of <= sessions
  /\ \A h \in (1 .. MaxSessions) \ helpers : tracked[h] = {}

Mine(h) == {Callback("ensure_table", h)}

(* A helper is at work in one routine, and has an ensure_table callback    *)
(* where it tracks one, but for the time it takes to replace it - on a     *)
(* processor where nothing was lost and nothing came back.                 *)
HelperInv(h) ==
  /\ \A r, other \in Routines : todo[r] \in Plans(h) /\ todo[other] \in Plans(h) => r = other
  /\ \A r \in Routines : todo[r] \in Replacing(h) => "ensure_table" \in tracked[h]
  /\ \A op \in Ops \ overwritten :
       /\ \A r \in Routines, callbacks \in SUBSET {"ensure_table"} :
            todo[r] \in Removing(callbacks, h) =>
              Count(processors[op], Mine(h)) = IF "ensure_table" \in callbacks THEN 1 ELSE 0
       /\ \A r \in Routines : todo[r] \in Restoring(h) => Count(processors[op], Mine(h)) = 0
       /\ (\A r \in Routines : todo[r] \notin Replacing(h)) =>
            Count(processors[op], Mine(h)) = IF "ensure_table" \in tracked[h] THEN 1 ELSE 0

CallInv ==
  /\ CallTypes
  /\ FirstIsAuto
  /\ IDsAreFresh
  /\ SeenInv
  /\ \A h \in helpers : HelperInv(h)

Inv ==
  /\ StatementTypes
  /\ \A r \in Routines : StatementInv(r)
  /\ CallInv
------------------------------------------------------------------------------
(* How a routine gets from one step of its call to the next.               *)

LEMMA StepFields ==
  ASSUME NEW h, NEW callbacks
  PROVE  /\ CallsDB.do = "DB" /\ CallsDB.of = 0
         /\ Wraps(h).do = "wrap" /\ Wraps(h).of = h
         /\ ComplexFix(h).do = "register" /\ ComplexFix(h).of = h
         /\ QueryFix(h).do = "register" /\ QueryFix(h).of = h
         /\ Ensures(h).do = "register" /\ Ensures(h).of = h
         /\ Creates(h).do = "register" /\ Creates(h).of = h
         /\ Resolves(h).do = "register" /\ Resolves(h).of = h
         /\ Removal(callbacks, h).do = "remove" /\ Removal(callbacks, h).of = h
BY DEF CallsDB, Wraps, ComplexFix, QueryFix, Ensures, Creates, Resolves, Removal, Register

LEMMA SettledMoves ==
  ASSUME NEW h, NEW plan \in Settled(h)
  PROVE  /\ plan # <<>> /\ plan # <<CallsDB>>
         /\ Head(plan) = CallsDB => Tail(plan) \in Settled(h)
         /\ Head(plan).do = "wrap" =>
              Head(plan).of = h /\ Tail(plan) \in {<<>>, <<Resolves(h)>>}
         /\ Head(plan).do = "register" =>
              /\ Head(plan) \in {ComplexFix(h), QueryFix(h), Creates(h), Resolves(h)}
              /\ Tail(plan) \in Settled(h) \cup {<<>>}
         /\ Head(plan).do # "remove"
         /\ Head(plan).do = "DB" => Head(plan) = CallsDB
         /\ \A n \in DOMAIN plan : plan[n].of \in {0, h}
         /\ \E n \in DOMAIN plan : plan[n].of = h
<1>1. /\ CallsDB.do = "DB" /\ CallsDB.of = 0
      /\ Wraps(h).do = "wrap" /\ Wraps(h).of = h
      /\ ComplexFix(h).do = "register" /\ ComplexFix(h).of = h
      /\ QueryFix(h).do = "register" /\ QueryFix(h).of = h
      /\ Creates(h).do = "register" /\ Creates(h).of = h
      /\ Resolves(h).do = "register" /\ Resolves(h).of = h
  BY StepFields
<1>2. CASE plan = <<CallsDB, ComplexFix(h), CallsDB, QueryFix(h)>>
  BY <1>1, <1>2 DEF Settled, SetsUp
<1>3. CASE plan = <<ComplexFix(h), CallsDB, QueryFix(h)>>
  BY <1>1, <1>3 DEF Settled, SetsUp
<1>4. CASE plan = <<CallsDB, QueryFix(h)>>
  BY <1>1, <1>4 DEF Settled, SetsUp
<1>5. CASE plan = <<QueryFix(h)>>
  BY <1>1, <1>5 DEF Settled
<1>6. CASE plan = <<CallsDB, Wraps(h)>>
  BY <1>1, <1>6 DEF Settled, Starts
<1>7. CASE plan = <<CallsDB, Wraps(h), Resolves(h)>>
  BY <1>1, <1>7 DEF Settled, Starts
<1>8. CASE plan = <<Wraps(h)>>
  BY <1>1, <1>8
<1>9. CASE plan = <<Wraps(h), Resolves(h)>>
  BY <1>1, <1>9
<1>10. CASE plan = <<Resolves(h)>>
  BY <1>1, <1>10
<1>11. CASE plan = <<Creates(h)>>
  BY <1>1, <1>11
<1>12. CASE plan = <<Creates(h), Resolves(h)>>
  BY <1>1, <1>12 DEF Settled, Finishing
<1> QED
  BY <1>2, <1>3, <1>4, <1>5, <1>6, <1>7, <1>8, <1>9, <1>10, <1>11, <1>12
     DEF Settled, SetsUp, Starts, Finishing

LEMMA SettledHeads ==
  ASSUME NEW h, NEW plan \in Settled(h)
  PROVE  Head(plan).do \in {"DB", "wrap", "register"}
<1>1. /\ CallsDB.do = "DB" /\ Wraps(h).do = "wrap" /\ ComplexFix(h).do = "register"
      /\ QueryFix(h).do = "register" /\ Creates(h).do = "register" /\ Resolves(h).do = "register"
  BY StepFields
<1>2. Head(plan) \in {CallsDB, Wraps(h), ComplexFix(h), QueryFix(h), Creates(h), Resolves(h)}
  BY DEF Settled, SetsUp, Starts, Finishing
<1> QED
  BY <1>1, <1>2

LEMMA RemovingMoves ==
  ASSUME NEW h, NEW callbacks, NEW plan \in Removing(callbacks, h)
  PROVE  /\ plan # <<>> /\ plan # <<CallsDB>>
         /\ Head(plan) = Removal(callbacks, h)
         /\ Head(plan).do = "remove"
         /\ Tail(plan) \in Restoring(h)
         /\ \A n \in DOMAIN plan : plan[n].of \in {0, h}
         /\ \E n \in DOMAIN plan : plan[n].of = h
<1>1. /\ CallsDB.do = "DB" /\ Removal(callbacks, h).do = "remove" /\ Removal(callbacks, h).of = h
      /\ Ensures(h).of = h /\ Creates(h).of = h /\ Resolves(h).of = h
  BY StepFields
<1>2. CASE plan = <<Removal(callbacks, h), Ensures(h), Creates(h)>>
  BY <1>1, <1>2 DEF Restoring
<1>3. CASE plan = <<Removal(callbacks, h), Ensures(h), Creates(h), Resolves(h)>>
  BY <1>1, <1>3 DEF Restoring
<1> QED
  BY <1>2, <1>3 DEF Removing

LEMMA RestoringMoves ==
  ASSUME NEW h, NEW plan \in Restoring(h)
  PROVE  /\ plan # <<>> /\ plan # <<CallsDB>>
         /\ Head(plan) = Ensures(h)
         /\ Head(plan).do = "register"
         /\ Tail(plan) \in {<<Creates(h)>>, <<Creates(h), Resolves(h)>>} /\ Tail(plan) \in Settled(h)
         /\ \A n \in DOMAIN plan : plan[n].of \in {0, h}
         /\ \E n \in DOMAIN plan : plan[n].of = h
<1>1. /\ CallsDB.do = "DB" /\ Ensures(h).do = "register" /\ Ensures(h).of = h
      /\ Creates(h).of = h /\ Resolves(h).of = h
  BY StepFields
<1>2. CASE plan = <<Ensures(h), Creates(h)>>
  BY <1>1, <1>2 DEF Settled, Finishing
<1>3. CASE plan = <<Ensures(h), Creates(h), Resolves(h)>>
  BY <1>1, <1>3 DEF Settled, Finishing
<1> QED
  BY <1>2, <1>3 DEF Restoring

LEMMA ReplacingCases ==
  ASSUME NEW h, NEW plan
  PROVE  plan \in Replacing(h) <=>
           \/ plan \in Restoring(h)
           \/ \E callbacks \in SUBSET {"ensure_table"} : plan \in Removing(callbacks, h)
BY DEF Replacing

(* A plan is settled, or removes, or restores, and only one of these; and  *)
(* it is the plan of one helper.                                           *)
LEMMA PlanCases ==
  ASSUME NEW h, NEW plan \in Plans(h)
  PROVE  \/ plan \in Settled(h) /\ plan \notin Replacing(h)
         \/ /\ plan \in Restoring(h) /\ plan \in Replacing(h)
            /\ \A callbacks : plan \notin Removing(callbacks, h)
         \/ /\ plan \in Replacing(h) /\ plan \notin Restoring(h)
            /\ \E callbacks \in SUBSET {"ensure_table"} : plan \in Removing(callbacks, h)
<1>1. CASE \E callbacks \in SUBSET {"ensure_table"} : plan \in Removing(callbacks, h)
  <2>1. Head(plan).do = "remove"
    BY <1>1, RemovingMoves
  <2>2. plan \notin Restoring(h)
    BY <2>1, RestoringMoves
  <2> QED
    BY <1>1, <2>2, ReplacingCases
<1>2. CASE plan \in Restoring(h)
  <2>1. Head(plan).do = "register"
    BY <1>2, RestoringMoves
  <2>2. \A callbacks : plan \notin Removing(callbacks, h)
    BY <2>1, RemovingMoves
  <2> QED
    BY <1>2, <2>2, ReplacingCases
<1>3. CASE plan \notin Replacing(h)
  BY <1>3 DEF Plans
<1> QED
  BY <1>1, <1>2, <1>3, ReplacingCases

(* Only Ensures registers an ensure_table callback, and on each processor. *)
LEMMA OtherSteps ==
  ASSUME NEW h
  PROVE  \A step \in {ComplexFix(h), QueryFix(h), Creates(h), Resolves(h)} : step # Ensures(h)
<1>1. Len(Ensures(h).query) = 1 /\ Len(Ensures(h).create) = 1
  BY DEF Ensures, Register
<1>2. /\ Len(ComplexFix(h).query) = 0 /\ Len(Creates(h).query) = 0 /\ Len(Resolves(h).query) = 0
      /\ Len(QueryFix(h).create) = 0
  BY DEF ComplexFix, QueryFix, Creates, Resolves, Register
<1>0. 0 # 1
  OBVIOUS
<1>3. ComplexFix(h) # Ensures(h)
  BY <1>0, <1>1, <1>2, Zenon
<1>4. QueryFix(h) # Ensures(h)
  BY <1>0, <1>1, <1>2, Zenon
<1>5. Creates(h) # Ensures(h)
  BY <1>0, <1>1, <1>2, Zenon
<1>6. Resolves(h) # Ensures(h)
  BY <1>0, <1>1, <1>2, Zenon
<1> QED
  BY <1>3, <1>4, <1>5, <1>6

LEMMA SettledIsNotReplacing ==
  ASSUME NEW h, NEW plan \in Settled(h)
  PROVE  plan \notin Replacing(h) /\ plan \in Plans(h)
<1>1. Head(plan).do # "remove"
  BY SettledMoves
<1>2. Head(plan).do = "register" => Head(plan) # Ensures(h)
  <2>1. \A step \in {ComplexFix(h), QueryFix(h), Creates(h), Resolves(h)} : step # Ensures(h)
    BY OtherSteps
  <2> QED
    BY <2>1, SettledMoves
<1>3. plan \notin Restoring(h)
  BY <1>2, RestoringMoves
<1>4. \A callbacks : plan \notin Removing(callbacks, h)
  BY <1>1, RemovingMoves
<1> QED
  BY <1>3, <1>4, ReplacingCases DEF Plans

LEMMA PlansNameTheHelper ==
  ASSUME NEW h, NEW plan \in Plans(h)
  PROVE  /\ plan \notin NoPlan
         /\ \A n \in DOMAIN plan : plan[n].of \in {0, h}
         /\ \E n \in DOMAIN plan : plan[n].of = h
BY PlanCases, SettledMoves, RestoringMoves, RemovingMoves DEF NoPlan

LEMMA PlansAreOfOneHelper ==
  ASSUME NEW h \in Nat \ {0}, NEW other \in Nat \ {0}, NEW plan \in Plans(h), plan \in Plans(other)
  PROVE  h = other
BY PlansNameTheHelper

LEMMA NoPlanMoves ==
  ASSUME NEW plan \in NoPlan, plan # <<>>
  PROVE  Head(plan) = CallsDB /\ Head(plan).do = "DB" /\ Tail(plan) = <<>>
<1>1. plan = <<CallsDB>>
  BY DEF NoPlan
<1>2. Head(<<CallsDB>>) = CallsDB /\ Tail(<<CallsDB>>) = <<>> /\ CallsDB.do = "DB"
  BY DEF CallsDB
<1> QED
  BY <1>1, <1>2
------------------------------------------------------------------------------
(* How the processors change.                                              *)

LEMMA NamesToRegister ==
  /\ <<>> \in Seq(CallbackNames) /\ Count(<<>>, {"ensure_table"}) = 0
  /\ <<"complex_table_fix">> \in Seq(CallbackNames)
  /\ Count(<<"complex_table_fix">>, {"ensure_table"}) = 0
  /\ <<"query_table_fix">> \in Seq(CallbackNames)
  /\ Count(<<"query_table_fix">>, {"ensure_table"}) = 0
  /\ <<"table_resolver">> \in Seq(CallbackNames)
  /\ Count(<<"table_resolver">>, {"ensure_table"}) = 0
  /\ <<"ensure_table">> \in Seq(CallbackNames)
  /\ Count(<<"ensure_table">>, {"ensure_table"}) = 1
  /\ <<"create_table_resolver">> \in Seq(CallbackNames)
  /\ Count(<<"create_table_resolver">>, {"ensure_table"}) = 0
<1>1. Count(<<>>, {"ensure_table"}) = 0
  <2>1. Where(<<>>, {"ensure_table"}) = {}
    BY DEF Where
  <2> QED
    BY <2>1, FS_EmptySet DEF Count
<1>3. /\ Count(<<"complex_table_fix">>, {"ensure_table"}) = 0
      /\ Count(<<"query_table_fix">>, {"ensure_table"}) = 0
      /\ Count(<<"table_resolver">>, {"ensure_table"}) = 0
      /\ Count(<<"create_table_resolver">>, {"ensure_table"}) = 0
      /\ Count(<<"ensure_table">>, {"ensure_table"}) = 1
  BY CountOne
<1>4. /\ <<>> \in Seq(CallbackNames) /\ <<"complex_table_fix">> \in Seq(CallbackNames)
      /\ <<"query_table_fix">> \in Seq(CallbackNames) /\ <<"table_resolver">> \in Seq(CallbackNames)
      /\ <<"ensure_table">> \in Seq(CallbackNames)
      /\ <<"create_table_resolver">> \in Seq(CallbackNames)
  BY DEF CallbackNames
<1> QED
  BY <1>1, <1>3, <1>4

(* What registering these names for a helper makes of a processor.         *)
Grown(old, new, names, of) ==
  /\ new \in Seq(Callbacks)
  /\ Len(old) >= 1 => Len(new) >= 1 /\ new[1] = old[1]
  /\ \A n \in DOMAIN new : new[n].of = of \/ \E m \in DOMAIN old : new[n] = old[m]
  /\ \A m \in DOMAIN old : \E n \in DOMAIN new : new[n] = old[m]
  /\ \A h \in Nat : Count(new, Mine(h)) =
       Count(old, Mine(h)) + (IF h = of THEN Count(names, {"ensure_table"}) ELSE 0)

(* Callbacks are registered behind those there are.                        *)
LEMMA Adding ==
  ASSUME NEW names \in Seq(CallbackNames), NEW of \in Nat, NEW old \in Seq(Callbacks),
         NEW new, new = old \o [n \in DOMAIN names |-> Callback(names[n], of)]
  PROVE  Grown(old, new, names, of)
<1> DEFINE added == [n \in DOMAIN names |-> Callback(names[n], of)]
<1>1. /\ DOMAIN names = 1 .. Len(names) /\ Len(names) \in Nat
      /\ \A n \in DOMAIN names : names[n] \in CallbackNames
  BY LenProperties, ElementOfSeq
<1>2. \A n \in DOMAIN names : Callback(names[n], of) \in Callbacks
  BY <1>1 DEF Callback, Callbacks
<1>3. added \in [1 .. Len(names) -> Callbacks] /\ Len(names) \in Nat
  BY <1>1, <1>2
<1>4. added \in Seq(Callbacks)
  BY <1>3, SeqDef
<1>5. DOMAIN added = DOMAIN names /\ \A n \in DOMAIN names : added[n] = Callback(names[n], of)
  OBVIOUS
<1> HIDE DEF added
<1>6. Len(added) = Len(names)
  BY <1>1, <1>3, <1>4, <1>5, LenProperties
<1>7. new = old \o added
  BY DEF added
<1>8. /\ new \in Seq(Callbacks)
      /\ Len(new) = Len(old) + Len(added)
      /\ \A n \in 1 .. Len(old) + Len(added) : new[n] =
           IF n <= Len(old) THEN old[n] ELSE added[n - Len(old)]
  BY <1>4, <1>7, ConcatProperties
<1>9. /\ Len(old) \in Nat /\ DOMAIN old = 1 .. Len(old)
      /\ DOMAIN new = 1 .. Len(old) + Len(added)
      /\ Len(added) \in Nat /\ DOMAIN added = 1 .. Len(added)
  BY <1>4, <1>8, LenProperties
<1>10. Len(old) >= 1 => Len(new) >= 1 /\ new[1] = old[1]
  BY <1>8, <1>9
<1>11. ASSUME NEW n \in DOMAIN new
       PROVE  new[n].of = of \/ \E m \in DOMAIN old : new[n] = old[m]
  <2>1. CASE n <= Len(old)
    BY <1>8, <1>9, <2>1
  <2>2. CASE ~(n <= Len(old))
    <3>1. n - Len(old) \in DOMAIN added /\ new[n] = added[n - Len(old)]
      BY <1>8, <1>9, <2>2
    <3>2. \A k \in DOMAIN added : added[k].of = of
      BY <1>5 DEF Callback
    <3> QED
      BY <3>1, <3>2
  <2> QED
    BY <2>1, <2>2
<1>12. \A m \in DOMAIN old : m \in DOMAIN new /\ new[m] = old[m]
  BY <1>8, <1>9
<1>13. ASSUME NEW h \in Nat
       PROVE  Count(added, Mine(h)) = IF h = of THEN Count(names, {"ensure_table"}) ELSE 0
  <2>1. \A n \in DOMAIN names :
          added[n] \in Mine(h) <=> names[n] \in {"ensure_table"} /\ h = of
    BY <1>5 DEF Mine, Callback
  <2>2. CASE h = of
    <3>1. Where(added, Mine(h)) = Where(names, {"ensure_table"})
      BY <1>5, <2>1, <2>2 DEF Where
    <3> QED
      BY <2>2, <3>1 DEF Count
  <2>3. CASE h # of
    <3>1. Where(added, Mine(h)) = {}
      BY <1>5, <2>1, <2>3 DEF Where
    <3> QED
      BY <2>3, <3>1, FS_EmptySet DEF Count
  <2> QED
    BY <2>2, <2>3
<1>14. \A h \in Nat : Count(new, Mine(h)) = Count(old, Mine(h)) + Count(added, Mine(h))
  <2>1. \A M : Count(old \o added, M) = Count(old, M) + Count(added, M)
    BY <1>4, CountConcat
  <2> QED
    BY <1>7, <2>1
<1>15. \A h \in Nat : Count(new, Mine(h)) =
         Count(old, Mine(h)) + (IF h = of THEN Count(names, {"ensure_table"}) ELSE 0)
  BY <1>13, <1>14
<1> QED
  BY <1>8, <1>10, <1>11, <1>12, <1>15 DEF Grown

LEMMA GrownByNothing ==
  ASSUME NEW of \in Nat, NEW old \in Seq(Callbacks)
  PROVE  Grown(old, old, <<>>, of)
<1>1. \A M : Count(old, M) \in Nat
  BY CountType
<1> QED
  BY <1>1, NamesToRegister DEF Grown

(* What removing these callbacks of a helper makes of a processor.         *)
Shrunk(old, new, callbacks, h) ==
  /\ new \in Seq(Callbacks)
  /\ Len(old) >= 1 /\ old[1] = Callback("auto", 0) => Len(new) >= 1 /\ new[1] = old[1]
  /\ \A n \in DOMAIN new : \E m \in DOMAIN old : new[n] = old[m]
  /\ \A m \in DOMAIN old : old[m].of # h => \E n \in DOMAIN new : new[n] = old[m]
  /\ \A other \in Nat : Count(new, Mine(other)) =
       IF other = h /\ "ensure_table" \in callbacks THEN 0 ELSE Count(old, Mine(other))

(* Those of one helper are removed; what is left is what there was.        *)
LEMMA RemovingKeeps ==
  ASSUME NEW old \in Seq(Callbacks), NEW h \in Nat, NEW callbacks \in SUBSET {"ensure_table"},
         NEW new,
         new = Keeping(old, {n \in DOMAIN old : ~Names(Removal(callbacks, h), old[n])})
  PROVE  Shrunk(old, new, callbacks, h)
<1> DEFINE positions == {n \in DOMAIN old : ~Names(Removal(callbacks, h), old[n])}
<1>1. positions \in SUBSET DOMAIN old /\ new = Keeping(old, positions)
  OBVIOUS
<1>2. \A n \in DOMAIN old : n \in positions <=> ~(old[n].what \in callbacks /\ old[n].of = h)
  BY DEF Names, Removal
<1> HIDE DEF positions
<1>3. /\ new \in Seq(Callbacks)
      /\ \A c : (\E m \in DOMAIN new : new[m] = c) <=> (\E n \in positions : old[n] = c)
      /\ \A M : Count(new, M) = Cardinality({n \in positions : old[n] \in M})
      /\ 1 \in positions => Len(new) >= 1 /\ new[1] = old[1]
  <2>1. positions \in SUBSET DOMAIN old /\ new = Keeping(old, positions)
    BY <1>1
  <2>2. new \in Seq(Callbacks) /\ HasKept(new, old, positions)
    BY <2>1, KeepingKeeps
  <2> QED
    BY <2>2 DEF HasKept
<1>4. ASSUME Len(old) >= 1, old[1] = Callback("auto", 0)
      PROVE  1 \in positions
  <2>1. 1 \in DOMAIN old
    BY <1>4, LenProperties
  <2>2. old[1].what = "auto"
    BY <1>4 DEF Callback
  <2> QED
    BY <1>2, <2>1, <2>2
<1>5. ASSUME NEW other \in Nat
      PROVE  Count(new, Mine(other)) =
               IF other = h /\ "ensure_table" \in callbacks THEN 0 ELSE Count(old, Mine(other))
  <2>1. \A n \in DOMAIN old : old[n] \in Mine(other) => old[n].what = "ensure_table" /\ old[n].of = other
    BY DEF Mine, Callback
  <2>2. CASE other = h /\ "ensure_table" \in callbacks
    <3>1. {n \in positions : old[n] \in Mine(other)} = {}
      BY <1>1, <1>2, <2>1, <2>2
    <3> QED
      BY <1>3, <2>2, <3>1, FS_EmptySet
  <2>3. CASE ~(other = h /\ "ensure_table" \in callbacks)
    <3>1. {n \in positions : old[n] \in Mine(other)} = Where(old, Mine(other))
      BY <1>1, <1>2, <2>1, <2>3 DEF Where
    <3> QED
      BY <1>3, <2>3, <3>1 DEF Count
  <2> QED
    BY <2>2, <2>3
<1>6. \A n \in DOMAIN new : \E m \in DOMAIN old : new[n] = old[m]
  BY <1>1, <1>3
<1>7. ASSUME NEW m \in DOMAIN old, old[m].of # h
      PROVE  \E n \in DOMAIN new : new[n] = old[m]
  BY <1>2, <1>3, <1>7
<1> QED
  BY <1>3, <1>4, <1>5, <1>6, <1>7 DEF Shrunk
------------------------------------------------------------------------------
(* The steps of a call.                                                    *)

LEMMA NothingBefore ==
  ASSUME NEW h, NEW plan \in Settled(h) \cup Restoring(h) \cup {<<>>}
  PROVE  <<>> \o plan = plan
<1>1. CASE plan \in SetsUp(h)
  BY <1>1 DEF SetsUp
<1>2. CASE plan \in Starts(h)
  BY <1>2 DEF Starts
<1>3. CASE plan \in Finishing(h) \cup {<<>>}
  BY <1>3 DEF Finishing
<1>4. CASE plan \in Restoring(h)
  BY <1>4 DEF Restoring
<1> QED
  BY <1>1, <1>2, <1>3, <1>4 DEF Settled

LEMMA ThreeAndMore ==
  ASSUME NEW a, NEW b, NEW c, NEW d
  PROVE  <<a, b, c>> \o <<>> = <<a, b, c>> /\ <<a, b, c>> \o <<d>> = <<a, b, c, d>>
<1> DEFINE S == {a, b, c, d}
           s == <<a, b, c>>
           t == <<d>>
           u == <<a, b, c, d>>
<1>1. /\ s \in Seq(S) /\ Len(s) = 3 /\ s[1] = a /\ s[2] = b /\ s[3] = c
      /\ t \in Seq(S) /\ Len(t) = 1 /\ t[1] = d
      /\ u \in Seq(S) /\ Len(u) = 4 /\ u[1] = a /\ u[2] = b /\ u[3] = c /\ u[4] = d
  OBVIOUS
<1>2. <<a, b, c>> \o <<>> = <<a, b, c>>
  OBVIOUS
<1> HIDE DEF S, s, t, u
<1>3. /\ s \o t \in Seq(S)
      /\ Len(s \o t) = Len(s) + Len(t)
      /\ \A i \in 1 .. Len(s) + Len(t) : (s \o t)[i] = IF i <= Len(s) THEN s[i] ELSE t[i - Len(s)]
  BY <1>1, ConcatProperties
<1>4. Len(s \o t) = 4 /\ (s \o t)[1] = a /\ (s \o t)[2] = b /\ (s \o t)[3] = c
  BY <1>1, <1>3
<1>5. (s \o t)[4] = t[4 - 3]
  BY <1>1, <1>3
<1>6. \A i \in 1 .. 4 : (s \o t)[i] = u[i]
  BY <1>1, <1>4, <1>5
<1>7. s \o t = u
  BY <1>1, <1>3, <1>4, <1>6, SeqEqual
<1> QED
  BY <1>2, <1>7 DEF s, t, u

(* The next step of a routine, and what is left after it.                  *)
Ahead(r, next) ==
  \/ todo[r] = <<CallsDB>> /\ next = <<>> /\ Head(todo[r]) = CallsDB /\ Head(todo[r]).do = "DB"
  \/ \E h \in helpers :
       \/ /\ todo[r] \in Settled(h) /\ next \in Settled(h)
          /\ Head(todo[r]) = CallsDB /\ Head(todo[r]).do = "DB"
       \/ /\ todo[r] \in Settled(h) /\ next \in {<<>>, <<Resolves(h)>>}
          /\ Head(todo[r]).do = "wrap" /\ Head(todo[r]).of = h
       \/ /\ todo[r] \in Settled(h) /\ next \in Settled(h) \cup {<<>>}
          /\ Head(todo[r]) \in {ComplexFix(h), QueryFix(h), Creates(h), Resolves(h)}
          /\ Head(todo[r]).do = "register"
       \/ /\ todo[r] \in Restoring(h) /\ next \in Settled(h)
          /\ Head(todo[r]) = Ensures(h) /\ Head(todo[r]).do = "register"
       \/ \E callbacks \in SUBSET {"ensure_table"} :
            /\ todo[r] \in Removing(callbacks, h) /\ next \in Restoring(h)
            /\ Head(todo[r]) = Removal(callbacks, h) /\ Head(todo[r]).do = "remove"

LEMMA StepsAhead ==
  ASSUME CallTypes, NEW r \in Routines, todo[r] # <<>>
  PROVE  Ahead(r, Tail(todo[r])) /\ <<>> \o Tail(todo[r]) = Tail(todo[r])
<1>1. CASE todo[r] \in NoPlan
  <2>1. Tail(todo[r]) = <<>> /\ todo[r] = <<CallsDB>> /\ Head(todo[r]) = CallsDB /\ Head(todo[r]).do = "DB"
    BY <1>1, NoPlanMoves DEF NoPlan
  <2> QED
    BY <2>1 DEF Ahead
<1>2. CASE todo[r] \notin NoPlan
  <2>1. PICK h \in helpers : todo[r] \in Plans(h)
    BY <1>2 DEF CallTypes
  <2>2. <<Resolves(h)>> \in Settled(h)
    BY DEF Settled, Finishing
  <2>3. CASE todo[r] \in Settled(h)
    <3>1. /\ Head(todo[r]) = CallsDB => Tail(todo[r]) \in Settled(h)
          /\ Head(todo[r]).do = "wrap" =>
               Head(todo[r]).of = h /\ Tail(todo[r]) \in {<<>>, <<Resolves(h)>>}
          /\ Head(todo[r]).do = "register" =>
               /\ Head(todo[r]) \in {ComplexFix(h), QueryFix(h), Creates(h), Resolves(h)}
               /\ Tail(todo[r]) \in Settled(h) \cup {<<>>}
          /\ Head(todo[r]).do = "DB" => Head(todo[r]) = CallsDB
      BY <2>3, SettledMoves
    <3>2. Head(todo[r]).do \in {"DB", "wrap", "register"}
      BY <2>3, SettledHeads
    <3>3. Tail(todo[r]) \in Settled(h) \cup {<<>>}
      BY <2>2, <3>1, <3>2
    <3>4. <<>> \o Tail(todo[r]) = Tail(todo[r])
      BY <3>3, NothingBefore
    <3>5. Ahead(r, Tail(todo[r]))
      BY <2>3, <3>1, <3>2 DEF Ahead
    <3> QED
      BY <3>4, <3>5
  <2>4. CASE todo[r] \in Restoring(h)
    <3>1. /\ Head(todo[r]) = Ensures(h) /\ Head(todo[r]).do = "register"
          /\ Tail(todo[r]) \in Settled(h)
      BY <2>4, RestoringMoves
    <3>2. <<>> \o Tail(todo[r]) = Tail(todo[r])
      BY <3>1, NothingBefore
    <3> QED
      BY <2>4, <3>1, <3>2 DEF Ahead
  <2>5. CASE \E callbacks \in SUBSET {"ensure_table"} : todo[r] \in Removing(callbacks, h)
    <3>1. PICK callbacks \in SUBSET {"ensure_table"} : todo[r] \in Removing(callbacks, h)
      BY <2>5
    <3>2. /\ Head(todo[r]) = Removal(callbacks, h) /\ Head(todo[r]).do = "remove"
          /\ Tail(todo[r]) \in Restoring(h)
      BY <3>1, RemovingMoves
    <3>3. <<>> \o Tail(todo[r]) = Tail(todo[r])
      BY <3>2, NothingBefore
    <3> QED
      BY <3>1, <3>2, <3>3 DEF Ahead
  <2> QED
    BY <2>1, <2>3, <2>4, <2>5, PlanCases
<1> QED
  BY <1>1, <1>2

------------------------------------------------------------------------------
(* What a step leaves of a helper's affairs.                               *)

(* The routine has not begun, ended or left the replacing of h's callbacks *)
(* and has not taken up work for h.                                        *)
Undisturbed(h, old, new) ==
  \/ new = old
  \/ old \notin Replacing(h) /\ new \notin Plans(h)
  \/ old \in Settled(h) /\ new \in Settled(h)

LEMMA HelperUntouched ==
  ASSUME NEW h, HelperInv(h), "ensure_table" \in tracked'[h] <=> "ensure_table" \in tracked[h],
         overwritten \subseteq overwritten',
         \A op \in Ops \ overwritten' : Count(processors'[op], Mine(h)) = Count(processors[op], Mine(h)),
         \A r \in Routines : Undisturbed(h, todo[r], todo'[r])
  PROVE  HelperInv(h)'
<1>1. ASSUME NEW r \in Routines
      PROVE  /\ todo'[r] \in Plans(h) => todo[r] \in Plans(h)
             /\ todo'[r] \in Replacing(h) => todo'[r] = todo[r]
             /\ todo[r] \in Replacing(h) => todo'[r] = todo[r]
  <2>1. /\ todo[r] \in Settled(h) => todo[r] \in Plans(h) /\ todo[r] \notin Replacing(h)
        /\ todo'[r] \in Settled(h) => todo'[r] \in Plans(h) /\ todo'[r] \notin Replacing(h)
    BY SettledIsNotReplacing
  <2>2. /\ todo[r] \in Replacing(h) => todo[r] \in Plans(h)
        /\ todo'[r] \in Replacing(h) => todo'[r] \in Plans(h)
    BY DEF Plans
  <2> QED
    BY <2>1, <2>2 DEF Undisturbed
<1>2. /\ \A r \in Routines : todo'[r] \in Restoring(h) => todo'[r] \in Replacing(h)
      /\ \A r \in Routines, callbacks \in SUBSET {"ensure_table"} :
           todo'[r] \in Removing(callbacks, h) => todo'[r] \in Replacing(h)
  BY ReplacingCases
<1>3. \A r, other \in Routines : todo'[r] \in Plans(h) /\ todo'[other] \in Plans(h) => r = other
  BY <1>1 DEF HelperInv
<1>4. \A r \in Routines : todo'[r] \in Replacing(h) => "ensure_table" \in tracked'[h]
  BY <1>1 DEF HelperInv
<1>5. ASSUME NEW op \in Ops \ overwritten', NEW r \in Routines, NEW callbacks \in SUBSET {"ensure_table"},
             todo'[r] \in Removing(callbacks, h)
      PROVE  Count(processors'[op], Mine(h)) = IF "ensure_table" \in callbacks THEN 1 ELSE 0
  BY <1>1, <1>2, <1>5 DEF HelperInv
<1>6. ASSUME NEW op \in Ops \ overwritten', NEW r \in Routines, todo'[r] \in Restoring(h)
      PROVE  Count(processors'[op], Mine(h)) = 0
  BY <1>1, <1>2, <1>6 DEF HelperInv
<1>7. ASSUME NEW op \in Ops \ overwritten', \A r \in Routines : todo'[r] \notin Replacing(h)
      PROVE  Count(processors'[op], Mine(h)) = IF "ensure_table" \in tracked'[h] THEN 1 ELSE 0
  BY <1>1, <1>7 DEF HelperInv
<1> QED
  BY <1>3, <1>4, <1>5, <1>6, <1>7 DEF HelperInv
------------------------------------------------------------------------------
(* The steps, one by one.                                                  *)

LEMMA HelpersAreNumbers ==
  ASSUME CallTypes
  PROVE  /\ sessions \in Nat /\ sessions <= MaxSessions
         /\ \A h \in helpers : h \in Nat /\ h # 0 /\ h <= sessions /\ h \in 1 .. MaxSessions
BY ResolverCallbacksAssumption DEF CallTypes

(* What was read stays what a processor once held.                         *)
LEMMA SeenKept ==
  ASSUME CallInv, sessions' \in Nat, sessions <= sessions', overwritten' \subseteq Ops,
         DOMAIN seen' = Routines,
         \A r \in Routines : /\ DOMAIN seen'[r] \subseteq DOMAIN seen[r]
                             /\ \A op \in DOMAIN seen'[r] : seen'[r][op] = seen[r][op]
  PROVE  SeenInv'
<1>1. sessions \in Nat
  BY HelpersAreNumbers DEF CallInv
<1>2. ASSUME NEW r \in Routines, NEW op \in DOMAIN seen'[r]
      PROVE  Sound(seen'[r][op], sessions')
  <2>1. PICK callbacks : callbacks = seen[r][op]
    OBVIOUS
  <2>2. Sound(callbacks, sessions) /\ callbacks = seen'[r][op]
    BY <1>2, <2>1 DEF CallInv, SeenInv
  <2>3. \A n \in DOMAIN callbacks : callbacks[n] \in Callbacks
    BY <2>2, ElementOfSeq, LenProperties DEF Sound
  <2>4. \A n \in DOMAIN callbacks : callbacks[n].of \in Nat
    BY <2>3 DEF Callbacks
  <2>5. \A n \in DOMAIN callbacks : callbacks[n].of <= sessions'
    BY <1>1, <2>2, <2>4 DEF Sound
  <2> QED
    BY <2>2, <2>5 DEF Sound
<1> QED
  BY <1>2 DEF CallInv, SeenInv

(* What a routine's next write of the processors starts from: what it has  *)
(* read of those it touches.                                               *)
Based(r) == [op \in Ops |-> IF op \in DOMAIN seen[r] THEN seen[r][op] ELSE processors[op]]

LEMMA BasesAreSound ==
  ASSUME CallInv, NEW r \in Routines, NEW op \in Ops
  PROVE  Sound(Based(r)[op], sessions)
<1>1. Sound(processors[op], sessions)
  BY DEF CallInv, CallTypes, FirstIsAuto, IDsAreFresh, Sound
<1>2. op \in DOMAIN seen[r] => Sound(seen[r][op], sessions)
  BY DEF CallInv, SeenInv
<1> QED
  BY <1>1, <1>2 DEF Based

(* Where nothing was overwritten, what was read is still what there is.    *)
LEMMA Writing ==
  ASSUME CallInv, NEW r \in Routines, NEW written, WriteCallbacks(r, written),
         sessions' \in Nat, sessions <= sessions'
  PROVE  /\ overwritten \subseteq overwritten'
         /\ \A op \in Ops \ overwritten' : op \notin overwritten /\ Based(r)[op] = processors[op]
         /\ SeenInv'
<1>1. /\ overwritten' = overwritten \cup {op \in DOMAIN seen[r] : seen[r][op] # processors[op]}
      /\ seen' = [seen EXCEPT ![r] = NotRead]
  BY DEF WriteCallbacks
<1>2. \A op \in Ops \ overwritten' : op \notin overwritten /\ Based(r)[op] = processors[op]
  BY <1>1 DEF Based
<1>3. /\ DOMAIN seen = Routines /\ overwritten \subseteq Ops /\ DOMAIN seen[r] \subseteq Ops
  BY DEF CallInv, SeenInv
<1>4. overwritten' \subseteq Ops
  BY <1>1, <1>3
<1>5. ASSUME NEW other \in Routines
      PROVE  /\ DOMAIN seen'[other] \subseteq DOMAIN seen[other]
             /\ \A op \in DOMAIN seen'[other] : seen'[other][op] = seen[other][op]
  <2>1. CASE other = r
    <3>1. seen'[other] = << >>
      BY <1>1, <1>3, <2>1 DEF NotRead
    <3>2. DOMAIN seen'[other] = {}
      BY <3>1
    <3> QED
      BY <3>2
  <2>2. CASE other # r
    <3>1. seen'[other] = seen[other]
      BY <1>1, <1>3, <2>2
    <3> QED
      BY <3>1
  <2> QED
    BY <2>1, <2>2
<1>6. SeenInv'
  <2>1. DOMAIN seen' = Routines
    BY <1>1, <1>3
  <2> QED
    BY <1>4, <1>5, <2>1, SeenKept
<1> QED
  BY <1>1, <1>2, <1>6

(* Registering leaves the first callback first, and the IDs of all of them *)
(* are those of helpers there are.                                         *)
LEMMA GrownProcessors ==
  ASSUME CallInv, NEW r \in Routines, NEW of \in Nat, sessions' \in Nat, sessions <= sessions',
         of <= sessions', NEW query \in Seq(CallbackNames), NEW create \in Seq(CallbackNames),
         WriteCallbacks(r, With(seen[r], query, create, of)),
         "query" \notin DOMAIN seen[r] => query = <<>>,
         "create" \notin DOMAIN seen[r] => create = <<>>
  PROVE  /\ processors' \in [Ops -> Seq(Callbacks)]
         /\ \A op \in Ops : Grown(Based(r)[op], processors'[op],
                                  IF op = "query" THEN query ELSE create, of)
         /\ FirstIsAuto'
         /\ \A op \in Ops : \A n \in DOMAIN processors'[op] : processors'[op][n].of <= sessions'
<1> DEFINE Added(op) == IF op = "query" THEN query ELSE create
           added == [op \in DOMAIN seen[r] |->
             seen[r][op] \o [n \in DOMAIN Added(op) |-> Callback(Added(op)[n], of)]]
<1>1. processors' = [op \in Ops |-> IF op \in DOMAIN seen[r] THEN added[op] ELSE processors[op]]
  BY DEF WriteCallbacks, With
<1>2. ASSUME NEW op \in Ops
      PROVE  processors'[op] \in Seq(Callbacks) /\ Grown(Based(r)[op], processors'[op], Added(op), of)
  <2>1. Added(op) \in Seq(CallbackNames) /\ (op \notin DOMAIN seen[r] => Added(op) = <<>>)
    BY DEF Ops
  <2>2. Based(r)[op] \in Seq(Callbacks)
    BY BasesAreSound DEF Sound
  <2>3. CASE op \in DOMAIN seen[r]
    <3>1. processors'[op] = seen[r][op] \o [n \in DOMAIN Added(op) |-> Callback(Added(op)[n], of)]
      BY <1>1, <2>3
    <3>2. Based(r)[op] = seen[r][op]
      BY <2>3 DEF Based
    <3> HIDE DEF Added
    <3>3. PICK names, old, new :
            /\ names \in Seq(CallbackNames) /\ names = Added(op)
            /\ old \in Seq(Callbacks) /\ old = Based(r)[op]
            /\ new = processors'[op]
      BY <2>1, <2>2
    <3>4. new = old \o [n \in DOMAIN names |-> Callback(names[n], of)]
      BY <3>1, <3>2, <3>3
    <3>5. Grown(old, new, names, of)
      BY <3>3, <3>4, Adding
    <3>6. Grown(Based(r)[op], processors'[op], Added(op), of)
      BY <3>3, <3>5
    <3> QED
      BY <3>6 DEF Grown
  <2>4. CASE op \notin DOMAIN seen[r]
    <3>1. processors'[op] = processors[op] /\ Based(r)[op] = processors[op] /\ Added(op) = <<>>
      BY <1>1, <2>1, <2>4 DEF Based
    <3>2. Grown(Based(r)[op], Based(r)[op], <<>>, of)
      BY <2>2, GrownByNothing
    <3> QED
      BY <2>2, <3>1, <3>2
  <2> QED
    BY <2>3, <2>4
<1>3. PICK after : after = processors'
  OBVIOUS
<1>4. after \in [Ops -> Seq(Callbacks)]
  BY <1>1, <1>2, <1>3
<1>5. \A op \in Ops : Grown(Based(r)[op], after[op], Added(op), of) /\ Sound(Based(r)[op], sessions)
  BY <1>2, <1>3, BasesAreSound
<1> HIDE DEF Added
<1>6. FirstIsAuto'
  BY <1>3, <1>5 DEF FirstIsAuto, Grown, Sound
<1>7. ASSUME NEW op \in Ops, NEW n \in DOMAIN after[op]
      PROVE  after[op][n].of <= sessions'
  <2>1. CASE after[op][n].of = of
    BY <2>1
  <2>2. CASE \E m \in DOMAIN Based(r)[op] : after[op][n] = Based(r)[op][m]
    <3>1. PICK old : old = Based(r)[op] /\ Sound(old, sessions)
      BY <1>5
    <3>2. PICK m \in DOMAIN old : after[op][n] = old[m]
      BY <2>2, <3>1
    <3>3. old[m] \in Callbacks /\ old[m].of <= sessions
      BY <3>1, <3>2, ElementOfSeq, LenProperties DEF Sound
    <3>4. old[m].of \in Nat /\ sessions \in Nat
      BY <3>3, HelpersAreNumbers DEF Callbacks, CallInv
    <3> QED
      BY <3>2, <3>3, <3>4
  <2> QED
    BY <1>5, <2>1, <2>2 DEF Grown
<1> QED
  BY <1>2, <1>3, <1>4, <1>6, <1>7 DEF Added

(* Steps that change nothing but the registry, the statements or the mutex.*)
LEMMA CallsUntouched ==
  ASSUME CallInv, UNCHANGED <<processors, sessions, helpers, tracked, todo, seen, overwritten>>
  PROVE  CallInv'
<1>1. CallTypes'
  BY DEF CallInv, CallTypes
<1>2. FirstIsAuto' /\ IDsAreFresh' /\ SeenInv'
  BY DEF CallInv, FirstIsAuto, IDsAreFresh, SeenInv, Sound
<1>3. ASSUME NEW h \in helpers'
      PROVE  HelperInv(h)'
  BY HelperUntouched DEF CallInv, Undisturbed
<1> QED
  BY <1>1, <1>2, <1>3 DEF CallInv

(* Steps that change nothing but the callbacks and the calls.              *)
LEMMA StatementsUntouched ==
  ASSUME StatementTypes, \A r \in Routines : StatementInv(r), UNCHANGED <<registered, statement, mutex>>
  PROVE  StatementTypes' /\ \A r \in Routines : StatementInv(r)'
<1>1. StatementTypes'
  BY DEF StatementTypes, RegistryOK
<1>2. ASSUME NEW r \in Routines PROVE StatementInv(r)'
  BY DEF StatementInv
<1> QED
  BY <1>1, <1>2

LEMMA RegisterModelKeeps ==
  ASSUME Inv, NEW r \in Routines, NEW m \in Models, RegisterModel(r, m)
  PROVE  Inv'
<1> DEFINE name == ExtractTableName(m.type, m.byPointer)
<1>1. /\ Idle(r) /\ mutex = "free" /\ name \notin DOMAIN registered
      /\ registered' = [n \in DOMAIN registered \cup {name} |-> IF n = name THEN m ELSE registered[n]]
      /\ UNCHANGED <<processors, sessions, helpers, tracked, uses, todo, seen, overwritten, statement, mutex>>
  BY DEF RegisterModel
<1>2. CallInv'
  BY <1>1, CallsUntouched DEF Inv
<1>3. IsFiniteSet(DOMAIN registered')
  BY <1>1, FS_AddElement DEF Inv, StatementTypes
<1>4. RegistryOK'
  BY <1>1 DEF Inv, StatementTypes, RegistryOK
<1>5. StatementTypes'
  BY <1>1, <1>3, <1>4 DEF Inv, StatementTypes
<1>6. ASSUME NEW other \in Routines PROVE StatementInv(other)'
  BY <1>1 DEF Inv, StatementInv
<1> QED
  BY <1>2, <1>5, <1>6 DEF Inv

(* The statement a routine begins.                                         *)
LEMMA ExecuteKeeps ==
  ASSUME Inv, NEW r \in Routines, NEW op \in Ops, NEW s \in Statements, Execute(r, op, s)
  PROVE  Inv'
<1> DEFINE new == [end |-> "running", of |-> s, table |-> IF s.parsed THEN GormTable(s.type) ELSE "",
                   rest |-> IF s.parsed THEN <<>> ELSE processors[op]]
<1>1. /\ Idle(r) /\ statement' = [statement EXCEPT ![r] = new]
      /\ UNCHANGED <<registered, processors, sessions, helpers, tracked, uses, todo, seen, overwritten, mutex>>
  BY DEF Execute
<1>2. CallInv'
  BY <1>1, CallsUntouched DEF Inv
<1>3. /\ s.type \in NamedTypes /\ s.parsed \in BOOLEAN /\ s \in Statements
  BY ResolverCallbacksAssumption
<1>4. /\ processors[op] \in Seq(Callbacks) /\ Len(processors[op]) >= 1
      /\ processors[op][1] = Callback("auto", 0)
  BY DEF Inv, CallInv, CallTypes, FirstIsAuto
<1>5. (IF s.parsed THEN GormTable(s.type) ELSE "") \in TableNamesOrNone
  BY <1>3, NamesAreNames DEF TableNamesOrNone
<1>6. (IF s.parsed THEN <<>> ELSE processors[op]) \in Seq(Callbacks)
  BY <1>4
<1>7. new \in Executions
  BY <1>3, <1>5, <1>6 DEF Executions
<1>8. /\ new.end = "running" /\ new.of = s
      /\ s.parsed => new.rest = <<>> /\ new.table = GormTable(s.type)
      /\ ~s.parsed => new.rest = processors[op]
  OBVIOUS
<1>9. processors[op] # <<>> /\ Head(processors[op]).what = "auto"
  BY <1>4 DEF Callback
<1> HIDE DEF new
<1>10. StatementTypes'
  BY <1>1, <1>7 DEF Inv, StatementTypes, RegistryOK
<1>11. ASSUME NEW other \in Routines PROVE StatementInv(other)'
  <2>1. CASE other = r
    <3>1. statement'[other] = new
      BY <1>1, <2>1 DEF Inv, StatementTypes
    <3> QED
      BY <1>3, <1>8, <1>9, <3>1 DEF StatementInv
  <2>2. CASE other # r
    <3>1. statement'[other] = statement[other]
      BY <1>1, <2>2 DEF Inv, StatementTypes
    <3> QED
      BY <1>1, <3>1 DEF Inv, StatementInv
  <2> QED
    BY <2>1, <2>2
<1> QED
  BY <1>2, <1>10, <1>11 DEF Inv

(* What one callback makes of the statement of a routine.                  *)
LEMMA CallbackRuns ==
  ASSUME Inv, NEW r \in Routines, RunCallback(r)
  PROVE  /\ statement[r] \in Executions /\ statement[r].end = "running" /\ statement[r].rest # <<>>
         /\ Head(statement[r].rest).what \in CallbackNames /\ statement[r].of \in Statements
         /\ ~statement[r].of.parsed
         /\ \E outcome \in Resolve(Head(statement[r].rest).what, statement[r].of) :
              /\ statement' = [statement EXCEPT ![r] =
                   [end |-> IF outcome.end = "returns" THEN "running" ELSE outcome.end,
                    of |-> statement[r].of, table |-> outcome.table,
                    rest |-> IF outcome.table = "" THEN Tail(statement[r].rest) ELSE <<>>]]
              /\ mutex' = IF outcome.end = "blocked" THEN r ELSE mutex
         /\ UNCHANGED <<registered, processors, sessions, helpers, tracked, uses, todo, seen, overwritten>>
<1> DEFINE now == statement[r]
<1>1. now.end = "running" /\ now.rest # <<>>
  BY DEF RunCallback
<1>2. now \in Executions
  <2>1. now \in Executions \cup {NoStatement}
    BY DEF Inv, StatementTypes
  <2>2. NoStatement.end # "running"
    BY DEF NoStatement
  <2> QED
    BY <1>1, <2>1, <2>2
<1>3. /\ now = [end |-> now.end, of |-> now.of, table |-> now.table, rest |-> now.rest]
      /\ now.of \in Statements /\ now.rest \in Seq(Callbacks)
  BY <1>2 DEF Executions
<1>4. Head(now.rest) \in Callbacks
  BY <1>1, <1>3
<1>5. Head(now.rest).what \in CallbackNames
  BY <1>4 DEF Callbacks
<1>6. ~now.of.parsed
  <2>1. now # NoStatement
    BY <1>1 DEF NoStatement
  <2> QED
    BY <1>1, <2>1 DEF Inv, StatementInv
<1>7. PICK outcome \in Resolve(Head(now.rest).what, now.of) :
        /\ statement' = [statement EXCEPT ![r].table = outcome.table,
                           ![r].rest = IF outcome.table = "" THEN Tail(@) ELSE <<>>,
                           ![r].end = IF outcome.end = "returns" THEN @ ELSE outcome.end]
        /\ mutex' = IF outcome.end = "blocked" THEN r ELSE mutex
  BY DEF RunCallback
<1>8. statement' = [statement EXCEPT ![r] =
                   [end |-> IF outcome.end = "returns" THEN "running" ELSE outcome.end,
                    of |-> now.of, table |-> outcome.table,
                    rest |-> IF outcome.table = "" THEN Tail(now.rest) ELSE <<>>]]
  <2> DEFINE new == [end |-> IF outcome.end = "returns" THEN "running" ELSE outcome.end,
                     of |-> now.of, table |-> outcome.table,
                     rest |-> IF outcome.table = "" THEN Tail(now.rest) ELSE <<>>]
  <2>1. statement \in [Routines -> Executions \cup {NoStatement}]
    BY DEF Inv, StatementTypes
  <2>2. /\ DOMAIN statement' = Routines
        /\ \A other \in Routines \ {r} : statement'[other] = statement[other]
    BY <1>7, <2>1
  <2>3. statement'[r] = [now EXCEPT !.table = outcome.table,
                           !.rest = IF outcome.table = "" THEN Tail(@) ELSE <<>>,
                           !.end = IF outcome.end = "returns" THEN @ ELSE outcome.end]
    BY <1>7, <2>1
  <2>4. statement'[r] = new
    BY <1>1, <1>3, <2>3
  <2> HIDE DEF new
  <2>5. statement' = [statement EXCEPT ![r] = new]
    <3>1. statement' = [other \in Routines |-> statement'[other]]
      BY <1>7, <2>1
    <3> QED
      BY <2>1, <2>2, <2>4, <3>1
  <2> QED
    BY <2>5 DEF new
<1>9. UNCHANGED <<registered, processors, sessions, helpers, tracked, uses, todo, seen, overwritten>>
  BY DEF RunCallback
<1> QED
  BY <1>1, <1>2, <1>3, <1>5, <1>6, <1>7, <1>8, <1>9

LEMMA RunCallbackKeeps ==
  ASSUME Inv, NEW r \in Routines, RunCallback(r)
  PROVE  Inv'
<1>1. PICK now, what, s, outcome, new :
        /\ outcome \in Resolve(what, s)
        /\ now = statement[r] /\ what = Head(now.rest).what /\ s = now.of
        /\ now \in Executions /\ now.end = "running" /\ now.rest # <<>>
        /\ what \in CallbackNames /\ s \in Statements /\ ~s.parsed
        /\ new = [end |-> IF outcome.end = "returns" THEN "running" ELSE outcome.end,
                  of |-> s, table |-> outcome.table,
                  rest |-> IF outcome.table = "" THEN Tail(now.rest) ELSE <<>>]
        /\ statement' = [statement EXCEPT ![r] = new]
        /\ mutex' = IF outcome.end = "blocked" THEN r ELSE mutex
        /\ UNCHANGED <<registered, processors, sessions, helpers, tracked, uses, todo, seen, overwritten>>
  BY CallbackRuns
<1>2. CallInv'
  BY <1>1, CallsUntouched DEF Inv
<1>3. RegistryOK
  BY DEF Inv, StatementTypes
<1>4. /\ outcome \in Outcomes
      /\ outcome.end # "returns" => outcome.table = ""
      /\ OnlySliceBlocks(s, outcome)
      /\ what = "auto" /\ s.dest = "ptr" => outcome = Returns(GormTable(s.type))
  <2>1. outcome \in Resolve(what, s) /\ s \in Statements /\ what \in CallbackNames
    BY <1>1
  <2> QED
    BY <1>3, <2>1, ResolveOutcomes
<1>5. now.rest \in Seq(Callbacks) /\ Tail(now.rest) \in Seq(Callbacks)
  <2>1. now \in Executions /\ now.rest # <<>>
    BY <1>1
  <2>2. now.rest \in Seq(Callbacks)
    BY <2>1 DEF Executions
  <2> QED
    BY <2>1, <2>2
<1>6. new \in Executions
  <2>1. new.rest \in Seq(Callbacks) /\ new.table \in TableNamesOrNone
        /\ new.end \in {"running", "blocked", "endless"}
    <3>1. outcome.end \in Ends /\ outcome.table \in TableNamesOrNone
      BY <1>4 DEF Outcomes
    <3>2. /\ new.end = (IF outcome.end = "returns" THEN "running" ELSE outcome.end)
          /\ new.table = outcome.table
          /\ new.rest = (IF outcome.table = "" THEN Tail(now.rest) ELSE <<>>)
      BY <1>1
    <3>3. <<>> \in Seq(Callbacks)
      OBVIOUS
    <3> QED
      BY <1>5, <3>1, <3>2, <3>3 DEF Ends
  <2> QED
    BY <1>1, <2>1 DEF Executions
<1>7. StatementTypes'
  <2>1. statement' \in [Routines -> Executions \cup {NoStatement}]
    BY <1>1, <1>6 DEF Inv, StatementTypes
  <2>2. mutex' \in Routines \cup {"free"}
    BY <1>1 DEF Inv, StatementTypes
  <2>3. RegistryOK' /\ IsFiniteSet(DOMAIN registered')
    BY <1>1 DEF Inv, StatementTypes, RegistryOK
  <2> QED
    BY <2>1, <2>2, <2>3 DEF StatementTypes
<1>8. now # NoStatement
  <2>1. now.end = "running"
    BY <1>1
  <2>2. NoStatement.end = "none"
    BY DEF NoStatement
  <2> QED
    BY <2>1, <2>2
<1>9. s.dest = "ptr" => outcome.end = "returns" /\ outcome.table = GormTable(s.type) /\ outcome.table # ""
  <2> SUFFICES ASSUME s.dest = "ptr"
               PROVE  outcome.end = "returns" /\ outcome.table = GormTable(s.type) /\ outcome.table # ""
    OBVIOUS
  <2>1. what = "auto"
    BY <1>1, <1>8 DEF Inv, StatementInv
  <2>2. outcome = Returns(GormTable(s.type))
    BY <1>4, <2>1
  <2>3. GormTable(s.type) # ""
    BY <1>1, ResolverCallbacksAssumption, NamesAreNames
  <2> QED
    BY <2>2, <2>3 DEF Returns
<1>10. outcome.end = "blocked" => mutex' # "free"
  BY <1>1, ResolverCallbacksAssumption
<1>11. mutex # "free" => mutex' # "free"
  BY <1>1, ResolverCallbacksAssumption
<1>12. ASSUME NEW other \in Routines PROVE StatementInv(other)'
  <2>1. CASE other = r
    <3>1. statement'[other] = new
      BY <1>1, <2>1 DEF Inv, StatementTypes
    <3>2. /\ new.of = s /\ new.table = outcome.table
          /\ outcome.table # "" => new.rest = <<>>
          /\ outcome.end = "returns" => new.end = "running"
          /\ new.end = "blocked" => outcome.end = "blocked"
      BY <1>1
    <3>3. registered' = registered
      BY <1>1
    <3> QED
      BY <1>1, <1>4, <1>9, <1>10, <3>1, <3>2, <3>3 DEF StatementInv, OnlySliceBlocks
  <2>2. CASE other # r
    <3>1. statement'[other] = statement[other] /\ registered' = registered
      BY <1>1, <2>2 DEF Inv, StatementTypes
    <3> QED
      BY <1>11, <3>1 DEF Inv, StatementInv
  <2> QED
    BY <2>1, <2>2
<1> QED
  BY <1>2, <1>7, <1>12 DEF Inv

LEMMA FinishStatementKeeps ==
  ASSUME Inv, NEW r \in Routines, FinishStatement(r)
  PROVE  Inv'
<1>1. /\ statement' = [statement EXCEPT ![r] = NoStatement]
      /\ UNCHANGED <<registered, processors, sessions, helpers, tracked, uses, todo, seen, overwritten, mutex>>
  BY DEF FinishStatement
<1>2. CallInv'
  BY <1>1, CallsUntouched DEF Inv
<1>3. StatementTypes'
  BY <1>1 DEF Inv, StatementTypes, RegistryOK
<1>4. ASSUME NEW other \in Routines PROVE StatementInv(other)'
  BY <1>1 DEF Inv, StatementTypes, StatementInv
<1> QED
  BY <1>2, <1>3, <1>4 DEF Inv
(* A routine takes the next step of its plan, or a plan.                   *)
LEMMA TodoMoves ==
  ASSUME CallTypes, NEW r \in Routines, NEW plan, todo' = [todo EXCEPT ![r] = plan],
         helpers \subseteq helpers', plan \in NoPlan \/ \E h \in helpers' : plan \in Plans(h)
  PROVE  /\ DOMAIN todo' = Routines
         /\ \A other \in Routines :
              todo'[other] \in NoPlan \/ \E h \in helpers' : todo'[other] \in Plans(h)
         /\ todo'[r] = plan /\ \A other \in Routines \ {r} : todo'[other] = todo[other]
<1>1. DOMAIN todo = Routines
      /\ \A other \in Routines : todo[other] \in NoPlan \/ \E h \in helpers : todo[other] \in Plans(h)
  BY DEF CallTypes
<1>2. DOMAIN todo' = Routines /\ todo'[r] = plan
      /\ \A other \in Routines \ {r} : todo'[other] = todo[other]
  BY <1>1
<1>3. ASSUME NEW other \in Routines
      PROVE  todo'[other] \in NoPlan \/ \E h \in helpers' : todo'[other] \in Plans(h)
  BY <1>1, <1>2
<1> QED
  BY <1>2, <1>3

(* Work for one helper is nothing to another.                              *)
LEMMA OthersUndisturbed ==
  ASSUME NEW g \in Nat \ {0}, NEW h \in Nat \ {0}, g # h,
         NEW old \in NoPlan \cup Plans(h), NEW new \in NoPlan \cup Plans(h)
  PROVE  Undisturbed(g, old, new)
<1>1. old \notin Plans(g) /\ new \notin Plans(g)
  BY PlansAreOfOneHelper, PlansNameTheHelper
<1>2. old \notin Replacing(g)
  BY <1>1 DEF Plans
<1> QED
  BY <1>1, <1>2 DEF Undisturbed

LEMMA IdleUndisturbed ==
  ASSUME NEW g, NEW old \in NoPlan, NEW new \in NoPlan
  PROVE  Undisturbed(g, old, new)
<1>1. old \notin Plans(g) /\ new \notin Plans(g)
  BY PlansNameTheHelper
<1> QED
  BY <1>1 DEF Undisturbed, Plans

LEMMA DBKeeps ==
  ASSUME CallInv, NEW r \in Routines, DB(r)
  PROVE  CallInv'
<1>1. /\ todo[r] = <<>> /\ todo' = [todo EXCEPT ![r] = <<CallsDB>>]
      /\ UNCHANGED <<registered, processors, sessions, helpers, tracked, uses, seen, overwritten, statement, mutex>>
  BY DEF DB, Idle
<1>2. <<>> \in NoPlan /\ <<CallsDB>> \in NoPlan
  BY DEF NoPlan
<1>3. CallTypes
  BY DEF CallInv
<1>4. /\ DOMAIN todo' = Routines
      /\ \A other \in Routines :
           todo'[other] \in NoPlan \/ \E h \in helpers' : todo'[other] \in Plans(h)
      /\ todo'[r] = <<CallsDB>> /\ \A other \in Routines \ {r} : todo'[other] = todo[other]
  BY <1>1, <1>2, <1>3, TodoMoves
<1>5. CallTypes'
  BY <1>1, <1>3, <1>4 DEF CallTypes
<1>6. FirstIsAuto' /\ IDsAreFresh' /\ SeenInv'
  BY <1>1 DEF CallInv, FirstIsAuto, IDsAreFresh, SeenInv, Sound
<1>7. ASSUME NEW h \in helpers'
      PROVE  HelperInv(h)'
  <2>1. \A other \in Routines : Undisturbed(h, todo[other], todo'[other])
    <3>1. Undisturbed(h, todo[r], todo'[r])
      BY <1>1, <1>2, <1>4, IdleUndisturbed
    <3>2. \A other \in Routines \ {r} : Undisturbed(h, todo[other], todo'[other])
      BY <1>4 DEF Undisturbed
    <3> QED
      BY <3>1, <3>2
  <2>2. HelperInv(h)
    BY <1>1 DEF CallInv
  <2> QED
    BY <1>1, <2>1, <2>2, HelperUntouched
<1> QED
  BY <1>5, <1>6, <1>7 DEF CallInv

LEMMA TransactionKeeps ==
  ASSUME CallInv, NEW r \in Routines, Transaction(r)
  PROVE  CallInv'
<1>0. PICK new : new = sessions + 1
  OBVIOUS
<1> DEFINE plan == <<CallsDB, ComplexFix(new), CallsDB, QueryFix(new)>>
<1>1. /\ todo[r] = <<>> /\ todo' = [todo EXCEPT ![r] = plan]
      /\ sessions < MaxSessions /\ sessions' = new /\ helpers' = helpers \cup {new}
      /\ UNCHANGED <<registered, processors, tracked, uses, seen, overwritten, statement, mutex>>
  BY <1>0 DEF Transaction, Idle, NewTransactionTestHelper, ComplexFix, QueryFix
<1>2. CallTypes
  BY DEF CallInv
<1>3. /\ sessions \in Nat /\ sessions <= MaxSessions /\ MaxSessions \in Nat
      /\ \A h \in helpers : h \in Nat /\ h # 0 /\ h <= sessions /\ h \in 1 .. MaxSessions
  BY <1>2, HelpersAreNumbers, ResolverCallbacksAssumption
<1>4. /\ new \in Nat \ {0} /\ new \in 1 .. MaxSessions /\ new \notin helpers /\ new \in helpers'
      /\ sessions < new
  BY <1>0, <1>1, <1>3
<1>5. plan \in Settled(new)
  BY DEF Settled, SetsUp
<1> HIDE DEF plan
<1>6. plan \in Plans(new) /\ plan \notin Replacing(new)
  BY <1>5, SettledIsNotReplacing
<1>7. /\ DOMAIN todo' = Routines
      /\ \A other \in Routines :
           todo'[other] \in NoPlan \/ \E h \in helpers' : todo'[other] \in Plans(h)
      /\ todo'[r] = plan /\ \A other \in Routines \ {r} : todo'[other] = todo[other]
  <2>1. helpers \subseteq helpers' /\ \E h \in helpers' : plan \in Plans(h)
    BY <1>1, <1>4, <1>6
  <2>2. todo' = [todo EXCEPT ![r] = plan]
    BY <1>1
  <2> QED
    BY <1>2, <2>1, <2>2, TodoMoves
<1>8. CallTypes'
  <2>1. helpers' \subseteq 1 .. sessions' /\ sessions' \in 0 .. MaxSessions
    BY <1>0, <1>1, <1>3
  <2> QED
    BY <1>1, <1>2, <1>7, <2>1 DEF CallTypes
<1>9. FirstIsAuto' /\ SeenInv'
  <2>1. FirstIsAuto'
    BY <1>1 DEF CallInv, FirstIsAuto
  <2>2. sessions' \in Nat /\ sessions <= sessions'
    BY <1>1, <1>3, <1>4
  <2> QED
    BY <1>1, <2>1, <2>2, SeenKept DEF CallInv, SeenInv
<1>10. \A op \in Ops : \A n \in DOMAIN processors[op] :
         processors[op][n].of \in Nat /\ processors[op][n].of <= sessions
  <2>1. \A op \in Ops : \A n \in DOMAIN processors[op] : processors[op][n] \in Callbacks
    BY <1>2, ElementOfSeq, LenProperties DEF CallTypes
  <2> QED
    BY <2>1 DEF CallInv, IDsAreFresh, Callbacks
<1>11. IDsAreFresh'
  <2>1. \A op \in Ops : \A n \in DOMAIN processors'[op] : processors'[op][n].of <= sessions'
    BY <1>1, <1>3, <1>4, <1>10
  <2>2. \A h \in (1 .. MaxSessions) \ helpers' : tracked'[h] = {}
    BY <1>1 DEF CallInv, IDsAreFresh
  <2> QED
    BY <2>1, <2>2 DEF IDsAreFresh
<1>12. \A other \in Routines : todo[other] \notin Plans(new)
  <2> SUFFICES ASSUME NEW other \in Routines PROVE todo[other] \notin Plans(new)
    OBVIOUS
  <2>1. CASE todo[other] \in NoPlan
    BY <2>1, PlansNameTheHelper
  <2>2. CASE \E h \in helpers : todo[other] \in Plans(h)
    BY <1>3, <1>4, <2>2, PlansAreOfOneHelper
  <2> QED
    BY <1>2, <2>1, <2>2 DEF CallTypes
<1>13. HelperInv(new)'
  <2>1. \A other \in Routines : todo'[other] \in Plans(new) => other = r
    BY <1>7, <1>12
  <2>2. \A other \in Routines : todo'[other] \notin Replacing(new)
    <3>1. \A other \in Routines : todo'[other] \in Replacing(new) => todo'[other] \in Plans(new)
      BY DEF Plans
    <3> QED
      BY <1>6, <1>7, <2>1, <3>1
  <2>3. tracked'[new] = {}
    BY <1>1, <1>4 DEF CallInv, IDsAreFresh
  <2>4. ASSUME NEW op \in Ops
        PROVE  Count(processors'[op], Mine(new)) = 0
    <3>1. \A n \in DOMAIN processors[op] : processors[op][n] \notin Mine(new)
      BY <1>3, <1>4, <1>10 DEF Mine, Callback
    <3>2. processors[op] \in Seq(Callbacks)
      BY <1>2 DEF CallTypes
    <3> QED
      BY <1>1, <3>1, <3>2, CountType
  <2>5. /\ \A other \in Routines : todo'[other] \notin Restoring(new)
        /\ \A other \in Routines, callbacks \in SUBSET {"ensure_table"} :
             todo'[other] \notin Removing(callbacks, new)
    BY <2>2, ReplacingCases
  <2> QED
    BY <2>1, <2>2, <2>3, <2>4, <2>5 DEF HelperInv
<1>14. ASSUME NEW h \in helpers
       PROVE  HelperInv(h)'
  <2>1. h \in Nat \ {0} /\ h # new
    BY <1>3, <1>4
  <2>2. Undisturbed(h, todo[r], todo'[r])
    BY <1>1, <1>4, <1>6, <1>7, <2>1, OthersUndisturbed DEF NoPlan
  <2>3. \A other \in Routines : Undisturbed(h, todo[other], todo'[other])
    BY <1>7, <2>2 DEF Undisturbed
  <2>4. HelperInv(h)
    BY DEF CallInv
  <2> QED
    BY <1>1, <2>3, <2>4, HelperUntouched
<1> QED
  BY <1>1, <1>8, <1>9, <1>11, <1>13, <1>14 DEF CallInv

LEMMA UsesKeeps ==
  ASSUME CallInv, NEW r \in Routines, NEW h \in helpers, NEW plan \in Starts(h), Uses(r, h, plan)
  PROVE  CallInv'
<1>1. /\ todo[r] = <<>> /\ todo' = [todo EXCEPT ![r] = plan]
      /\ \A other \in Routines : \A n \in DOMAIN todo[other] : todo[other][n].of # h
      /\ UNCHANGED <<registered, processors, sessions, helpers, tracked, seen, overwritten, statement, mutex>>
  BY DEF Uses, CanUse, Idle
<1>2. CallTypes /\ HelperInv(h)
  BY DEF CallInv
<1>3. \A g \in helpers : g \in Nat \ {0}
  BY <1>2, HelpersAreNumbers
<1>4. plan \in Settled(h) /\ plan \in Plans(h) /\ plan \notin Replacing(h)
  BY SettledIsNotReplacing DEF Settled
<1>5. /\ DOMAIN todo' = Routines
      /\ \A other \in Routines :
           todo'[other] \in NoPlan \/ \E g \in helpers' : todo'[other] \in Plans(g)
      /\ todo'[r] = plan /\ \A other \in Routines \ {r} : todo'[other] = todo[other]
  <2>1. helpers \subseteq helpers' /\ \E g \in helpers' : plan \in Plans(g)
    BY <1>1, <1>4
  <2>2. todo' = [todo EXCEPT ![r] = plan]
    BY <1>1
  <2> QED
    BY <1>2, <2>1, <2>2, TodoMoves
<1>6. CallTypes'
  BY <1>1, <1>2, <1>5 DEF CallTypes
<1>7. FirstIsAuto' /\ IDsAreFresh' /\ SeenInv'
  BY <1>1 DEF CallInv, FirstIsAuto, IDsAreFresh, SeenInv, Sound
<1>8. \A other \in Routines : todo[other] \notin Plans(h)
  BY <1>1, PlansNameTheHelper
<1>9. HelperInv(h)'
  <2>1. \A other \in Routines : todo'[other] \in Plans(h) => other = r
    BY <1>5, <1>8
  <2>2. /\ \A other \in Routines : todo'[other] \notin Replacing(h)
        /\ \A other \in Routines : todo[other] \notin Replacing(h)
    <3>1. \A any : any \in Replacing(h) => any \in Plans(h)
      BY DEF Plans
    <3> QED
      BY <1>4, <1>5, <1>8, <2>1, <3>1
  <2>3. \A op \in Ops \ overwritten' :
          Count(processors'[op], Mine(h)) = IF "ensure_table" \in tracked'[h] THEN 1 ELSE 0
    BY <1>1, <1>2, <2>2 DEF HelperInv
  <2>4. /\ \A other \in Routines : todo'[other] \notin Restoring(h)
        /\ \A other \in Routines, callbacks \in SUBSET {"ensure_table"} :
             todo'[other] \notin Removing(callbacks, h)
    BY <2>2, ReplacingCases
  <2> QED
    BY <2>1, <2>2, <2>3, <2>4 DEF HelperInv
<1>10. ASSUME NEW g \in helpers, g # h
       PROVE  HelperInv(g)'
  <2>1. g \in Nat \ {0} /\ h \in Nat \ {0}
    BY <1>3
  <2>2. Undisturbed(g, todo[r], todo'[r])
    BY <1>1, <1>4, <1>5, <1>10, <2>1, OthersUndisturbed DEF NoPlan
  <2>3. \A other \in Routines : Undisturbed(g, todo[other], todo'[other])
    BY <1>5, <2>2 DEF Undisturbed
  <2>4. HelperInv(g)
    BY DEF CallInv
  <2> QED
    BY <1>1, <2>3, <2>4, HelperUntouched
<1> QED
  BY <1>1, <1>6, <1>7, <1>9, <1>10 DEF CallInv
(* A step of a call leaves every other helper as it was.                   *)
LEMMA OtherHelpersKept ==
  ASSUME CallInv, NEW r \in Routines, NEW h \in helpers, NEW plan \in NoPlan \cup Plans(h),
         todo[r] \in NoPlan \cup Plans(h), todo' = [todo EXCEPT ![r] = plan],
         NEW g \in helpers, g # h,
         "ensure_table" \in tracked'[g] <=> "ensure_table" \in tracked[g],
         overwritten \subseteq overwritten',
         \A op \in Ops \ overwritten' : Count(processors'[op], Mine(g)) = Count(processors[op], Mine(g))
  PROVE  HelperInv(g)'
<1>1. CallTypes /\ HelperInv(g)
  BY DEF CallInv
<1>2. g \in Nat \ {0} /\ h \in Nat \ {0}
  BY <1>1, HelpersAreNumbers
<1>3. todo'[r] = plan /\ \A other \in Routines \ {r} : todo'[other] = todo[other]
  BY <1>1 DEF CallTypes
<1>4. Undisturbed(g, todo[r], plan)
  BY <1>2, OthersUndisturbed
<1>5. \A other \in Routines : Undisturbed(g, todo[other], todo'[other])
  BY <1>3, <1>4 DEF Undisturbed
<1> QED
  BY <1>1, <1>5, HelperUntouched

(* In a step of one helper's call the same routine goes on with it: the    *)
(* others have none of its steps.                                          *)
LEMMA OneRoutinePerHelper ==
  ASSUME CallInv, NEW r \in Routines, NEW h \in helpers, NEW plan,
         todo[r] \in Plans(h), todo' = [todo EXCEPT ![r] = plan]
  PROVE  /\ todo'[r] = plan
         /\ \A other \in Routines \ {r} : todo[other] \notin Plans(h) /\ todo'[other] \notin Plans(h)
         /\ \A other \in Routines \ {r} :
              /\ todo[other] \notin Replacing(h) /\ todo'[other] \notin Replacing(h)
              /\ todo'[other] \notin Restoring(h)
              /\ \A callbacks \in SUBSET {"ensure_table"} : todo'[other] \notin Removing(callbacks, h)
<1>1. CallTypes /\ HelperInv(h)
  BY DEF CallInv
<1>2. todo'[r] = plan /\ \A other \in Routines \ {r} : todo'[other] = todo[other]
  BY <1>1 DEF CallTypes
<1>3. \A other \in Routines \ {r} : todo[other] \notin Plans(h) /\ todo'[other] \notin Plans(h)
  BY <1>1, <1>2 DEF HelperInv
<1>4. \A any : any \in Replacing(h) => any \in Plans(h)
  BY DEF Plans
<1>5. \A other \in Routines \ {r} : todo[other] \notin Replacing(h) /\ todo'[other] \notin Replacing(h)
  BY <1>3, <1>4
<1>6. \A other \in Routines \ {r} :
        /\ todo'[other] \notin Restoring(h)
        /\ \A callbacks \in SUBSET {"ensure_table"} : todo'[other] \notin Removing(callbacks, h)
  BY <1>5, ReplacingCases
<1> QED
  BY <1>2, <1>3, <1>5, <1>6

LEMMA ReadCallbacksKeeps ==
  ASSUME CallInv, NEW r \in Routines, ReadCallbacks(r)
  PROVE  CallInv'
<1>1. PICK ops : ops = Touched(Head(todo[r]))
  OBVIOUS
<1>2. /\ todo[r] # <<>> /\ seen' = [seen EXCEPT ![r] = [op \in ops |-> processors[op]]]
      /\ UNCHANGED <<registered, processors, sessions, helpers, tracked, uses, todo, overwritten, statement, mutex>>
  BY <1>1 DEF ReadCallbacks
<1>3. CallTypes
  BY DEF CallInv
<1>4. Head(todo[r]).do \in {"DB", "wrap", "register", "remove"}
  BY <1>2, <1>3, StepsAhead DEF Ahead
<1>5. ops \subseteq Ops
  BY <1>1, <1>4 DEF Touched
<1>6. CallTypes'
  BY <1>2, <1>3 DEF CallTypes
<1>7. FirstIsAuto' /\ IDsAreFresh'
  BY <1>2 DEF CallInv, FirstIsAuto, IDsAreFresh
<1>8. \A op \in Ops : Sound(processors'[op], sessions')
  BY <1>2 DEF CallInv, CallTypes, FirstIsAuto, IDsAreFresh, Sound
<1>9. SeenInv'
  <2>1. DOMAIN seen = Routines /\ overwritten \subseteq Ops
    BY DEF CallInv, SeenInv
  <2>2. /\ DOMAIN seen' = Routines /\ seen'[r] = [op \in ops |-> processors[op]]
        /\ \A other \in Routines \ {r} : seen'[other] = seen[other]
    BY <1>2, <2>1
  <2>3. ASSUME NEW other \in Routines, NEW op \in DOMAIN seen'[other]
        PROVE  op \in Ops /\ Sound(seen'[other][op], sessions')
    <3>1. CASE other = r
      <4>1. op \in ops /\ seen'[other][op] = processors'[op]
        BY <1>2, <2>2, <2>3, <3>1
      <4> QED
        BY <1>5, <1>8, <4>1
    <3>2. CASE other # r
      <4>1. op \in DOMAIN seen[other] /\ seen'[other][op] = seen[other][op]
        BY <2>2, <2>3, <3>2
      <4> QED
        BY <1>2, <4>1 DEF CallInv, SeenInv, Sound
    <3> QED
      BY <3>1, <3>2
  <2> QED
    BY <1>2, <2>1, <2>2, <2>3 DEF SeenInv
<1>10. ASSUME NEW h \in helpers'
       PROVE  HelperInv(h)'
  <2>1. HelperInv(h)
    BY <1>2 DEF CallInv
  <2> QED
    BY <1>2, <2>1, HelperUntouched DEF Undisturbed
<1> QED
  BY <1>6, <1>7, <1>9, <1>10 DEF CallInv

LEMMA DBRegistersKeeps ==
  ASSUME CallInv, NEW r \in Routines, DBRegisters(r)
  PROVE  CallInv'
<1>1. /\ todo[r] # <<>> /\ Head(todo[r]) = CallsDB
      /\ todo' = [todo EXCEPT ![r] = <<>> \o Tail(todo[r])]
      /\ UNCHANGED <<registered, helpers, tracked, uses, statement, mutex>>
  BY DEF DBRegisters, Rest
<1>2. CallTypes
  BY DEF CallInv
<1>3. Ahead(r, Tail(todo[r])) /\ <<>> \o Tail(todo[r]) = Tail(todo[r])
  BY <1>1, <1>2, StepsAhead
<1>4. CallsDB.do = "DB"
  BY DEF CallsDB
<1>5. PICK next : next = Tail(todo[r])
  OBVIOUS
<1>6. todo' = [todo EXCEPT ![r] = next]
  BY <1>1, <1>3, <1>5
<1>7. \/ todo[r] \in NoPlan /\ next \in NoPlan
      \/ \E h \in helpers : todo[r] \in Settled(h) /\ next \in Settled(h)
  BY <1>1, <1>3, <1>4, <1>5 DEF Ahead, NoPlan
<1>8. /\ DOMAIN todo' = Routines
      /\ \A other \in Routines :
           todo'[other] \in NoPlan \/ \E h \in helpers' : todo'[other] \in Plans(h)
      /\ todo'[r] = next /\ \A other \in Routines \ {r} : todo'[other] = todo[other]
  <2>1. helpers \subseteq helpers' /\ (next \in NoPlan \/ \E h \in helpers' : next \in Plans(h))
    BY <1>1, <1>7 DEF Plans
  <2> QED
    BY <1>2, <1>6, <2>1, TodoMoves
<1>9. /\ processors \in [Ops -> Seq(Callbacks)] /\ sessions \in Nat
      /\ \A h \in helpers : h \in Nat /\ h # 0 /\ h <= sessions
  BY <1>2, HelpersAreNumbers DEF CallTypes
<1>10. /\ processors' \in [Ops -> Seq(Callbacks)] /\ sessions' \in 0 .. MaxSessions
       /\ sessions <= sessions' /\ FirstIsAuto' /\ IDsAreFresh' /\ SeenInv'
       /\ overwritten \subseteq overwritten'
       /\ \A h \in helpers : \A op \in Ops \ overwritten' :
            Count(processors'[op], Mine(h)) = Count(processors[op], Mine(h))
  <2>1. CASE registered = << >>
    <3>1. UNCHANGED <<sessions, processors, helpers, tracked, seen, overwritten>>
      BY <1>1, <2>1 DEF DBRegisters
    <3> QED
      BY <1>2, <1>9, <3>1 DEF CallInv, CallTypes, FirstIsAuto, IDsAreFresh, SeenInv, Sound
  <2>2. CASE registered # << >>
    <3>1. PICK of, written :
            of = sessions + 1 /\ written = With(seen[r], <<"ensure_table">>, <<"ensure_table">>, of)
      OBVIOUS
    <3>2. /\ sessions < MaxSessions /\ sessions' = of
          /\ WriteCallbacks(r, written)
      BY <2>2, <3>1 DEF DBRegisters, NewTransactionTestHelper
    <3>3. of \in Nat /\ sessions < of /\ of <= MaxSessions
      BY <1>9, <3>1, <3>2, ResolverCallbacksAssumption
    <3>4. DOMAIN seen[r] = Ops /\ "query" \in Ops /\ "create" \in Ops
      <4>1. Touched(CallsDB) = Ops
        BY <1>4, <2>2 DEF Touched
      <4> QED
        BY <1>1, <3>2, <4>1 DEF WriteCallbacks, Ops
    <3>5. /\ processors' \in [Ops -> Seq(Callbacks)]
          /\ \A op \in Ops : Grown(Based(r)[op], processors'[op], <<"ensure_table">>, of)
          /\ FirstIsAuto'
          /\ \A op \in Ops : \A n \in DOMAIN processors'[op] : processors'[op][n].of <= sessions'
      <4>1. sessions' \in Nat /\ sessions <= sessions' /\ of <= sessions' /\ <<"ensure_table">> \in Seq(CallbackNames)
        BY <1>9, <3>2, <3>3, NamesToRegister
      <4>2. WriteCallbacks(r, With(seen[r], <<"ensure_table">>, <<"ensure_table">>, of))
        BY <3>1, <3>2
      <4>3. \A op \in Ops : Grown(Based(r)[op], processors'[op],
                                 IF op = "query" THEN <<"ensure_table">> ELSE <<"ensure_table">>, of)
        BY <3>3, <3>4, <4>1, <4>2, GrownProcessors
      <4>4. /\ processors' \in [Ops -> Seq(Callbacks)]
            /\ FirstIsAuto'
            /\ \A op \in Ops : \A n \in DOMAIN processors'[op] : processors'[op][n].of <= sessions'
        BY <3>3, <3>4, <4>1, <4>2, GrownProcessors
      <4> QED
        BY <4>3, <4>4
    <3>6. /\ overwritten \subseteq overwritten' /\ SeenInv'
          /\ \A op \in Ops \ overwritten' : Based(r)[op] = processors[op]
      BY <1>9, <3>2, <3>3, Writing
    <3>7. IDsAreFresh'
      <4>1. \A h \in (1 .. MaxSessions) \ helpers' : tracked'[h] = {}
        BY <1>1 DEF CallInv, IDsAreFresh
      <4> QED
        BY <3>5, <4>1 DEF IDsAreFresh
    <3>8. ASSUME NEW h \in helpers, NEW op \in Ops \ overwritten'
          PROVE  Count(processors'[op], Mine(h)) = Count(processors[op], Mine(h))
      <4>1. h \in Nat /\ h # of
        BY <1>9, <3>3
      <4>2. Count(processors[op], Mine(h)) \in Nat
        BY <1>9, CountType
      <4>3. Grown(processors[op], processors'[op], <<"ensure_table">>, of)
        BY <3>5, <3>6
      <4> QED
        BY <4>1, <4>2, <4>3 DEF Grown
    <3> QED
      BY <1>9, <3>2, <3>3, <3>5, <3>6, <3>7, <3>8
  <2> QED
    BY <2>1, <2>2
<1>11. CallTypes'
  <2>1. helpers' \subseteq 1 .. sessions'
    BY <1>1, <1>2, <1>9, <1>10 DEF CallTypes
  <2> QED
    BY <1>1, <1>2, <1>8, <1>10, <2>1 DEF CallTypes
<1>12. ASSUME NEW g \in helpers
       PROVE  HelperInv(g)'
  <2>1. g \in Nat \ {0}
    BY <1>9
  <2>2. Undisturbed(g, todo[r], next)
    <3>1. CASE todo[r] \in NoPlan /\ next \in NoPlan
      BY <3>1, IdleUndisturbed
    <3>2. CASE \E h \in helpers : todo[r] \in Settled(h) /\ next \in Settled(h)
      <4>1. PICK h \in helpers : todo[r] \in Settled(h) /\ next \in Settled(h)
        BY <3>2
      <4>2. CASE h = g
        BY <4>1, <4>2 DEF Undisturbed
      <4>3. CASE h # g
        <5>1. h \in Nat \ {0} /\ todo[r] \in Plans(h) /\ next \in Plans(h)
          BY <1>9, <4>1 DEF Plans
        <5> QED
          BY <2>1, <4>3, <5>1, OthersUndisturbed
      <4> QED
        BY <4>2, <4>3
    <3> QED
      BY <1>7, <3>1, <3>2
  <2>3. \A other \in Routines : Undisturbed(g, todo[other], todo'[other])
    BY <1>8, <2>2 DEF Undisturbed
  <2>4. HelperInv(g)
    BY DEF CallInv
  <2> QED
    BY <1>1, <1>10, <2>3, <2>4, HelperUntouched
<1> QED
  BY <1>1, <1>10, <1>11, <1>12 DEF CallInv

LEMMA WrapKeeps ==
  ASSUME CallInv, NEW r \in Routines, WrapTransactionWithTableInfo(r)
  PROVE  CallInv'
<1>1. /\ todo[r] # <<>> /\ Head(todo[r]).do = "wrap"
      /\ UNCHANGED <<registered, processors, sessions, helpers, uses, seen, overwritten, statement, mutex>>
  BY DEF WrapTransactionWithTableInfo
<1>2. CallTypes
  BY DEF CallInv
<1>3. Ahead(r, Tail(todo[r])) /\ <<>> \o Tail(todo[r]) = Tail(todo[r])
  BY <1>1, <1>2, StepsAhead
<1>4. PICK next : next = Tail(todo[r])
  OBVIOUS
<1>5. PICK h \in helpers : /\ todo[r] \in Settled(h) /\ next \in {<<>>, <<Resolves(h)>>}
                           /\ Head(todo[r]).of = h
  BY <1>1, <1>3, <1>4 DEF Ahead
<1>6. h \in Nat \ {0} /\ h \in 1 .. MaxSessions
  BY <1>2, HelpersAreNumbers
<1>7. todo[r] \in Plans(h) /\ todo[r] \notin Replacing(h)
  BY <1>5, SettledIsNotReplacing
<1>8. HelperInv(h)
  BY DEF CallInv
<1>9. FirstIsAuto' /\ SeenInv'
  BY <1>1 DEF CallInv, FirstIsAuto, SeenInv, Sound
<1>10. CASE registered = << >>
  <2>1. todo' = [todo EXCEPT ![r] = next] /\ tracked' = tracked
    BY <1>3, <1>4, <1>10 DEF WrapTransactionWithTableInfo, Rest
  <2>2. next \in NoPlan \/ next \in Settled(h)
    BY <1>5 DEF NoPlan, Settled, Finishing
  <2>3. next \in NoPlan \cup Plans(h)
    BY <2>2 DEF Plans
  <2>4. /\ DOMAIN todo' = Routines
        /\ \A other \in Routines :
             todo'[other] \in NoPlan \/ \E g \in helpers' : todo'[other] \in Plans(g)
        /\ todo'[r] = next /\ \A other \in Routines \ {r} : todo'[other] = todo[other]
    <3>1. helpers \subseteq helpers' /\ (next \in NoPlan \/ \E g \in helpers' : next \in Plans(g))
      BY <1>1, <2>3
    <3> QED
      BY <1>2, <2>1, <3>1, TodoMoves
  <2>5. CallTypes'
    BY <1>1, <1>2, <2>1, <2>4 DEF CallTypes
  <2>6. IDsAreFresh'
    BY <1>1, <2>1 DEF CallInv, IDsAreFresh
  <2>7. HelperInv(h)'
    <3>1. Undisturbed(h, todo[r], next)
      <4>1. CASE next \in NoPlan
        BY <1>7, <4>1, PlansNameTheHelper DEF Undisturbed
      <4>2. CASE next \in Settled(h)
        BY <1>5, <4>2 DEF Undisturbed
      <4> QED
        BY <2>2, <4>1, <4>2
    <3>2. \A other \in Routines : Undisturbed(h, todo[other], todo'[other])
      BY <2>4, <3>1 DEF Undisturbed
    <3> QED
      BY <1>1, <1>8, <2>1, <3>2, HelperUntouched
  <2>8. ASSUME NEW g \in helpers, g # h
        PROVE  HelperInv(g)'
    BY <1>1, <1>7, <2>1, <2>3, <2>8, OtherHelpersKept
  <2> QED
    BY <1>1, <1>9, <2>5, <2>6, <2>7, <2>8 DEF CallInv
<1>11. CASE registered # << >>
  <2>1. PICK callbacks : callbacks = tracked[h] \cap {"ensure_table"}
    OBVIOUS
  <2>2. callbacks \in SUBSET {"ensure_table"} /\ ("ensure_table" \in callbacks <=> "ensure_table" \in tracked[h])
    BY <2>1
  <2>3. PICK plan : plan = <<Removal(callbacks, h), Ensures(h), Creates(h)>> \o next
    OBVIOUS
  <2>4. todo' = [todo EXCEPT ![r] = plan] /\ tracked' = [tracked EXCEPT ![h] = {"ensure_table"}]
    BY <1>4, <1>5, <1>11, <2>1, <2>3
       DEF WrapTransactionWithTableInfo, Rest, RemoveExistingCallbacks, Tracked, Ensures, Creates
  <2>5. plan \in Removing(callbacks, h)
    <3>1. /\ <<Removal(callbacks, h), Ensures(h), Creates(h)>> \o <<>>
               = <<Removal(callbacks, h), Ensures(h), Creates(h)>>
          /\ <<Removal(callbacks, h), Ensures(h), Creates(h)>> \o <<Resolves(h)>>
               = <<Removal(callbacks, h), Ensures(h), Creates(h), Resolves(h)>>
      BY ThreeAndMore
    <3> QED
      BY <1>5, <2>3, <3>1 DEF Removing
  <2>6. plan \in Replacing(h) /\ plan \in Plans(h)
    BY <2>2, <2>5, ReplacingCases DEF Plans
  <2>7. plan \notin Restoring(h) /\ \A others : plan \in Removing(others, h) => others = callbacks
    <3>1. Head(plan) = Removal(callbacks, h) /\ Head(plan).do = "remove"
      BY <2>5, RemovingMoves
    <3>2. plan \notin Restoring(h)
      BY <3>1, RestoringMoves
    <3>3. ASSUME NEW others, plan \in Removing(others, h)
          PROVE  others = callbacks
      <4>1. Removal(others, h) = Removal(callbacks, h)
        BY <3>1, <3>3, RemovingMoves
      <4>2. Removal(others, h).callbacks = others /\ Removal(callbacks, h).callbacks = callbacks
        BY DEF Removal
      <4> QED
        BY <4>1, <4>2
    <3> QED
      BY <3>2, <3>3
  <2>8. /\ DOMAIN todo' = Routines
        /\ \A other \in Routines :
             todo'[other] \in NoPlan \/ \E g \in helpers' : todo'[other] \in Plans(g)
    <3>1. helpers \subseteq helpers' /\ \E g \in helpers' : plan \in Plans(g)
      BY <1>1, <2>6
    <3> QED
      BY <1>2, <2>4, <3>1, TodoMoves
  <2>9. /\ tracked' \in [1 .. MaxSessions -> SUBSET CallbackNames]
        /\ tracked'[h] = {"ensure_table"}
        /\ \A g \in 1 .. MaxSessions : g # h => tracked'[g] = tracked[g]
    BY <1>2, <1>6, <2>4 DEF CallTypes, CallbackNames
  <2>10. CallTypes'
    BY <1>1, <1>2, <2>8, <2>9 DEF CallTypes
  <2>11. IDsAreFresh'
    BY <1>1, <1>5, <2>9 DEF CallInv, IDsAreFresh
  <2>12. /\ todo'[r] = plan
         /\ \A other \in Routines \ {r} : todo[other] \notin Plans(h) /\ todo'[other] \notin Plans(h)
         /\ \A other \in Routines \ {r} :
              /\ todo[other] \notin Replacing(h) /\ todo'[other] \notin Replacing(h)
              /\ todo'[other] \notin Restoring(h)
              /\ \A others \in SUBSET {"ensure_table"} : todo'[other] \notin Removing(others, h)
    BY <1>7, <2>4, OneRoutinePerHelper
  <2>13. HelperInv(h)'
    <3>1. \A op \in Ops \ overwritten' :
            Count(processors'[op], Mine(h)) = IF "ensure_table" \in callbacks THEN 1 ELSE 0
      <4>1. \A other \in Routines : todo[other] \notin Replacing(h)
        BY <1>7, <2>12
      <4> QED
        BY <1>1, <1>8, <2>2, <4>1 DEF HelperInv
    <3>2. \A other \in Routines : todo'[other] \in Plans(h) => other = r
      BY <2>12
    <3>3. "ensure_table" \in tracked'[h]
      BY <2>9
    <3>4. \A other \in Routines : todo'[other] \notin Restoring(h)
      BY <2>7, <2>12
    <3>5. ASSUME NEW other \in Routines, NEW others \in SUBSET {"ensure_table"},
                 todo'[other] \in Removing(others, h)
          PROVE  others = callbacks
      BY <2>7, <2>12, <3>5
    <3>6. ~\A other \in Routines : todo'[other] \notin Replacing(h)
      BY <2>6, <2>12
    <3> QED
      BY <3>1, <3>2, <3>3, <3>4, <3>5, <3>6 DEF HelperInv
  <2>14. ASSUME NEW g \in helpers, g # h
         PROVE  HelperInv(g)'
    <3>1. tracked'[g] = tracked[g]
      BY <1>2, <2>9, <2>14, HelpersAreNumbers
    <3> QED
      BY <1>1, <1>7, <2>4, <2>6, <2>14, <3>1, OtherHelpersKept
  <2> QED
    BY <1>1, <1>9, <2>10, <2>11, <2>13, <2>14 DEF CallInv
<1> QED
  BY <1>10, <1>11
LEMMA RegistersKeeps ==
  ASSUME CallInv, NEW r \in Routines, Registers(r)
  PROVE  CallInv'
<1>1. PICK step, next : /\ step = Head(todo[r]) /\ next = Tail(todo[r])
  OBVIOUS
<1>2. /\ todo[r] # <<>> /\ step.do = "register"
      /\ WriteCallbacks(r, With(seen[r], step.query, step.create, step.of))
      /\ tracked' = IF step.create = <<"table_resolver">>
                    THEN [tracked EXCEPT ![step.of] = @ \cup {"table_resolver"}] ELSE tracked
      /\ todo' = [todo EXCEPT ![r] = <<>> \o next]
      /\ UNCHANGED <<registered, sessions, helpers, uses, statement, mutex>>
  BY <1>1 DEF Registers, Rest
<1>3. CallTypes
  BY DEF CallInv
<1>4. Ahead(r, next) /\ <<>> \o next = next
  BY <1>1, <1>2, <1>3, StepsAhead
<1>5. todo' = [todo EXCEPT ![r] = next]
  BY <1>2, <1>4
<1>6. PICK h \in helpers :
        \/ todo[r] \in Settled(h) /\ next \in Settled(h) \cup {<<>>}
             /\ step \in {ComplexFix(h), QueryFix(h), Creates(h), Resolves(h)}
        \/ todo[r] \in Restoring(h) /\ next \in Settled(h) /\ step = Ensures(h)
  BY <1>1, <1>2, <1>4 DEF Ahead
<1>7. h \in Nat \ {0} /\ h \in 1 .. MaxSessions /\ h <= sessions
  BY <1>3, HelpersAreNumbers
<1>8. HelperInv(h)
  BY DEF CallInv
<1>10. next \in Settled(h) \cup {<<>>}
  BY <1>6
<1>11. next \in NoPlan \cup Plans(h) /\ todo[r] \in Plans(h)
  BY <1>6, <1>10 DEF NoPlan, Plans, Replacing
<1>12. /\ DOMAIN todo' = Routines
       /\ \A other \in Routines :
            todo'[other] \in NoPlan \/ \E g \in helpers' : todo'[other] \in Plans(g)
       /\ todo'[r] = next /\ \A other \in Routines \ {r} : todo'[other] = todo[other]
  <2>1. helpers \subseteq helpers' /\ (next \in NoPlan \/ \E g \in helpers' : next \in Plans(g))
    BY <1>2, <1>11
  <2> QED
    BY <1>3, <1>5, <2>1, TodoMoves
<1>13. /\ ComplexFix(h).query = <<>> /\ ComplexFix(h).create = <<"complex_table_fix">> /\ ComplexFix(h).of = h
       /\ QueryFix(h).query = <<"query_table_fix">> /\ QueryFix(h).create = <<>> /\ QueryFix(h).of = h
       /\ Resolves(h).query = <<>> /\ Resolves(h).create = <<"table_resolver">> /\ Resolves(h).of = h
       /\ Creates(h).query = <<>> /\ Creates(h).create = <<"create_table_resolver">> /\ Creates(h).of = h
       /\ Ensures(h).query = <<"ensure_table">> /\ Ensures(h).create = <<"ensure_table">> /\ Ensures(h).of = h
  BY DEF ComplexFix, QueryFix, Creates, Resolves, Ensures, Register
<1>14. step.of = h
  BY <1>6, <1>13
<1>15. PICK query \in Seq(CallbackNames), create \in Seq(CallbackNames) :
         /\ query = step.query /\ create = step.create
         /\ step # Ensures(h) =>
              Count(query, {"ensure_table"}) = 0 /\ Count(create, {"ensure_table"}) = 0
         /\ step = Ensures(h) =>
              Count(query, {"ensure_table"}) = 1 /\ Count(create, {"ensure_table"}) = 1
  <2>1. CASE step = ComplexFix(h)
    <3>1. step # Ensures(h)
      BY <1>13, <2>1
    <3> QED
      BY <1>13, <2>1, <3>1, NamesToRegister
  <2>2. CASE step = QueryFix(h)
    <3>1. step # Ensures(h)
      BY <1>13, <2>2
    <3> QED
      BY <1>13, <2>2, <3>1, NamesToRegister
  <2>3. CASE step = Resolves(h)
    <3>1. step # Ensures(h)
      BY <1>13, <2>3
    <3> QED
      BY <1>13, <2>3, <3>1, NamesToRegister
  <2>4. CASE step = Ensures(h)
    BY <1>13, <2>4, NamesToRegister
  <2>5. CASE step = Creates(h)
    <3>1. step # Ensures(h)
      BY <1>13, <2>5
    <3> QED
      BY <1>13, <2>5, <3>1, NamesToRegister
  <2> QED
    BY <1>6, <2>1, <2>2, <2>3, <2>4, <2>5
<1>16. /\ processors' \in [Ops -> Seq(Callbacks)]
       /\ \A op \in Ops : Grown(Based(r)[op], processors'[op],
                                IF op = "query" THEN query ELSE create, h)
       /\ FirstIsAuto'
       /\ \A op \in Ops : \A n \in DOMAIN processors'[op] : processors'[op][n].of <= sessions'
  <2>1. WriteCallbacks(r, With(seen[r], query, create, h))
    BY <1>2, <1>14, <1>15
  <2>2. DOMAIN seen[r] = {op \in Ops : step[op] # <<>>}
    BY <1>1, <1>2 DEF WriteCallbacks, Touched
  <2>3. /\ "query" \notin DOMAIN seen[r] => query = <<>>
        /\ "create" \notin DOMAIN seen[r] => create = <<>>
    BY <1>15, <2>2 DEF Ops
  <2>4. sessions' \in Nat /\ sessions <= sessions' /\ h <= sessions'
    BY <1>2, <1>3, <1>7, HelpersAreNumbers
  <2> QED
    BY <1>7, <2>1, <2>3, <2>4, GrownProcessors
<1>23. /\ overwritten \subseteq overwritten' /\ SeenInv'
       /\ \A op \in Ops \ overwritten' : op \notin overwritten /\ Based(r)[op] = processors[op]
  <2>1. PICK written : written = With(seen[r], step.query, step.create, step.of)
    OBVIOUS
  <2>2. sessions' \in Nat /\ sessions <= sessions'
    BY <1>2, <1>3, HelpersAreNumbers
  <2> QED
    BY <1>2, <2>1, <2>2, Writing
<1>24. \A op \in Ops \ overwritten' : Grown(processors[op], processors'[op],
                                            IF op = "query" THEN query ELSE create, h)
  BY <1>16, <1>23
<1>17. /\ tracked' \in [1 .. MaxSessions -> SUBSET CallbackNames]
       /\ \A g \in 1 .. MaxSessions : g # h => tracked'[g] = tracked[g]
       /\ \A g \in 1 .. MaxSessions : "ensure_table" \in tracked'[g] <=> "ensure_table" \in tracked[g]
  <2>1. CASE step.create = <<"table_resolver">>
    <3>1. tracked' = [tracked EXCEPT ![h] = @ \cup {"table_resolver"}]
      BY <1>2, <1>14, <2>1
    <3> QED
      BY <1>3, <1>7, <3>1 DEF CallTypes, CallbackNames
  <2>2. CASE step.create # <<"table_resolver">>
    <3>1. tracked' = tracked
      BY <1>2, <2>2
    <3> QED
      BY <1>3, <3>1 DEF CallTypes
  <2> QED
    BY <2>1, <2>2
<1>18. CallTypes'
  BY <1>2, <1>3, <1>12, <1>16, <1>17 DEF CallTypes
<1>19. IDsAreFresh'
  <2>1. \A g \in (1 .. MaxSessions) \ helpers' : tracked'[g] = {}
    BY <1>2, <1>6, <1>17 DEF CallInv, IDsAreFresh
  <2> QED
    BY <1>16, <2>1 DEF IDsAreFresh
<1>20. processors \in [Ops -> Seq(Callbacks)]
  BY <1>3 DEF CallTypes
<1>21. ASSUME NEW g \in helpers, g # h
       PROVE  HelperInv(g)'
  <2>1. g \in Nat /\ g \in 1 .. MaxSessions
    BY <1>3, HelpersAreNumbers
  <2>2. ASSUME NEW op \in Ops \ overwritten'
        PROVE  Count(processors'[op], Mine(g)) = Count(processors[op], Mine(g))
    <3>1. Count(processors[op], Mine(g)) \in Nat
      BY <1>20, CountType
    <3> QED
      BY <1>21, <1>24, <2>1, <3>1 DEF Grown
  <2> QED
    BY <1>5, <1>11, <1>17, <1>21, <1>23, <2>1, <2>2, OtherHelpersKept
<1>22. HelperInv(h)'
  <2>1. CASE step # Ensures(h)
    <3>1. todo[r] \in Settled(h) /\ todo[r] \notin Replacing(h)
      BY <1>6, <2>1, SettledIsNotReplacing
    <3>2. Undisturbed(h, todo[r], next)
      <4>1. CASE next = <<>>
        BY <3>1, <4>1, PlansNameTheHelper DEF Undisturbed, NoPlan
      <4>2. CASE next \in Settled(h)
        BY <3>1, <4>2 DEF Undisturbed
      <4> QED
        BY <1>10, <4>1, <4>2
    <3>3. \A other \in Routines : Undisturbed(h, todo[other], todo'[other])
      BY <1>12, <3>2 DEF Undisturbed
    <3>4. ASSUME NEW op \in Ops \ overwritten'
          PROVE  Count(processors'[op], Mine(h)) = Count(processors[op], Mine(h))
      <4>1. Count(processors[op], Mine(h)) \in Nat
        BY <1>20, CountType
      <4>2. Count(IF op = "query" THEN query ELSE create, {"ensure_table"}) = 0
        BY <1>15, <2>1
      <4> QED
        BY <1>7, <1>24, <4>1, <4>2 DEF Grown
    <3> QED
      BY <1>7, <1>8, <1>17, <1>23, <3>3, <3>4, HelperUntouched
  <2>2. CASE step = Ensures(h)
    <3>1. todo[r] \in Restoring(h) /\ todo[r] \in Replacing(h)
      BY <1>6, <2>2, OtherSteps, ReplacingCases
    <3>2. /\ \A other \in Routines \ {r} : todo'[other] \notin Plans(h)
          /\ \A other \in Routines \ {r} :
               /\ todo'[other] \notin Replacing(h) /\ todo'[other] \notin Restoring(h)
               /\ \A others \in SUBSET {"ensure_table"} : todo'[other] \notin Removing(others, h)
      BY <1>5, <1>11, OneRoutinePerHelper
    <3>3. next \notin Replacing(h)
      <4>1. CASE next = <<>>
        BY <4>1, PlansNameTheHelper DEF NoPlan, Plans
      <4>2. CASE next \in Settled(h)
        BY <4>2, SettledIsNotReplacing
      <4> QED
        BY <1>10, <4>1, <4>2
    <3>4. \A other \in Routines :
            /\ todo'[other] \notin Replacing(h) /\ todo'[other] \notin Restoring(h)
            /\ \A others \in SUBSET {"ensure_table"} : todo'[other] \notin Removing(others, h)
      BY <1>12, <3>2, <3>3, ReplacingCases
    <3>5. "ensure_table" \in tracked'[h]
      BY <1>7, <1>8, <1>17, <3>1 DEF HelperInv
    <3>6. ASSUME NEW op \in Ops \ overwritten'
          PROVE  Count(processors'[op], Mine(h)) = 1
      <4>1. Count(processors[op], Mine(h)) = 0
        BY <1>8, <1>23, <3>1 DEF HelperInv
      <4>2. Count(IF op = "query" THEN query ELSE create, {"ensure_table"}) = 1
        BY <1>15, <2>2
      <4> QED
        BY <1>7, <1>24, <4>1, <4>2 DEF Grown
    <3>7. \A other \in Routines : todo'[other] \in Plans(h) => other = r
      BY <3>2
    <3> QED
      BY <3>4, <3>5, <3>6, <3>7 DEF HelperInv
  <2> QED
    BY <2>1, <2>2
<1> QED
  BY <1>2, <1>16, <1>18, <1>19, <1>21, <1>22, <1>23 DEF CallInv

LEMMA RemovalShrinks ==
  ASSUME CallInv, NEW r \in Routines, Removes(r)
  PROVE  \E h \in helpers : \E callbacks \in SUBSET {"ensure_table"} :
           /\ todo[r] # <<>> /\ Head(todo[r]) = Removal(callbacks, h)
           /\ todo[r] \in Removing(callbacks, h) /\ Tail(todo[r]) \in Restoring(h)
           /\ todo' = [todo EXCEPT ![r] = Tail(todo[r])]
           /\ processors' \in [Ops -> Seq(Callbacks)]
           /\ \A op \in Ops : Shrunk(Based(r)[op], processors'[op], callbacks, h)
           /\ overwritten \subseteq overwritten' /\ SeenInv'
           /\ \A op \in Ops \ overwritten' : op \notin overwritten /\ Based(r)[op] = processors[op]
           /\ UNCHANGED <<registered, sessions, helpers, tracked, uses, statement, mutex>>
<1>0. CallTypes
  BY DEF CallInv
<1>1. PICK step, next, written :
        step = Head(todo[r]) /\ next = Tail(todo[r]) /\ written = Without(seen[r], step)
  OBVIOUS
<1>2. /\ todo[r] # <<>> /\ step.do = "remove"
      /\ WriteCallbacks(r, written)
      /\ todo' = [todo EXCEPT ![r] = <<>> \o next]
      /\ UNCHANGED <<registered, sessions, helpers, tracked, uses, statement, mutex>>
  BY <1>1 DEF Removes, Rest
<1>3. Ahead(r, next) /\ <<>> \o next = next
  BY <1>0, <1>1, <1>2, StepsAhead
<1>4. PICK h \in helpers, callbacks \in SUBSET {"ensure_table"} :
        /\ todo[r] \in Removing(callbacks, h) /\ next \in Restoring(h)
        /\ step = Removal(callbacks, h)
  BY <1>1, <1>2, <1>3 DEF Ahead
<1>5. h \in Nat
  BY <1>0, HelpersAreNumbers
<1>6. DOMAIN seen[r] = IF callbacks = {} THEN {} ELSE Ops
  BY <1>1, <1>2, <1>4 DEF WriteCallbacks, Touched, Removal
<1>7. ASSUME NEW op \in Ops
      PROVE  processors'[op] \in Seq(Callbacks) /\ Shrunk(Based(r)[op], processors'[op], callbacks, h)
  <2>1. PICK old, new :
          old \in Seq(Callbacks) /\ old = Based(r)[op] /\ new = processors'[op]
    BY BasesAreSound DEF Sound
  <2>2. CASE callbacks # {}
    <3>1. old = seen[r][op]
      BY <1>6, <2>1, <2>2 DEF Based
    <3>2. new = written[op]
      BY <1>2, <1>6, <2>1, <2>2 DEF WriteCallbacks
    <3>3. new = Keeping(old, {n \in DOMAIN old : ~Names(Removal(callbacks, h), old[n])})
      BY <1>1, <1>4, <1>6, <2>2, <3>1, <3>2 DEF Without
    <3>4. new \in Seq(Callbacks) /\ Shrunk(old, new, callbacks, h)
      <4>1. PICK cs : cs = callbacks /\ cs \in SUBSET {"ensure_table"}
        OBVIOUS
      <4>2. new = Keeping(old, {n \in DOMAIN old : ~Names(Removal(cs, h), old[n])})
        BY <3>3, <4>1
      <4>3. Shrunk(old, new, cs, h)
        BY <1>5, <2>1, <4>1, <4>2, RemovingKeeps
      <4> QED
        BY <4>1, <4>3 DEF Shrunk
    <3> QED
      BY <2>1, <3>4
  <2>3. CASE callbacks = {}
    <3>1. old = processors[op] /\ new = processors[op]
      BY <1>2, <1>6, <2>1, <2>3 DEF Based, WriteCallbacks
    <3>2. \A m \in DOMAIN old : \E n \in DOMAIN new : new[n] = old[m]
      BY <3>1
    <3>3. Shrunk(old, old, callbacks, h)
      BY <2>1, <2>3 DEF Shrunk
    <3> QED
      BY <2>1, <3>1, <3>3
  <2> QED
    BY <2>2, <2>3
<1>8. processors' \in [Ops -> Seq(Callbacks)]
  <2>1. processors' = [op \in Ops |-> processors'[op]]
    BY <1>2 DEF WriteCallbacks
  <2> QED
    BY <1>7, <2>1
<1>9. /\ overwritten \subseteq overwritten' /\ SeenInv'
      /\ \A op \in Ops \ overwritten' : op \notin overwritten /\ Based(r)[op] = processors[op]
  <2>1. sessions' \in Nat /\ sessions <= sessions'
    BY <1>0, <1>2, HelpersAreNumbers
  <2> QED
    BY <1>2, <2>1, Writing
<1> QED
  BY <1>1, <1>2, <1>3, <1>4, <1>7, <1>8, <1>9

LEMMA RemovesKeeps ==
  ASSUME CallInv, NEW r \in Routines, Removes(r)
  PROVE  CallInv'
<1>1. CallTypes
  BY DEF CallInv
<1>2. PICK h, callbacks, next :
        /\ h \in helpers /\ callbacks \in SUBSET {"ensure_table"}
        /\ todo[r] \in Removing(callbacks, h) /\ next \in Restoring(h)
        /\ todo' = [todo EXCEPT ![r] = next]
        /\ processors' \in [Ops -> Seq(Callbacks)]
        /\ \A op \in Ops : Shrunk(Based(r)[op], processors'[op], callbacks, h)
        /\ overwritten \subseteq overwritten' /\ SeenInv'
        /\ \A op \in Ops \ overwritten' : op \notin overwritten /\ Based(r)[op] = processors[op]
        /\ UNCHANGED <<registered, sessions, helpers, tracked, uses, statement, mutex>>
  BY RemovalShrinks
<1>12. \A op \in Ops : Sound(Based(r)[op], sessions)
  BY BasesAreSound
<1>13. \A op \in Ops \ overwritten' : Shrunk(processors[op], processors'[op], callbacks, h)
  BY <1>2
<1>3. h \in Nat \ {0} /\ h \in 1 .. MaxSessions
  BY <1>1, <1>2, HelpersAreNumbers
<1>4. HelperInv(h)
  BY <1>2 DEF CallInv
<1>5. /\ todo[r] \in Replacing(h) /\ next \in Replacing(h)
      /\ todo[r] \in Plans(h) /\ next \in Plans(h)
  BY <1>2, ReplacingCases DEF Plans
<1>6. /\ DOMAIN todo' = Routines
      /\ \A other \in Routines :
           todo'[other] \in NoPlan \/ \E g \in helpers' : todo'[other] \in Plans(g)
      /\ todo'[r] = next
  <2>1. helpers \subseteq helpers' /\ \E g \in helpers' : next \in Plans(g)
    BY <1>2, <1>5
  <2> QED
    BY <1>1, <1>2, <2>1, TodoMoves
<1>7. CallTypes'
  BY <1>1, <1>2, <1>6 DEF CallTypes
<1>8. FirstIsAuto'
  BY <1>2, <1>12 DEF FirstIsAuto, Shrunk, Sound
<1>9. IDsAreFresh'
  <2>1. \A op \in Ops : \A n \in DOMAIN processors'[op] : processors'[op][n].of <= sessions'
    BY <1>2, <1>12 DEF Shrunk, Sound
  <2>2. \A g \in (1 .. MaxSessions) \ helpers' : tracked'[g] = {}
    BY <1>2 DEF CallInv, IDsAreFresh
  <2> QED
    BY <2>1, <2>2 DEF IDsAreFresh
<1>10. HelperInv(h)'
  <2>1. /\ \A other \in Routines \ {r} : todo'[other] \notin Plans(h)
        /\ \A other \in Routines \ {r} :
             /\ todo'[other] \notin Replacing(h) /\ todo'[other] \notin Restoring(h)
             /\ \A others \in SUBSET {"ensure_table"} : todo'[other] \notin Removing(others, h)
    BY <1>2, <1>5, OneRoutinePerHelper
  <2>2. \A others : next \notin Removing(others, h)
    <3>1. Head(next).do = "register"
      BY <1>2, RestoringMoves
    <3> QED
      BY <3>1, RemovingMoves
  <2>3. ASSUME NEW op \in Ops \ overwritten'
        PROVE  Count(processors'[op], Mine(h)) = 0
    <3>1. Count(processors[op], Mine(h)) = IF "ensure_table" \in callbacks THEN 1 ELSE 0
      BY <1>2, <1>4 DEF HelperInv
    <3> QED
      BY <1>3, <1>13, <3>1 DEF Shrunk
  <2>4. "ensure_table" \in tracked'[h]
    BY <1>2, <1>4, <1>5 DEF HelperInv
  <2>5. \A other \in Routines : todo'[other] \in Plans(h) => other = r
    BY <2>1
  <2>6. \A other \in Routines, others \in SUBSET {"ensure_table"} : todo'[other] \notin Removing(others, h)
    BY <1>6, <2>1, <2>2
  <2>7. ~\A other \in Routines : todo'[other] \notin Replacing(h)
    BY <1>5, <1>6
  <2> QED
    BY <2>3, <2>4, <2>5, <2>6, <2>7 DEF HelperInv
<1>11. ASSUME NEW g \in helpers, g # h
       PROVE  HelperInv(g)'
  <2>1. g \in Nat
    BY <1>1, HelpersAreNumbers
  <2>2. \A op \in Ops \ overwritten' : Count(processors'[op], Mine(g)) = Count(processors[op], Mine(g))
    BY <1>11, <1>13, <2>1 DEF Shrunk
  <2>3. "ensure_table" \in tracked'[g] <=> "ensure_table" \in tracked[g]
    BY <1>2
  <2> QED
    BY <1>2, <1>5, <1>11, <2>2, <2>3, OtherHelpersKept
<1> QED
  BY <1>2, <1>7, <1>8, <1>9, <1>10, <1>11 DEF CallInv
------------------------------------------------------------------------------
LEMMA InitInv == Init => Inv
<1> SUFFICES ASSUME Init PROVE Inv
  OBVIOUS
<1>1. StatementTypes
  <2>1. DOMAIN registered = {}
    BY DEF Init
  <2>2. IsFiniteSet(DOMAIN registered)
    BY <2>1, FS_EmptySet
  <2> QED
    BY <2>1, <2>2 DEF Init, StatementTypes, RegistryOK
<1>2. \A r \in Routines : StatementInv(r)
  BY DEF Init, StatementInv
<1>3. \A op \in Ops : processors[op] = <<Callback("auto", 0)>>
  BY DEF Init, AutoResolution
<1>4. Callback("auto", 0) \in Callbacks
  BY DEF Callback, Callbacks, CallbackNames
<1>5. processors \in [Ops -> Seq(Callbacks)]
  <2>1. <<Callback("auto", 0)>> \in Seq(Callbacks)
    BY <1>4
  <2> QED
    BY <2>1 DEF Init, AutoResolution
<1>6. CallTypes
  <2>1. sessions \in 0 .. MaxSessions /\ helpers \subseteq 1 .. sessions
    BY ResolverCallbacksAssumption DEF Init
  <2>2. <<>> \in NoPlan
    BY DEF NoPlan
  <2> QED
    BY <1>5, <2>1, <2>2 DEF Init, CallTypes
<1>7. FirstIsAuto
  BY <1>3 DEF FirstIsAuto
<1>8. IDsAreFresh
  <2>1. \A op \in Ops : \A n \in DOMAIN processors[op] : processors[op][n].of <= sessions
    BY <1>3 DEF Init, Callback
  <2> QED
    BY <2>1 DEF Init, IDsAreFresh
<1>9. SeenInv
  <2>1. \A r \in Routines : DOMAIN seen[r] = {}
    BY DEF Init, NotRead
  <2> QED
    BY <2>1 DEF Init, SeenInv
<1> QED
  BY <1>1, <1>2, <1>6, <1>7, <1>8, <1>9 DEF Init, Inv, CallInv

LEMMA CallsKeep ==
  ASSUME Inv, CallInv', UNCHANGED <<registered, statement, mutex>>
  PROVE  Inv'
BY StatementsUntouched DEF Inv

LEMMA NextInv == Inv /\ [Next]_vars => Inv'
<1> SUFFICES ASSUME Inv, [Next]_vars PROVE Inv'
  OBVIOUS
<1>0. CallInv
  BY DEF Inv
<1>1. CASE UNCHANGED vars
  <2>1. /\ UNCHANGED <<processors, sessions, helpers, tracked, todo, seen, overwritten>>
        /\ UNCHANGED <<registered, statement, mutex>>
    BY <1>1 DEF vars
  <2> QED
    BY <1>0, <2>1, CallsUntouched, CallsKeep
<1>2. ASSUME NEW r \in Routines, NEW m \in Models, RegisterModel(r, m)
      PROVE  Inv'
  BY <1>2, RegisterModelKeeps
<1>3. ASSUME NEW r \in Routines, DB(r)
      PROVE  Inv'
  <2>1. UNCHANGED <<registered, statement, mutex>>
    BY <1>3 DEF DB
  <2> QED
    BY <1>0, <1>3, <2>1, DBKeeps, CallsKeep
<1>4. ASSUME NEW r \in Routines, Transaction(r)
      PROVE  Inv'
  <2>1. UNCHANGED <<registered, statement, mutex>>
    BY <1>4 DEF Transaction
  <2> QED
    BY <1>0, <1>4, <2>1, TransactionKeeps, CallsKeep
<1>5. ASSUME NEW r \in Routines, NEW h \in helpers,
             ExecuteInTransaction(r, h) \/ WithRollbackOnly(r, h)
      PROVE  Inv'
  <2>1. PICK plan \in Starts(h) : Uses(r, h, plan)
    BY <1>5 DEF ExecuteInTransaction, WithRollbackOnly, Starts, Resolves
  <2>2. UNCHANGED <<registered, statement, mutex>>
    BY <2>1 DEF Uses
  <2> QED
    BY <1>0, <2>1, <2>2, UsesKeeps, CallsKeep
<1>6. ASSUME NEW r \in Routines, Calls(r)
      PROVE  Inv'
  <2>1. CASE DBRegisters(r)
    <3>1. UNCHANGED <<registered, statement, mutex>>
      BY <2>1 DEF DBRegisters
    <3> QED
      BY <1>0, <2>1, <3>1, DBRegistersKeeps, CallsKeep
  <2>2. CASE WrapTransactionWithTableInfo(r)
    <3>1. UNCHANGED <<registered, statement, mutex>>
      BY <2>2 DEF WrapTransactionWithTableInfo
    <3> QED
      BY <1>0, <2>2, <3>1, WrapKeeps, CallsKeep
  <2>3. CASE Registers(r)
    <3>1. UNCHANGED <<registered, statement, mutex>>
      BY <2>3 DEF Registers
    <3> QED
      BY <1>0, <2>3, <3>1, RegistersKeeps, CallsKeep
  <2>4. CASE Removes(r)
    <3>1. UNCHANGED <<registered, statement, mutex>>
      BY <2>4 DEF Removes
    <3> QED
      BY <1>0, <2>4, <3>1, RemovesKeeps, CallsKeep
  <2>5. CASE ReadCallbacks(r)
    <3>1. UNCHANGED <<registered, statement, mutex>>
      BY <2>5 DEF ReadCallbacks
    <3> QED
      BY <1>0, <2>5, <3>1, ReadCallbacksKeeps, CallsKeep
  <2> QED
    BY <1>6, <2>1, <2>2, <2>3, <2>4, <2>5 DEF Calls
<1>7. ASSUME NEW r \in Routines, NEW op \in Ops, NEW s \in Statements, Execute(r, op, s)
      PROVE  Inv'
  BY <1>7, ExecuteKeeps
<1>8. ASSUME NEW r \in Routines, RunCallback(r)
      PROVE  Inv'
  BY <1>8, RunCallbackKeeps
<1>9. ASSUME NEW r \in Routines, FinishStatement(r)
      PROVE  Inv'
  BY <1>9, FinishStatementKeeps
<1> QED
  BY <1>1, <1>2, <1>3, <1>4, <1>5, <1>6, <1>7, <1>8, <1>9 DEF Next

(* In every state the registry, the statements, the processors and the     *)
(* calls are as the invariant says.                                        *)
THEOREM InvariantHolds == Spec => []Inv
<1>1. Inv /\ [Next]_vars => Inv'
  BY NextInv
<1> QED
  BY <1>1, InitInv, PTL DEF Spec

------------------------------------------------------------------------------
(* The properties.                                                         *)

(* The pointers of GORM's users are named by the context's own resolver,   *)
(* which setupAutoTableResolution registers first.                         *)
THEOREM PointersAlone == Spec => []PointersResolveAlone
<1>1. Inv => PointersResolveAlone
  <2> SUFFICES ASSUME Inv, NEW r \in Routines, statement[r] # NoStatement, Statement(r).dest = "ptr"
               PROVE  /\ statement[r].end = "running"
                      /\ Finished(r) => statement[r].table = GormTable(Statement(r).type)
    BY DEF PointersResolveAlone
  <2>1. StatementInv(r)
    BY DEF Inv
  <2> QED
    BY <2>1 DEF StatementInv, Statement, Finished
<1> QED
  BY <1>1, InvariantHolds, PTL

(* ensureTableSet holds the context's mutex when it asks a pointer for its *)
(* name, which takes it again: that is reached only by pointers to slices. *)
THEOREM OnlySlicesBlock == Spec => []OnlyPointersToSlicesBlock
<1>1. Inv => OnlyPointersToSlicesBlock
  <2> SUFFICES ASSUME Inv, NEW r \in Routines, statement[r].end = "blocked"
               PROVE  /\ Statement(r).dest = "ptr_slice"
                      /\ ~Statement(r).parsed /\ ~Statement(r).model
                      /\ Cardinality(DOMAIN registered) # 1
    BY DEF OnlyPointersToSlicesBlock
  <2>1. StatementInv(r)
    BY DEF Inv
  <2>2. statement[r] # NoStatement
    <3>1. NoStatement.end = "none"
      BY DEF NoStatement
    <3> QED
      BY <3>1
  <2> QED
    BY <2>1, <2>2 DEF StatementInv, Statement
<1> QED
  BY <1>1, InvariantHolds, PTL

(* wrapTransactionWithTableInfo removes the helper's callbacks before it   *)
(* registers them again, in whatever order goroutines use the helpers and  *)
(* as long as none writes a processor over what another has written.       *)
THEOREM OneOfEach == Spec => []OneOfEachPerHelper
<1>1. Inv => OneOfEachPerHelper
  <2> SUFFICES ASSUME Inv, NEW h \in helpers, NEW op \in Ops \ overwritten
               PROVE  LET mine == {n \in DOMAIN processors[op] :
                                     processors[op][n] = Callback("ensure_table", h)} IN
                      /\ Cardinality(mine) <= 1
                      /\ ("ensure_table" \in tracked[h]
                            /\ \A r \in Routines : \A n \in DOMAIN todo[r] : todo[r][n].of # h)
                         => mine # {}
    BY DEF OneOfEachPerHelper
  <2> DEFINE mine == {n \in DOMAIN processors[op] : processors[op][n] = Callback("ensure_table", h)}
  <2>1. HelperInv(h)
    BY DEF Inv, CallInv
  <2>2. Count(processors[op], Mine(h)) = Cardinality(mine)
    <3>1. mine = Where(processors[op], Mine(h))
      BY DEF Where, Mine
    <3> QED
      BY <3>1 DEF Count
  <2>3. Cardinality(mine) \in {0, 1}
    <3>1. CASE \E r \in Routines : todo[r] \in Restoring(h)
      BY <2>1, <2>2, <3>1 DEF HelperInv
    <3>2. CASE \E r \in Routines, callbacks \in SUBSET {"ensure_table"} : todo[r] \in Removing(callbacks, h)
      BY <2>1, <2>2, <3>2 DEF HelperInv
    <3>3. CASE \A r \in Routines : todo[r] \notin Replacing(h)
      BY <2>1, <2>2, <3>3 DEF HelperInv
    <3> QED
      BY <3>1, <3>2, <3>3, ReplacingCases
  <2>4. ASSUME "ensure_table" \in tracked[h],
               \A r \in Routines : \A n \in DOMAIN todo[r] : todo[r][n].of # h
        PROVE  mine # {}
    <3>1. \A r \in Routines : todo[r] \notin Plans(h)
      BY <2>4, PlansNameTheHelper
    <3>2. \A r \in Routines : todo[r] \notin Replacing(h)
      BY <3>1 DEF Plans
    <3>3. Cardinality(mine) = 1
      BY <2>1, <2>2, <2>4, <3>2 DEF HelperInv
    <3> QED
      BY <3>3, FS_EmptySet
  <2> HIDE DEF mine
  <2>5. Cardinality(mine) <= 1
    BY <2>3
  <2> QED
    BY <2>4, <2>5 DEF mine
<1> QED
  BY <1>1, InvariantHolds, PTL

(* ForTable knows a name that a TableName method returned and prefixes the *)
(* others once: the expectation names gorm's table.                        *)
THEOREM ForTableNames == Spec => []ForTableNamesGormsTable
<1>1. Inv => ForTableNamesGormsTable
  BY ForTableAgrees DEF Inv, StatementTypes
<1> QED
  BY <1>1, InvariantHolds, PTL

(* removeExistingCallbacks removes by session ID, and registering leaves   *)
(* those it has read.                                                      *)
THEOREM OwnCallbacksRemoved == Spec => OnlyOwnCallbacksAreRemoved
<1>1. Inv /\ [Next]_vars =>
        [\A op \in Ops : \A c \in ToSet(processors[op]) \ ToSet(processors'[op]) :
           \E r \in Routines :
             /\ op \in DOMAIN seen[r] \ DOMAIN seen'[r]
             /\ \/ Head(todo[r]).do = "remove" /\ Head(todo[r]).of = c.of
                \/ c \notin ToSet(seen[r][op])]_vars
  <2> SUFFICES ASSUME Inv, Next, NEW op \in Ops, NEW c \in ToSet(processors[op]) \ ToSet(processors'[op])
               PROVE  \E r \in Routines :
                        /\ op \in DOMAIN seen[r] \ DOMAIN seen'[r]
                        /\ \/ Head(todo[r]).do = "remove" /\ Head(todo[r]).of = c.of
                           \/ c \notin ToSet(seen[r][op])
    OBVIOUS
  <2>1. PICK r \in Routines :
          \/ UNCHANGED processors
          \/ DBRegisters(r) \/ Registers(r) \/ Removes(r)
    BY DEF Next, Calls, RegisterModel, DB, Transaction, ExecuteInTransaction, WithRollbackOnly, Uses,
           ReadCallbacks, WrapTransactionWithTableInfo, Execute, RunCallback, FinishStatement
  <2>2. CallInv /\ CallTypes /\ DOMAIN seen = Routines
    BY DEF Inv, CallInv, SeenInv
  <2>3. ~UNCHANGED processors
    OBVIOUS
  <2>4. PICK written : WriteCallbacks(r, written)
    BY <2>1, <2>3 DEF DBRegisters, Registers, Removes
  <2>5. op \in DOMAIN seen[r]
    BY <2>4 DEF WriteCallbacks
  <2>6. op \notin DOMAIN seen'[r]
    <3>1. seen'[r] = << >>
      BY <2>2, <2>4 DEF WriteCallbacks, NotRead
    <3>2. DOMAIN seen'[r] = {}
      BY <3>1
    <3> QED
      BY <3>2
  <2> SUFFICES ASSUME c \in ToSet(seen[r][op])
               PROVE  Head(todo[r]).do = "remove" /\ Head(todo[r]).of = c.of
    BY <2>5, <2>6
  <2>7. PICK m \in DOMAIN seen[r][op] : seen[r][op][m] = c
    BY DEF ToSet
  <2>8. Based(r)[op] = seen[r][op] /\ ~\E n \in DOMAIN processors'[op] : processors'[op][n] = c
    BY <2>5 DEF Based, ToSet
  <2>9. ASSUME NEW names, NEW of, Grown(Based(r)[op], processors'[op], names, of)
        PROVE  FALSE
    BY <2>7, <2>8, <2>9 DEF Grown
  <2>10. CASE DBRegisters(r)
    <3>1. PICK of : of = sessions + 1
      OBVIOUS
    <3>2. WriteCallbacks(r, With(seen[r], <<"ensure_table">>, <<"ensure_table">>, of)) /\ sessions' = of
          /\ Head(todo[r]) = CallsDB /\ registered # << >>
      BY <2>3, <2>10, <3>1 DEF DBRegisters, NewTransactionTestHelper
    <3>3. of \in Nat /\ sessions' \in Nat /\ sessions <= sessions' /\ of <= sessions'
      BY <2>2, <3>1, <3>2, HelpersAreNumbers
    <3>4. DOMAIN seen[r] = Ops /\ "query" \in Ops /\ "create" \in Ops
      BY <3>2 DEF WriteCallbacks, Ops, Touched, CallsDB
    <3>5. Grown(Based(r)[op], processors'[op],
                IF op = "query" THEN <<"ensure_table">> ELSE <<"ensure_table">>, of)
      BY <2>2, <3>2, <3>3, <3>4, NamesToRegister, GrownProcessors
    <3> QED
      BY <2>9, <3>5
  <2>11. CASE Registers(r)
    <3>1. PICK step : step = Head(todo[r])
      OBVIOUS
    <3>2. /\ todo[r] # <<>> /\ step.do = "register"
          /\ WriteCallbacks(r, With(seen[r], step.query, step.create, step.of))
          /\ UNCHANGED sessions
      BY <2>11, <3>1 DEF Registers
    <3>3. PICK h \in helpers : step \in {ComplexFix(h), QueryFix(h), Creates(h), Resolves(h), Ensures(h)}
      BY <2>2, <3>1, <3>2, StepsAhead DEF Ahead
    <3>4. h \in Nat /\ sessions' \in Nat /\ sessions <= sessions' /\ h <= sessions'
      BY <2>2, <3>2, HelpersAreNumbers
    <3>5. /\ step.query \in {<<>>, <<"query_table_fix">>, <<"ensure_table">>}
          /\ step.create \in {<<>>, <<"complex_table_fix">>, <<"table_resolver">>,
                              <<"ensure_table">>, <<"create_table_resolver">>}
          /\ step.of = h
      BY <3>3 DEF ComplexFix, QueryFix, Creates, Resolves, Ensures, Register
    <3>6. PICK query \in Seq(CallbackNames), create \in Seq(CallbackNames) :
            query = step.query /\ create = step.create
      BY <3>5, NamesToRegister
    <3>7. DOMAIN seen[r] = {o \in Ops : step[o] # <<>>}
      BY <3>1, <3>2 DEF WriteCallbacks, Touched
    <3>8. /\ "query" \notin DOMAIN seen[r] => query = <<>>
          /\ "create" \notin DOMAIN seen[r] => create = <<>>
      BY <3>6, <3>7 DEF Ops
    <3>9. WriteCallbacks(r, With(seen[r], query, create, h))
      BY <3>2, <3>5, <3>6
    <3>10. Grown(Based(r)[op], processors'[op], IF op = "query" THEN query ELSE create, h)
      BY <2>2, <3>4, <3>8, <3>9, GrownProcessors
    <3> QED
      BY <2>9, <3>10
  <2>12. CASE Removes(r)
    <3>1. PICK h \in helpers, callbacks \in SUBSET {"ensure_table"} :
            /\ todo[r] # <<>> /\ Head(todo[r]) = Removal(callbacks, h)
            /\ Shrunk(Based(r)[op], processors'[op], callbacks, h)
      BY <2>2, <2>12, RemovalShrinks
    <3>2. c.of = h
      BY <2>7, <2>8, <3>1 DEF Shrunk
    <3>3. Head(todo[r]).do = "remove" /\ Head(todo[r]).of = h
      BY <3>1 DEF Removal
    <3> QED
      BY <3>2, <3>3
  <2> QED
    BY <2>1, <2>3, <2>10, <2>11, <2>12
<1> QED
  BY <1>1, InvariantHolds, PTL DEF Spec, OnlyOwnCallbacksAreRemoved
(* The registered models of a type that has no namesake are the one there  *)
(* is, and any name found for it is the one it was registered under.       *)
LEMMA TriedNamesAgree ==
  ASSUME RegistryOK, NEW t \in NamedTypes, NEW n \in DOMAIN registered, Named(t, n), Alone(t, n),
         t.tag = "", NEW held \in BOOLEAN, NEW outcome \in TryGetTableName(t, registered, held),
         outcome.end = "returns"
  PROVE  outcome.table = n
<1>1. Matching(t, registered) = {n}
  BY DEF Matching, Named, Alone
<1>2. n = ExtractTableName(t, TRUE)
  BY DEF RegistryOK, Named
<1>3. t.receiver # "none" => n = t.own
  BY <1>2, NamesAreNames DEF GormTable
<1>4. \A name : Returns(name).table = name
  BY DEF Returns
<1>5. Endless.end = "endless" /\ Blocked.end = "blocked"
  BY DEF Endless, Blocked
<1>6. CASE t.receiver # "none"
  BY <1>3, <1>4, <1>6 DEF TryGetTableName
<1>7. CASE t.receiver = "none" /\ t.hooks
  BY <1>5, <1>7 DEF TryGetTableName
<1>8. CASE t.receiver = "none" /\ ~t.hooks /\ held
  BY <1>5, <1>8 DEF TryGetTableName
<1>9. CASE t.receiver = "none" /\ ~t.hooks /\ ~held
  BY <1>1, <1>4, <1>9 DEF TryGetTableName
<1> QED
  BY <1>6, <1>7, <1>8, <1>9

LEMMA ModelNamesAgree ==
  ASSUME RegistryOK, NEW t \in NamedTypes, NEW n \in DOMAIN registered, Named(t, n), Alone(t, n),
         t.tag = "", NEW byPointer \in BOOLEAN,
         NEW outcome \in SetTableFromModel(t, byPointer, registered, FALSE),
         outcome.end = "returns"
  PROVE  outcome.table = n
<1>1. PICK held \in BOOLEAN : outcome \in TryGetTableName(t, registered, held)
  BY DEF SetTableFromModel
<1> QED
  BY <1>1, TriedNamesAgree

LEMMA ResolveAgrees ==
  ASSUME RegistryOK, IsFiniteSet(DOMAIN registered), NEW s \in Statements,
         NEW what \in CallbackNames, what # "create_table_resolver",
         NEW outcome \in Resolve(what, s), outcome.end = "returns", outcome.table # "",
         s.dest \in {"value"} \cup Slices, s.type.tag = "",
         NEW n \in DOMAIN registered, Named(s.type, n), Alone(s.type, n)
  PROVE  outcome.table = n
<1> DEFINE t == s.type
<1>1. t \in NamedTypes /\ s.dest \in Dests /\ s.model \in BOOLEAN /\ s.dest \in {"value", "values", "pointers"}
  BY ResolverCallbacksAssumption DEF Slices
<1>2. n = ExtractTableName(t, TRUE)
  BY DEF RegistryOK, Named
<1>3. /\ t.receiver # "none" => n = t.own
      /\ HasMethod(t, FALSE) => t.receiver # "none"
      /\ t.receiver = "value" => t.receiver # "none"
  BY <1>1, <1>2, NamesAreNames DEF GormTable
<1>4. /\ \A name : Returns(name).table = name
      /\ s.dest # "ptr" /\ s.dest \notin Maps /\ s.dest \notin Pointers
  BY <1>1 DEF Returns, Maps, Pointers
<1>5. CASE what = "auto"
  <2>1. outcome = Returns(EnsureTableIsSet(s))
    BY <1>5 DEF Resolve
  <2>2. EnsureTableIsSet(s) # "" => EnsureTableIsSet(s) = t.own /\ t.receiver # "none"
    BY <1>3, <1>4 DEF EnsureTableIsSet
  <2> QED
    BY <1>3, <1>4, <2>1, <2>2
<1>6. CASE what \in {"ensure_table", "query_table_fix"}
  <2>1. outcome \in EnsureTableSet(s, registered)
    BY <1>6 DEF Resolve
  <2>2. CASE s.dest \in {"ptr", "value"} /\ t.receiver = "value"
    BY <1>3, <1>4, <2>1, <2>2 DEF EnsureTableSet
  <2>3. CASE ~(s.dest \in {"ptr", "value"} /\ t.receiver = "value") /\ Cardinality(DOMAIN registered) = 1
    <3>1. PICK k \in DOMAIN registered : outcome = Returns(k)
      BY <2>1, <2>3 DEF EnsureTableSet
    <3>2. PICK only : DOMAIN registered = {only}
      BY <2>3, FS_Singleton
    <3>3. k = n
      BY <3>2
    <3> QED
      BY <1>4, <3>1, <3>3
  <2>4. CASE ~(s.dest \in {"ptr", "value"} /\ t.receiver = "value") /\ Cardinality(DOMAIN registered) # 1
    <3>1. ByDestination(s, registered) = {Returns("")}
      BY <1>4, DestinationsHaveNoName
    <3>2. outcome \in ByModel(s, registered) \cup ByElement(s, registered)
      BY <1>4, <2>1, <2>4, <3>1 DEF EnsureTableSet
    <3>3. outcome # Returns("")
      BY <1>4
    <3>4. PICK byPointer \in BOOLEAN : outcome \in SetTableFromModel(t, byPointer, registered, FALSE)
      BY <3>2, <3>3 DEF ByModel, ByElement
    <3> QED
      BY <1>1, <3>4, ModelNamesAgree
  <2> QED
    BY <2>2, <2>3, <2>4
<1>7. CASE what = "complex_table_fix"
  BY <1>4, <1>7 DEF Resolve, EnsureComplexTable
<1>8. CASE what = "table_resolver"
  <2>1. outcome = Returns(IF s.dest \in {"ptr", "value"} /\ t.receiver = "value" THEN t.own ELSE "")
    BY <1>8 DEF Resolve, TableResolver
  <2> QED
    BY <1>3, <1>4, <2>1
<1> QED
  BY <1>5, <1>6, <1>7, <1>8 DEF CallbackNames

(* ensureTableSet and the others ask the registry before they infer a name *)
(* and the mutex, the order of the map and other goroutines make no        *)
(* difference to the name a registered model gets.                         *)
THEOREM RegisteredAgree == Spec => RegisteredNamesAgree
<1>1. Inv /\ [Next]_vars =>
        [\A r \in Routines :
           (/\ statement[r].end = "running" /\ statement'[r].end = "running"
            /\ statement[r].table = "" /\ statement'[r].table # ""
            /\ Statement(r).dest \in {"value"} \cup Slices
            /\ Statement(r).type.tag = ""
            /\ Head(statement[r].rest).what # "create_table_resolver")
             => \A n \in DOMAIN registered :
                  Named(Statement(r).type, n) /\ Alone(Statement(r).type, n)
                    => statement'[r].table = n]_vars
  <2> SUFFICES ASSUME Inv, Next, NEW q \in Routines,
                      statement[q].end = "running", statement'[q].end = "running",
                      statement[q].table = "", statement'[q].table # "",
                      Statement(q).dest \in {"value"} \cup Slices, Statement(q).type.tag = "",
                      Head(statement[q].rest).what # "create_table_resolver",
                      NEW n \in DOMAIN registered,
                      Named(Statement(q).type, n), Alone(Statement(q).type, n)
               PROVE  statement'[q].table = n
    OBVIOUS
  <2>1. PICK r \in Routines :
          \/ UNCHANGED statement
          \/ \E op \in Ops, s \in Statements : Execute(r, op, s)
          \/ RunCallback(r)
          \/ FinishStatement(r)
    BY DEF Next, Calls, RegisterModel, DB, Transaction, ExecuteInTransaction, WithRollbackOnly, Uses,
           ReadCallbacks, DBRegisters, WrapTransactionWithTableInfo, Registers, Removes
  <2>2. statement \in [Routines -> Executions \cup {NoStatement}] /\ RegistryOK
        /\ IsFiniteSet(DOMAIN registered)
    BY DEF Inv, StatementTypes
  <2>3. ~UNCHANGED statement /\ statement'[q] # statement[q]
    OBVIOUS
  <2>4. ASSUME NEW op \in Ops, NEW s \in Statements, Execute(r, op, s)
        PROVE  FALSE
    <3>1. statement[r] = NoStatement /\ \A other \in Routines \ {r} : statement'[other] = statement[other]
      BY <2>2, <2>4 DEF Execute, Idle
    <3>2. q = r
      BY <2>3, <3>1
    <3>3. NoStatement.end = "none"
      BY DEF NoStatement
    <3> QED
      BY <3>1, <3>2, <3>3
  <2>5. ASSUME FinishStatement(r)
        PROVE  FALSE
    <3>1. statement'[r] = NoStatement /\ \A other \in Routines \ {r} : statement'[other] = statement[other]
      BY <2>2, <2>5 DEF FinishStatement
    <3>2. q = r
      BY <2>3, <3>1
    <3>3. NoStatement.end = "none"
      BY DEF NoStatement
    <3> QED
      BY <3>1, <3>2, <3>3
  <2>6. CASE RunCallback(r)
    <3>a. PICK now, what, s : now = statement[r] /\ what = Head(statement[r].rest).what /\ s = statement[r].of
      OBVIOUS
    <3>b. PICK outcome \in Resolve(what, s) :
            statement' = [statement EXCEPT ![r] =
              [end |-> IF outcome.end = "returns" THEN "running" ELSE outcome.end,
               of |-> s, table |-> outcome.table,
               rest |-> IF outcome.table = "" THEN Tail(now.rest) ELSE <<>>]]
      BY <2>6, <3>a, CallbackRuns
    <3>c. PICK new : new = [end |-> IF outcome.end = "returns" THEN "running" ELSE outcome.end,
                            of |-> s, table |-> outcome.table,
                            rest |-> IF outcome.table = "" THEN Tail(now.rest) ELSE <<>>]
      OBVIOUS
    <3>1. /\ outcome \in Resolve(what, s)
          /\ now = statement[r] /\ what = Head(now.rest).what /\ s = now.of
          /\ what \in CallbackNames /\ s \in Statements
          /\ statement' = [statement EXCEPT ![r] = new]
      <4>1. what \in CallbackNames /\ s \in Statements
        BY <2>6, <3>a, CallbackRuns
      <4> QED
        BY <3>a, <3>b, <3>c, <4>1
    <3>2. statement'[r] = new /\ \A other \in Routines \ {r} : statement'[other] = statement[other]
      BY <2>2, <3>1
    <3>3. q = r
      BY <2>3, <3>2
    <3>4. new.table = outcome.table
          /\ new.end = (IF outcome.end = "returns" THEN "running" ELSE outcome.end)
      BY <3>c
    <3>5. outcome \in Outcomes /\ (outcome.end # "returns" => outcome.table = "")
      <4>1. outcome \in Resolve(what, s) /\ s \in Statements /\ what \in CallbackNames
        BY <3>1
      <4> QED
        BY <2>2, <4>1, ResolveOutcomes
    <3>6. outcome.end = "returns" /\ outcome.table # ""
      BY <3>2, <3>3, <3>4, <3>5
    <3>7. s = Statement(q) /\ what = Head(statement[q].rest).what
      BY <3>1, <3>3 DEF Statement
    <3>8. /\ what # "create_table_resolver" /\ s.dest \in {"value"} \cup Slices /\ s.type.tag = ""
          /\ Named(s.type, n) /\ Alone(s.type, n)
      BY <3>7
    <3>9. outcome.table = n
      <4>1. outcome \in Resolve(what, s) /\ s \in Statements /\ what \in CallbackNames
        BY <3>1
      <4> QED
        BY <2>2, <3>6, <3>8, <4>1, ResolveAgrees
    <3> QED
      BY <3>2, <3>3, <3>4, <3>9
  <2> QED
    BY <2>1, <2>3, <2>4, <2>5, <2>6
<1> QED
  BY <1>1, InvariantHolds, PTL DEF Spec, RegisteredNamesAgree
=============================================================================
