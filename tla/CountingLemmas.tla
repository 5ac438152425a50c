--------------------------- MODULE CountingLemmas ---------------------------
(***************************************************************************)
(* Facts about positions and sets of them that several proofs rest on.     *)
(***************************************************************************)
EXTENDS Integers, Sequences, FiniteSets, FiniteSetTheorems, SequenceTheorems,
        WellFoundedInduction, TLAPS

(* A set of positions that is not empty has a least one.                   *)
LEMMA LeastExists ==
  ASSUME NEW S \in SUBSET Nat, S # {}
  PROVE  \E x \in S : \A y \in S : x <= y
<1>1. PICK x \in S : \A y \in S : ~(<<y, x>> \in OpToRel(<, Nat))
  BY NatLessThanWellFounded, WFMin
<1>2. ASSUME NEW y \in S PROVE x <= y
  <2>1. OpToRel(<, Nat) = {ss \in Nat \X Nat : ss[1] < ss[2]}
    BY DEF OpToRel
  <2>2. x \in Nat /\ y \in Nat /\ <<y, x>> \in Nat \X Nat
    OBVIOUS
  <2>3. ~(<<y, x>> \in {ss \in Nat \X Nat : ss[1] < ss[2]})
    BY <1>1, <2>1, Zenon
  <2> QED
    BY <2>2, <2>3
<1> QED
  BY <1>2

(* A set of positions of a sequence is finite.                             *)
LEMMA PositionsFinite ==
  ASSUME NEW S, NEW s \in Seq(S), NEW T \in SUBSET DOMAIN s
  PROVE  IsFiniteSet(T) /\ Cardinality(T) \in Nat
<1>1. DOMAIN s = 1 .. Len(s) /\ Len(s) \in Nat
  BY LenProperties
<1>2. IsFiniteSet(1 .. Len(s))
  BY <1>1, FS_Interval
<1>3. IsFiniteSet(T)
  BY <1>1, <1>2, FS_Subset
<1> QED
  BY <1>3, FS_CardinalityType

------------------------------------------------------------------------------
(* How many elements of a sequence are in M, and where.                    *)
Where(s, M) == {n \in DOMAIN s : s[n] \in M}
Count(s, M) == Cardinality(Where(s, M))

(* A count is a number, zero when no element is in M.                      *)
LEMMA CountType ==
  ASSUME NEW S, NEW s \in Seq(S), NEW M
  PROVE  /\ IsFiniteSet(Where(s, M))
         /\ Count(s, M) \in Nat
         /\ Count(s, M) = 0 <=> \A n \in DOMAIN s : s[n] \notin M
<1>1. Where(s, M) \in SUBSET DOMAIN s
  BY DEF Where
<1>2. IsFiniteSet(Where(s, M)) /\ Cardinality(Where(s, M)) \in Nat
  BY <1>1, PositionsFinite
<1>3. Cardinality(Where(s, M)) = 0 <=> Where(s, M) = {}
  BY <1>2, FS_EmptySet
<1> QED
  BY <1>2, <1>3 DEF Count, Where

(* Counting in two sequences, one behind the other.                        *)
LEMMA CountConcat ==
  ASSUME NEW S, NEW s \in Seq(S), NEW t \in Seq(S), NEW M
  PROVE  Count(s \o t, M) = Count(s, M) + Count(t, M)
<1> DEFINE A == Where(s, M)
           B == Where(t, M)
           C == Where(s \o t, M) \ A
           shift == [n \in B |-> n + Len(s)]
<1>1. /\ s \o t \in Seq(S) /\ Len(s) \in Nat /\ Len(t) \in Nat
      /\ Len(s \o t) = Len(s) + Len(t)
      /\ DOMAIN s = 1 .. Len(s) /\ DOMAIN t = 1 .. Len(t)
      /\ DOMAIN (s \o t) = 1 .. Len(s) + Len(t)
      /\ \A n \in 1 .. Len(s) + Len(t) :
           (s \o t)[n] = IF n <= Len(s) THEN s[n] ELSE t[n - Len(s)]
  BY ConcatProperties, LenProperties
<1>2. A \subseteq Where(s \o t, M)
  BY <1>1 DEF Where
<1>3. \A m \in C : m - Len(s) \in B /\ m - Len(s) + Len(s) = m
  BY <1>1 DEF Where
<1>4. \A n \in B : n + Len(s) \in C /\ n \in Int
  <2> SUFFICES ASSUME NEW n \in B PROVE n + Len(s) \in C /\ n \in Int
    OBVIOUS
  <2>1. n \in 1 .. Len(t) /\ t[n] \in M
    BY <1>1 DEF Where
  <2>2. n + Len(s) \in 1 .. Len(s) + Len(t) /\ ~(n + Len(s) <= Len(s))
        /\ n + Len(s) - Len(s) = n
    BY <1>1, <2>1
  <2>3. (s \o t)[n + Len(s)] = t[n]
    <3>1. PICK m \in 1 .. Len(s) + Len(t) : m = n + Len(s) /\ ~(m <= Len(s)) /\ m - Len(s) = n
      BY <1>1, <2>1, <2>2
    <3>2. (s \o t)[m] = t[m - Len(s)]
      BY <1>1, <3>1
    <3> QED
      BY <3>1, <3>2, Zenon
  <2> QED
    BY <1>1, <2>1, <2>2, <2>3 DEF Where
<1>5. IsFiniteSet(A) /\ IsFiniteSet(B) /\ IsFiniteSet(Where(s \o t, M))
      /\ Cardinality(A) \in Nat /\ Cardinality(B) \in Nat
  BY <1>1, CountType DEF Count
<1>6. shift \in Bijection(B, C)
  <2>1. shift \in Injection(B, C)
    <3>1. shift \in [B -> C]
      BY <1>4
    <3>2. \A m, n \in B : shift[m] = shift[n] => m = n
      BY <1>1, <1>4
    <3> QED
      BY <3>1, <3>2 DEF Injection, IsInjective
  <2>2. \A m \in C : \E n \in B : shift[n] = m
    BY <1>3
  <2> QED
    BY <2>1, <2>2 DEF Bijection, Surjection, Injection
<1>7. Cardinality(C) = Cardinality(B) /\ IsFiniteSet(C)
  BY <1>5, <1>6, FS_Bijection DEF ExistsBijection
<1> HIDE DEF A, B, C, shift
<1>8. Where(s \o t, M) = A \cup C /\ A \cap C = {}
  BY <1>2 DEF C
<1>9. Cardinality(A \cup C) = Cardinality(A) + Cardinality(C) - 0
  BY <1>5, <1>7, <1>8, FS_Union, FS_EmptySet
<1> QED
  BY <1>5, <1>7, <1>8, <1>9 DEF Count, A, B

(* A sequence of one element.                                              *)
LEMMA CountOne ==
  ASSUME NEW e, NEW M
  PROVE  Count(<<e>>, M) = IF e \in M THEN 1 ELSE 0
<1>1. Where(<<e>>, M) = IF e \in M THEN {1} ELSE {}
  BY DEF Where
<1> QED
  BY <1>1, FS_EmptySet, FS_Singleton DEF Count

(* One element is replaced by one that is not in M.                        *)
LEMMA CountWithout ==
  ASSUME NEW S, NEW s \in Seq(S), NEW t, DOMAIN t = DOMAIN s, NEW first \in DOMAIN s, NEW M,
         t[first] \notin M, \A n \in DOMAIN s : n # first => t[n] = s[n]
  PROVE  Count(t, M) = IF s[first] \in M THEN Count(s, M) - 1 ELSE Count(s, M)
<1>1. Where(t, M) = Where(s, M) \ {first} /\ (first \in Where(s, M) <=> s[first] \in M)
  BY DEF Where
<1>2. IsFiniteSet(Where(s, M))
  BY CountType
<1>3. Cardinality(Where(s, M) \ {first})
        = IF first \in Where(s, M) THEN Cardinality(Where(s, M)) - 1 ELSE Cardinality(Where(s, M))
  BY <1>2, FS_RemoveElement, Zenon
<1> QED
  BY <1>1, <1>3 DEF Count
==============================================================================
