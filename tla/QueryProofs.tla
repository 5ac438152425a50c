----------------------------- MODULE QueryProofs -----------------------------
(***************************************************************************)
(* That the expectations of the builders and the queries of GORM fit, for  *)
(* every set of tables, clauses and arguments, and that pages of a result  *)
(* count every item.                                                       *)
(*                                                                         *)
(* First, how a pattern reads a text: a pattern that fits a text part by   *)
(* part matches it, and a pattern without gaps matches only the text it    *)
(* spells.  Then what GORM writes of a query, and that a clause is found   *)
(* again in it.  From these, which queries each pattern of the builders    *)
(* admits.  The inductive invariant says of every expectation in the queue *)
(* what was true when it was queued (Good): it admits each query it is     *)
(* documented to be for (Serves) and none that an exact pattern or the     *)
(* given arguments exclude (Keeps).  It is about all queries the code      *)
(* under test could ever make, not those of the current state, because a   *)
(* First that loads its destination changes what can be asked later.       *)
(*                                                                         *)
(* The last part is about PaginationHelper: the walk stands on a page of   *)
(* some number, zero only without items; the rest is arithmetic.           *)
(***************************************************************************)
EXTENDS FindExpectations, Pagination, CountingLemmas

------------------------------------------------------------------------------
(* How a pattern reads a text.                                             *)

(* What may be read after member n, given what may be read before it.      *)
ReadAfter(p, t, n, before) ==
  IF p[n] = Gap THEN {k \in 0 .. Len(t) : \E j \in before : j <= k}
  ELSE {k \in 1 .. Len(t) : k - 1 \in before /\ t[k] \in p[n]}

Reads(p, t, last, read) ==
  read = [n \in 0 .. last |-> IF n = 0 THEN {0} ELSE ReadAfter(p, t, n, read[n - 1])]

(* Matching reads the members of a pattern one by one; what has been read  *)
(* is a function, by induction over the members.                           *)
LEMMA ReadingExists ==
  ASSUME NEW p, NEW t, NEW last \in Nat
  PROVE  \E read : Reads(p, t, last, read)
<1> DEFINE Missing == {n \in Nat : ~ \E read : Reads(p, t, n, read)}
<1>1. ASSUME Missing # {} PROVE FALSE
  <2>1. PICK n \in Missing : \A m \in Missing : n <= m
    <3>1. Missing \in SUBSET Nat
      OBVIOUS
    <3> HIDE DEF Missing
    <3> QED
      BY <1>1, <3>1, LeastExists
  <2>2. n # 0
    <3>1. Reads(p, t, 0, [k \in 0 .. 0 |-> {0}])
      BY DEF Reads
    <3> QED
      BY <2>1, <3>1
  <2>3. n \in Nat /\ n - 1 \in Nat /\ ~(n <= n - 1)
    BY <2>1, <2>2
  <2>4. n - 1 \notin Missing
    BY <2>1, <2>3
  <2>5. PICK read : Reads(p, t, n - 1, read)
    BY <2>3, <2>4
  <2> DEFINE longer == [k \in 0 .. n |-> IF k = n THEN ReadAfter(p, t, n, read[n - 1]) ELSE read[k]]
  <2>6. ASSUME NEW k \in 0 .. n
        PROVE  longer[k] = IF k = 0 THEN {0} ELSE ReadAfter(p, t, k, longer[k - 1])
    <3>1. CASE k = n
      <4>1. longer[n - 1] = read[n - 1] /\ longer[n] = ReadAfter(p, t, n, read[n - 1])
        BY <2>3
      <4> QED
        BY <2>2, <3>1, <4>1
    <3>2. CASE k # n
      <4>1. k \in 0 .. n - 1 /\ longer[k] = read[k]
        BY <2>3, <3>2
      <4>2. read[k] = IF k = 0 THEN {0} ELSE ReadAfter(p, t, k, read[k - 1])
        BY <2>5, <4>1 DEF Reads
      <4>3. k # 0 => k - 1 \in 0 .. n /\ k - 1 # n
        BY <2>3, <4>1
      <4>4. k # 0 => longer[k - 1] = read[k - 1]
        BY <4>3
      <4> QED
        BY <4>1, <4>2, <4>4
    <3> QED
      BY <3>1, <3>2
  <2>7. Reads(p, t, n, longer)
    BY <2>6 DEF Reads
  <2> QED
    BY <2>1, <2>7
<1> QED
  BY <1>1

(* Reached is that function.                                               *)
LEMMA ReachedReads ==
  ASSUME NEW p, NEW t, Len(p) \in Nat
  PROVE  /\ Reached(p, t)[0] = {0}
         /\ \A n \in 1 .. Len(p) : Reached(p, t)[n] = ReadAfter(p, t, n, Reached(p, t)[n - 1])
<1>1. \E read : Reads(p, t, Len(p), read)
  BY ReadingExists
<1>2. Reached(p, t) = CHOOSE read : Reads(p, t, Len(p), read)
  BY DEF Reached, Reads, ReadAfter
<1>3. Reads(p, t, Len(p), Reached(p, t))
  BY <1>1, <1>2
<1> DEFINE read == Reached(p, t)
<1>4. read = [n \in 0 .. Len(p) |-> IF n = 0 THEN {0} ELSE ReadAfter(p, t, n, read[n - 1])]
  BY <1>3 DEF Reads
<1> HIDE DEF read
<1>5. read[0] = {0}
  BY <1>4
<1>6. ASSUME NEW n \in 1 .. Len(p) PROVE read[n] = ReadAfter(p, t, n, read[n - 1])
  <2>1. n \in 0 .. Len(p) /\ n # 0
    OBVIOUS
  <2> QED
    BY <1>4, <2>1
<1> QED
  BY <1>5, <1>6 DEF read

(* A reading of a text: `at` says after which token each member ends.      *)
Reading(p, t, at) ==
  /\ at \in [0 .. Len(p) -> 0 .. Len(t)]
  /\ at[0] = 0 /\ at[Len(p)] = Len(t)
  /\ \A n \in 1 .. Len(p) :
       IF p[n] = Gap THEN at[n - 1] <= at[n]
       ELSE at[n] = at[n - 1] + 1 /\ t[at[n]] \in p[n]
Fits(p, t) == \E at : Reading(p, t, at)

(* A pattern that fits a text matches it.                                  *)
LEMMA FittingMatches ==
  ASSUME NEW p, NEW t, Len(p) \in Nat, Len(t) \in Nat, Fits(p, t)
  PROVE  Matches(p, t)
<1>1. PICK at : Reading(p, t, at)
  BY DEF Fits
<1> DEFINE Read == Reached(p, t)
           Missing == {n \in 0 .. Len(p) : at[n] \notin Read[n]}
<1>2. Read[0] = {0} /\ \A n \in 1 .. Len(p) : Read[n] = ReadAfter(p, t, n, Read[n - 1])
  BY ReachedReads
<1> HIDE DEF Read
<1>3. ASSUME Missing # {} PROVE FALSE
  <2>1. PICK n \in Missing : \A m \in Missing : n <= m
    <3>1. Missing \in SUBSET Nat
      OBVIOUS
    <3> HIDE DEF Missing
    <3> QED
      BY <1>3, <3>1, LeastExists
  <2>2. n # 0
    BY <1>1, <1>2, <2>1 DEF Reading
  <2>3. n \in 1 .. Len(p) /\ n - 1 \in 0 .. Len(p) /\ ~(n <= n - 1)
    BY <2>1, <2>2
  <2>4. at[n - 1] \in Read[n - 1]
    BY <2>1, <2>3
  <2>5. at[n] \in 0 .. Len(t) /\ at[n - 1] \in 0 .. Len(t)
    BY <1>1, <2>3 DEF Reading
  <2>6. at[n] \in ReadAfter(p, t, n, Read[n - 1])
    <3>1. CASE p[n] = Gap
      <4>1. at[n - 1] <= at[n]
        BY <1>1, <2>3, <3>1 DEF Reading
      <4> QED
        BY <2>4, <2>5, <3>1, <4>1 DEF ReadAfter
    <3>2. CASE p[n] # Gap
      <4>1. at[n] = at[n - 1] + 1 /\ t[at[n]] \in p[n]
        BY <1>1, <2>3, <3>2 DEF Reading
      <4>2. at[n] \in 1 .. Len(t) /\ at[n] - 1 = at[n - 1]
        BY <2>5, <4>1
      <4> QED
        BY <2>4, <3>2, <4>1, <4>2 DEF ReadAfter
    <3> QED
      BY <3>1, <3>2
  <2> QED
    BY <1>2, <2>1, <2>3, <2>6
<1>4. at[Len(p)] \in Read[Len(p)]
  BY <1>3
<1> QED
  BY <1>1, <1>4 DEF Reading, Matches, Read

(* A pattern without a gap matches token by token.                         *)
LEMMA MatchingIsExact ==
  ASSUME NEW p, NEW t, Len(p) \in Nat, Len(t) \in Nat,
         \A n \in 1 .. Len(p) : p[n] # Gap, Matches(p, t)
  PROVE  Len(t) = Len(p) /\ \A n \in 1 .. Len(p) : t[n] \in p[n]
<1> DEFINE Read == Reached(p, t)
           Exact(n) == \A k \in Read[n] : k = n /\ \A i \in 1 .. n : t[i] \in p[i]
           Missing == {n \in 0 .. Len(p) : ~Exact(n)}
<1>2. Read[0] = {0} /\ \A n \in 1 .. Len(p) : Read[n] = ReadAfter(p, t, n, Read[n - 1])
  BY ReachedReads
<1> HIDE DEF Read
<1>3. ASSUME Missing # {} PROVE FALSE
  <2>1. PICK n \in Missing : \A m \in Missing : n <= m
    <3>1. Missing \in SUBSET Nat
      OBVIOUS
    <3> HIDE DEF Missing
    <3> QED
      BY <1>3, <3>1, LeastExists
  <2>2. n # 0
    BY <1>2, <2>1
  <2>3. n \in 1 .. Len(p) /\ n - 1 \in 0 .. Len(p) /\ ~(n <= n - 1)
    BY <2>1, <2>2
  <2>4. Exact(n - 1)
    BY <2>1, <2>3
  <2>5. Read[n] = {k \in 1 .. Len(t) : k - 1 \in Read[n - 1] /\ t[k] \in p[n]}
    BY <1>2, <2>3 DEF ReadAfter
  <2>6. ASSUME NEW k \in Read[n] PROVE k = n /\ \A i \in 1 .. n : t[i] \in p[i]
    <3>1. k \in 1 .. Len(t) /\ k - 1 \in Read[n - 1] /\ t[k] \in p[n]
      BY <2>5, <2>6
    <3>2. k - 1 = n - 1 /\ \A i \in 1 .. n - 1 : t[i] \in p[i]
      BY <2>4, <3>1
    <3>3. k = n
      BY <2>3, <3>1, <3>2
    <3>4. \A i \in 1 .. n : i = n \/ i \in 1 .. n - 1
      BY <2>3
    <3> QED
      BY <3>1, <3>2, <3>3, <3>4
  <2> QED
    BY <2>1, <2>6
<1>4. Exact(Len(p))
  BY <1>3
<1> QED
  BY <1>4 DEF Matches, Read

(* Two patterns, one behind the other, fit two texts.                      *)
LEMMA FittingConcat ==
  ASSUME NEW P, NEW p \in Seq(P), NEW q \in Seq(P),
         NEW T, NEW t \in Seq(T), NEW u \in Seq(T), Fits(p, t), Fits(q, u)
  PROVE  Fits(p \o q, t \o u)
<1>1. PICK at : Reading(p, t, at)
  BY DEF Fits
<1>2. PICK on : Reading(q, u, on)
  BY DEF Fits
<1>3. /\ Len(p) \in Nat /\ Len(q) \in Nat /\ Len(p \o q) = Len(p) + Len(q)
      /\ \A n \in 1 .. Len(p) + Len(q) :
           (p \o q)[n] = IF n <= Len(p) THEN p[n] ELSE q[n - Len(p)]
  BY ConcatProperties, LenProperties
<1>4. /\ Len(t) \in Nat /\ Len(u) \in Nat /\ Len(t \o u) = Len(t) + Len(u)
      /\ \A n \in 1 .. Len(t) + Len(u) :
           (t \o u)[n] = IF n <= Len(t) THEN t[n] ELSE u[n - Len(t)]
  BY ConcatProperties, LenProperties
<1>5. /\ at \in [0 .. Len(p) -> 0 .. Len(t)] /\ at[0] = 0 /\ at[Len(p)] = Len(t)
      /\ on \in [0 .. Len(q) -> 0 .. Len(u)] /\ on[0] = 0 /\ on[Len(q)] = Len(u)
  BY <1>1, <1>2 DEF Reading
<1> DEFINE both == [n \in 0 .. Len(p) + Len(q) |->
                      IF n <= Len(p) THEN at[n] ELSE Len(t) + on[n - Len(p)]]
<1>6. both \in [0 .. Len(p) + Len(q) -> 0 .. Len(t) + Len(u)]
  <2>1. ASSUME NEW n \in 0 .. Len(p) + Len(q)
        PROVE  (IF n <= Len(p) THEN at[n] ELSE Len(t) + on[n - Len(p)]) \in 0 .. Len(t) + Len(u)
    <3>1. CASE n <= Len(p)
      <4>1. at[n] \in 0 .. Len(t)
        BY <1>3, <1>5, <3>1
      <4> QED
        BY <1>4, <3>1, <4>1
    <3>2. CASE ~(n <= Len(p))
      <4>1. n - Len(p) \in 0 .. Len(q)
        BY <1>3, <3>2
      <4>2. on[n - Len(p)] \in 0 .. Len(u)
        BY <1>5, <4>1
      <4> QED
        BY <1>4, <3>2, <4>2
    <3> QED
      BY <3>1, <3>2
  <2> QED
    BY <2>1
<1>7. both[0] = 0 /\ both[Len(p) + Len(q)] = Len(t) + Len(u)
  <2>1. 0 \in 0 .. Len(p) + Len(q) /\ Len(p) + Len(q) \in 0 .. Len(p) + Len(q) /\ 0 <= Len(p)
    BY <1>3
  <2>2. both[0] = 0
    BY <1>5, <2>1
  <2>3. CASE Len(q) = 0
    <3>1. both[Len(p) + Len(q)] = at[Len(p)] /\ on[0] = Len(u)
      BY <1>3, <1>5, <2>1, <2>3
    <3> QED
      BY <1>4, <1>5, <2>2, <3>1
  <2>4. CASE Len(q) # 0
    <3>1. PICK n \in Nat : n = Len(p) + Len(q)
      BY <1>3
    <3>2. ~(n <= Len(p)) /\ n - Len(p) = Len(q) /\ n \in 0 .. Len(p) + Len(q)
      BY <1>3, <2>4, <3>1
    <3>3. both[n] = Len(t) + on[n - Len(p)]
      BY <3>2
    <3>4. both[n] = Len(t) + Len(u)
      BY <1>5, <3>2, <3>3
    <3> QED
      BY <2>2, <3>1, <3>4
  <2> QED
    BY <2>3, <2>4
<1>8. ASSUME NEW n \in 1 .. Len(p) + Len(q)
      PROVE  IF (p \o q)[n] = Gap THEN both[n - 1] <= both[n]
             ELSE both[n] = both[n - 1] + 1 /\ (t \o u)[both[n]] \in (p \o q)[n]
  <2>1. n \in 0 .. Len(p) + Len(q) /\ n - 1 \in 0 .. Len(p) + Len(q)
    BY <1>3
  <2>2. CASE n <= Len(p)
    <3>1. both[n] = at[n] /\ both[n - 1] = at[n - 1] /\ (p \o q)[n] = p[n]
      BY <1>3, <2>1, <2>2
    <3>2. n \in 1 .. Len(p) /\ n - 1 \in 0 .. Len(p) /\ n \in 0 .. Len(p)
      BY <1>3, <2>2
    <3>3. IF p[n] = Gap THEN at[n - 1] <= at[n] ELSE at[n] = at[n - 1] + 1 /\ t[at[n]] \in p[n]
      BY <1>1, <3>2 DEF Reading
    <3>4. at[n] \in 0 .. Len(t) /\ at[n - 1] \in 0 .. Len(t)
      BY <1>5, <3>2
    <3>5. p[n] # Gap => (t \o u)[at[n]] = t[at[n]]
      <4>1. p[n] # Gap => at[n] \in 1 .. Len(t) + Len(u) /\ at[n] <= Len(t)
        BY <1>4, <3>3, <3>4
      <4> QED
        BY <1>4, <4>1
    <3> HIDE DEF both
    <3> QED
      BY <3>1, <3>3, <3>5
  <2>3. CASE ~(n <= Len(p))
    <3> DEFINE m == n - Len(p)
    <3>1. m \in 1 .. Len(q) /\ m - 1 \in 0 .. Len(q) /\ m \in 0 .. Len(q)
          /\ (n - 1) - Len(p) = m - 1
      BY <1>3, <2>3
    <3>2. (p \o q)[n] = q[m] /\ both[n] = Len(t) + on[m]
      BY <1>3, <2>1, <2>3
    <3> HIDE DEF m
    <3>3. both[n - 1] = Len(t) + on[m - 1]
      <4>1. CASE n - 1 <= Len(p)
        <5>1. n - 1 = Len(p) /\ m - 1 = 0
          BY <1>3, <2>3, <3>1, <4>1
        <5>2. both[n - 1] = at[Len(p)]
          BY <2>1, <4>1, <5>1
        <5> QED
          BY <1>4, <1>5, <5>1, <5>2
      <4>2. CASE ~(n - 1 <= Len(p))
        BY <2>1, <3>1, <4>2
      <4> QED
        BY <4>1, <4>2
    <3>4. IF q[m] = Gap THEN on[m - 1] <= on[m] ELSE on[m] = on[m - 1] + 1 /\ u[on[m]] \in q[m]
      BY <1>2, <3>1 DEF Reading
    <3>5. on[m] \in 0 .. Len(u) /\ on[m - 1] \in 0 .. Len(u)
      BY <1>5, <3>1
    <3>6. q[m] # Gap => (t \o u)[Len(t) + on[m]] = u[on[m]]
      <4>1. PICK k \in Int : k = Len(t) + on[m]
        BY <1>4, <3>5
      <4>4. q[m] # Gap => on[m] \in 1 .. Len(u)
        BY <1>4, <3>4, <3>5
      <4>2. q[m] # Gap => k \in 1 .. Len(t) + Len(u) /\ ~(k <= Len(t)) /\ k - Len(t) = on[m]
        BY <1>4, <4>1, <4>4
      <4>3. q[m] # Gap => (t \o u)[k] = u[k - Len(t)]
        BY <1>4, <4>2
      <4> QED
        BY <4>1, <4>2, <4>3
    <3> HIDE DEF both
    <3>7. q[m] = Gap => both[n - 1] <= both[n]
      BY <1>4, <3>2, <3>3, <3>4, <3>5
    <3>8. q[m] # Gap => both[n] = both[n - 1] + 1
      BY <1>4, <3>2, <3>3, <3>4, <3>5
    <3>9. q[m] # Gap => (t \o u)[both[n]] \in q[m]
      BY <3>2, <3>4, <3>6
    <3> QED
      BY <3>2, <3>7, <3>8, <3>9
  <2> QED
    BY <2>2, <2>3
<1> HIDE DEF both
<1>9. Reading(p \o q, t \o u, both)
  BY <1>3, <1>4, <1>6, <1>7, <1>8 DEF Reading
<1> QED
  BY <1>9 DEF Fits

(* No members fit no tokens.                                               *)
LEMMA NothingFits == Fits(<<>>, <<>>)
<1>1. Reading(<<>>, <<>>, [n \in 0 .. 0 |-> 0])
  BY DEF Reading
<1> QED
  BY <1>1 DEF Fits

(* Anything may be between two members.                                    *)
LEMMA GapFits ==
  ASSUME NEW t, Len(t) \in Nat
  PROVE  Fits(<<Gap>>, t)
<1> DEFINE at == [n \in 0 .. 1 |-> IF n = 0 THEN 0 ELSE Len(t)]
<1>1. Len(<<Gap>>) = 1 /\ <<Gap>>[1] = Gap
  OBVIOUS
<1>2. at \in [0 .. 1 -> 0 .. Len(t)] /\ at[0] = 0 /\ at[1] = Len(t)
  OBVIOUS
<1> HIDE DEF at
<1>3. \A n \in 1 .. 1 : n = 1 /\ at[n - 1] <= at[n]
  BY <1>2
<1>4. Reading(<<Gap>>, t, at)
  BY <1>1, <1>2, <1>3 DEF Reading
<1> QED
  BY <1>4 DEF Fits

(* Sets without a gap fit the texts that have a token of each.             *)
LEMMA ExactFits ==
  ASSUME NEW p, NEW t, Len(t) \in Nat, Len(p) = Len(t), \A n \in 1 .. Len(t) : t[n] \in p[n]
  PROVE  Fits(p, t)
<1> DEFINE at == [n \in 0 .. Len(t) |-> n]
<1>1. at \in [0 .. Len(p) -> 0 .. Len(t)] /\ at[0] = 0 /\ at[Len(p)] = Len(t)
  OBVIOUS
<1>2. ASSUME NEW n \in 1 .. Len(p)
      PROVE  p[n] # Gap /\ at[n] = at[n - 1] + 1 /\ t[at[n]] \in p[n]
  BY DEF Gap
<1> HIDE DEF at
<1>3. Reading(p, t, at)
  BY <1>1, <1>2 DEF Reading
<1> QED
  BY <1>3 DEF Fits

(* The tokens of conditions, and of the rest of a statement.               *)
ConditionWords ==
  {"pk", "id", "username", "status", "age_above", "email", "name_like", "title_like",
   "deleted_null", "deleted_notnull", "soft", "AND", "OR", "(", ")",
   "LIMIT_?", "OFFSET_?", "ORDER_BY_?"}
EndingWords == {"ORDER_BY", "LIMIT_1", "LIMIT_n", "ORDER_BY_name"}

(* The clauses written out, so that no other lemma expands them.           *)
LEMMA TextIs ==
  /\ DOMAIN Text = {"none", "pk", "id", "username", "status", "age", "either", "null", "userNull",
         "nullUser", "softUser", "notNull", "userNotNull", "like", "likes", "limit",
         "limitOffset", "offset", "order"}
  /\ Text["none"] = <<>>
  /\ Text["pk"] = <<"pk">> /\ Text["id"] = <<"id">> /\ Text["username"] = <<"username">>
  /\ Text["status"] = <<"status">> /\ Text["age"] = <<"age_above">>
  /\ Text["either"] = <<"username", "OR", "email">>
  /\ Text["null"] = <<"deleted_null">>
  /\ Text["userNull"] = <<"username", "AND", "deleted_null">>
  /\ Text["nullUser"] = <<"deleted_null", "AND", "username">>
  /\ Text["softUser"] = <<"soft", "AND", "username">>
  /\ Text["notNull"] = <<"deleted_notnull">>
  /\ Text["userNotNull"] = <<"username", "AND", "deleted_notnull">>
  /\ Text["like"] = <<"name_like">>
  /\ Text["likes"] = <<"(", "name_like", "OR", "title_like", ")">>
  /\ Text["limit"] = <<"LIMIT_?">> /\ Text["limitOffset"] = <<"LIMIT_?", "OFFSET_?">>
  /\ Text["offset"] = <<"OFFSET_?">> /\ Text["order"] = <<"ORDER_BY_?">>
  BY DEF Text

(* The shapes of the clauses: their lengths and the kinds of their tokens. *)
LastWords == ConditionWords \ {"soft", "AND", "OR"}
OpeningWords == {"username", "deleted_null", "soft"}

(* A clause is one condition, two of them joined, or one of two special    *)
(* texts.                                                                  *)
LEMMA TextShape ==
  ASSUME NEW c \in DOMAIN Text
  PROVE  \/ c = "none" /\ Text[c] = <<>>
         \/ \E a \in LastWords : Text[c] = <<a>>
         \/ \E a \in OpeningWords, b \in {"AND", "OR"}, d \in LastWords : Text[c] = <<a, b, d>>
         \/ Text[c] = <<"LIMIT_?", "OFFSET_?">>
         \/ c = "likes" /\ Text[c] = <<"(", "name_like", "OR", "title_like", ")">>
<1>1. CASE c \in {"pk", "id", "username", "status", "age", "null", "notNull", "like", "limit",
                  "offset", "order"}
  <2>1. \E a \in LastWords : Text[c] = <<a>>
    BY <1>1, TextIs DEF ConditionWords, LastWords
  <2> QED
    BY <2>1
<1>2. CASE c \in {"either", "userNull", "nullUser", "softUser", "userNotNull"}
  <2>1. {"email", "deleted_null", "username", "deleted_notnull"} \subseteq LastWords
    BY DEF ConditionWords, LastWords
  <2>4. {"username", "deleted_null", "soft"} = OpeningWords
    BY DEF OpeningWords
  <2>2. \/ Text[c] = <<"username", "OR", "email">>
        \/ Text[c] = <<"username", "AND", "deleted_null">>
        \/ Text[c] = <<"deleted_null", "AND", "username">>
        \/ Text[c] = <<"soft", "AND", "username">>
        \/ Text[c] = <<"username", "AND", "deleted_notnull">>
    BY <1>2, TextIs
  <2>3. \E a \in OpeningWords, b \in {"AND", "OR"}, d \in LastWords : Text[c] = <<a, b, d>>
    BY <2>1, <2>2, <2>4
  <2> QED
    BY <2>3
<1> QED
  BY <1>1, <1>2, TextIs

(* Every clause is a text of condition words.                              *)
LEMMA TextType ==
  ASSUME NEW c \in DOMAIN Text
  PROVE  Text[c] \in Seq(ConditionWords)
<1>1. LastWords \subseteq ConditionWords /\ OpeningWords \subseteq ConditionWords
      /\ {"AND", "OR"} \subseteq ConditionWords
      /\ {"LIMIT_?", "OFFSET_?"} \subseteq ConditionWords
  BY DEF ConditionWords, LastWords, OpeningWords
<1>2. ASSUME NEW a \in ConditionWords PROVE <<a>> \in Seq(ConditionWords)
  OBVIOUS
<1>3. ASSUME NEW a \in ConditionWords, NEW b \in ConditionWords
      PROVE  <<a, b>> \in Seq(ConditionWords)
  OBVIOUS
<1>4. ASSUME NEW a \in ConditionWords, NEW b \in ConditionWords, NEW d \in ConditionWords
      PROVE  <<a, b, d>> \in Seq(ConditionWords)
  OBVIOUS
<1>5. <<"(", "name_like", "OR", "title_like", ")">> \in Seq(ConditionWords)
  BY DEF ConditionWords
<1>6. <<>> \in Seq(ConditionWords)
  OBVIOUS
<1>7. CASE \E a \in LastWords : Text[c] = <<a>>
  BY <1>1, <1>2, <1>7
<1>8. CASE \E a \in OpeningWords, b \in {"AND", "OR"}, d \in LastWords : Text[c] = <<a, b, d>>
  <2>1. PICK a \in OpeningWords, b \in {"AND", "OR"}, d \in LastWords : Text[c] = <<a, b, d>>
    BY <1>8
  <2>2. a \in ConditionWords /\ b \in ConditionWords /\ d \in ConditionWords
    BY <1>1
  <2> QED
    BY <1>4, <2>1, <2>2
<1>9. CASE Text[c] = <<"LIMIT_?", "OFFSET_?">>
  <2>1. "LIMIT_?" \in ConditionWords /\ "OFFSET_?" \in ConditionWords
    BY <1>1
  <2> QED
    BY <1>3, <1>9, <2>1
<1> QED
  BY <1>5, <1>6, <1>7, <1>8, <1>9, TextShape, Zenon

(* No clause ends in the condition GORM adds for a soft delete.            *)
LEMMA TextEnds ==
  ASSUME NEW c \in DOMAIN Text, c # "none"
  PROVE  /\ Len(Text[c]) \in {1, 2, 3, 5}
         /\ Text[c][Len(Text[c])] # "soft"
<1>1. \A a \in LastWords : a # "soft"
  BY DEF LastWords
<1>2. Text[c] # <<>>
  BY TextIs
<1>3. ASSUME NEW a \in LastWords, Text[c] = <<a>> PROVE Text[c][Len(Text[c])] # "soft" /\ Len(Text[c]) = 1
  BY <1>1, <1>3
<1>4. ASSUME NEW a, NEW b, NEW d \in LastWords, Text[c] = <<a, b, d>>
      PROVE  Text[c][Len(Text[c])] # "soft" /\ Len(Text[c]) = 3
  BY <1>1, <1>4
<1>5. ASSUME Text[c] = <<"LIMIT_?", "OFFSET_?">>
      PROVE  Text[c][Len(Text[c])] # "soft" /\ Len(Text[c]) = 2
  BY <1>5
<1>6. ASSUME Text[c] = <<"(", "name_like", "OR", "title_like", ")">>
      PROVE  Text[c][Len(Text[c])] # "soft" /\ Len(Text[c]) = 5
  BY <1>6
<1>7. CASE \E a \in LastWords : Text[c] = <<a>>
  BY <1>3, <1>7
<1>8. CASE \E a \in OpeningWords, b \in {"AND", "OR"}, d \in LastWords : Text[c] = <<a, b, d>>
  <2>1. PICK a \in OpeningWords, b \in {"AND", "OR"}, d \in LastWords : Text[c] = <<a, b, d>>
    BY <1>8
  <2> QED
    BY <1>4, <2>1
<1> QED
  BY <1>2, <1>5, <1>6, <1>7, <1>8, TextShape

(* What tells the clauses of one length apart from what GORM may write     *)
(* before a clause of another.                                             *)
LEMMA TextLengths ==
  ASSUME NEW c \in DOMAIN Text
  PROVE  /\ Len(Text[c]) = 1 => Text[c][1] \notin {"AND", "OR"}
         /\ Len(Text[c]) = 3 => Text[c][1] # "name_like"
         /\ Len(Text[c]) = 5 => Text[c] = <<"(", "name_like", "OR", "title_like", ")">>
<1>1. CASE \E a \in LastWords : Text[c] = <<a>>
  BY <1>1 DEF LastWords
<1>2. CASE \E a \in OpeningWords, b \in {"AND", "OR"}, d \in LastWords : Text[c] = <<a, b, d>>
  <2>1. PICK a \in OpeningWords, b \in {"AND", "OR"}, d \in LastWords : Text[c] = <<a, b, d>>
    BY <1>2
  <2>2. Len(<<a, b, d>>) = 3 /\ <<a, b, d>>[1] = a
    OBVIOUS
  <2> QED
    BY <2>1, <2>2 DEF OpeningWords
<1>3. CASE Text[c] = <<"LIMIT_?", "OFFSET_?">>
  BY <1>3
<1>4. CASE Text[c] = <<"(", "name_like", "OR", "title_like", ")">>
  BY <1>4
<1>5. CASE Text[c] = <<>>
  BY <1>5
<1> QED
  BY <1>1, <1>2, <1>3, <1>4, <1>5, TextShape

(* Two clauses are never written alike.                                    *)
LEMMA TextInjective ==
  ASSUME NEW c \in DOMAIN Text, NEW d \in DOMAIN Text, Text[c] = Text[d]
  PROVE  c = d
  BY TextIs

(* Copies repeats a value.                                                 *)
LEMMA CopiesType ==
  ASSUME NEW v, NEW n \in Nat
  PROVE  /\ Copies(v, n) \in Seq({v}) /\ Len(Copies(v, n)) = n
         /\ \A i \in 1 .. n : Copies(v, n)[i] = v
         /\ Copies(v, n) = <<>> <=> n = 0
  BY DEF Copies

(* A clause binds a number of arguments.                                   *)
LEMMA ArgCountType ==
  ASSUME NEW c \in DOMAIN Text
  PROVE  ArgCount(c) \in Nat
<1>1. {n \in DOMAIN Text[c] : Text[c][n] \notin Unbound} \in SUBSET DOMAIN Text[c]
  OBVIOUS
<1> QED
  BY <1>1, TextType, PositionsFinite DEF ArgCount

------------------------------------------------------------------------------
(* What GORM writes of a query.                                            *)

WellFormed(q) ==
  /\ q.select \in {"star", "count"}
  /\ q.clause \in DOMAIN Text
  /\ q.scoped \in BOOLEAN /\ q.loaded \in BOOLEAN
  /\ q.ending \in DOMAIN Ending

Scope(q) == IF q.scoped THEN <<"AND", "soft">> ELSE <<>>
Others(q) == Scope(q) \o (IF q.loaded THEN <<"AND", "pk">> ELSE <<>>)

(* What GORM adds to a clause is made of the same words.                   *)
LEMMA WordsType ==
  /\ <<>> \in Seq(ConditionWords) /\ <<"AND", "soft">> \in Seq(ConditionWords)
  /\ <<"AND", "pk">> \in Seq(ConditionWords) /\ <<"(">> \in Seq(ConditionWords)
  /\ <<")">> \in Seq(ConditionWords) /\ <<"soft">> \in Seq(ConditionWords)
  BY DEF ConditionWords

(* A sequence that ends with another has its last element.                 *)
LEMMA LastOfConcat ==
  ASSUME NEW S, NEW s \in Seq(S), NEW t \in Seq(S), t # <<>>
  PROVE  s \o t # <<>> /\ (s \o t)[Len(s \o t)] = t[Len(t)]
<1>1. Len(s) \in Nat /\ Len(t) \in Nat \ {0} /\ Len(s \o t) = Len(s) + Len(t)
  BY ConcatProperties, LenProperties, EmptySeq
<1>2. PICK n \in 1 .. Len(s) + Len(t) : n = Len(s) + Len(t)
  BY <1>1
<1>3. (s \o t)[n] = t[n - Len(s)]
  <2>1. ~(n <= Len(s))
    BY <1>1, <1>2
  <2> QED
    BY <1>2, <2>1, ConcatProperties
<1>4. n - Len(s) = Len(t)
  BY <1>1, <1>2
<1>5. s \o t # <<>>
  BY <1>1, ConcatEqualIffEmpty
<1> QED
  BY <1>1, <1>2, <1>3, <1>4, <1>5

(* What GORM adds beside the clause: the scope of a soft delete, and last  *)
(* the key of a loaded destination.                                        *)
LEMMA OthersAre ==
  ASSUME NEW q, WellFormed(q)
  PROVE  /\ Others(q) \in Seq(ConditionWords) /\ Scope(q) \in Seq(ConditionWords)
         /\ ~q.loaded => Others(q) = Scope(q)
         /\ q.loaded => /\ Others(q) # <<>> /\ Others(q)[Len(Others(q))] = "pk"
                        /\ Len(Others(q)) > 1
<1>1. Scope(q) \in Seq(ConditionWords)
  BY WordsType DEF Scope, WellFormed
<1>2. ~q.loaded => Others(q) = Scope(q)
  BY <1>1, ConcatEmptySeq DEF Others
<1>3. Others(q) \in Seq(ConditionWords)
  BY <1>1, WordsType, ConcatProperties DEF Others, WellFormed
<1>4. ASSUME q.loaded PROVE Others(q) # <<>> /\ Others(q)[Len(Others(q))] = "pk" /\ Len(Others(q)) > 1
  <2>1. Others(q) = Scope(q) \o <<"AND", "pk">>
    BY <1>4 DEF Others
  <2>2. <<"AND", "pk">> # <<>> /\ Len(<<"AND", "pk">>) = 2 /\ <<"AND", "pk">>[2] = "pk"
    OBVIOUS
  <2>3. Others(q) # <<>> /\ Others(q)[Len(Others(q))] = "pk"
    BY <1>1, <2>1, <2>2, WordsType, LastOfConcat
  <2>4. Len(Others(q)) = Len(Scope(q)) + 2 /\ Len(Scope(q)) \in Nat
    BY <1>1, <2>1, <2>2, WordsType, ConcatProperties, LenProperties
  <2> QED
    BY <2>3, <2>4
<1> QED
  BY <1>1, <1>2, <1>3, <1>4

Parenthesised(q) == Mentions(q.clause, {"AND", "OR"})

(* The conditions of a statement: only what GORM adds, the clause in       *)
(* parentheses, or the clause as it is.                                    *)
LEMMA ConditionsCases ==
  ASSUME NEW q, WellFormed(q)
  PROVE  /\ Text[q.clause] = <<>> =>
              Conditions(q) = IF Others(q) = <<>> THEN <<>> ELSE Tail(Others(q))
         /\ Text[q.clause] # <<>> /\ Others(q) # <<>> /\ Parenthesised(q) =>
              Conditions(q) = (<<"(">> \o Text[q.clause] \o <<")">>) \o Others(q)
         /\ Text[q.clause] # <<>> /\ ~(Others(q) # <<>> /\ Parenthesised(q)) =>
              Conditions(q) = Text[q.clause] \o Others(q)
  BY DEF Conditions, Others, Scope, Parenthesised

(* Conditions are texts of condition words.                                *)
LEMMA ConditionsType ==
  ASSUME NEW q, WellFormed(q)
  PROVE  Conditions(q) \in Seq(ConditionWords)
<1>1. Text[q.clause] \in Seq(ConditionWords) /\ Others(q) \in Seq(ConditionWords)
  BY TextType, OthersAre DEF WellFormed
<1>2. <<"(">> \o Text[q.clause] \o <<")">> \in Seq(ConditionWords)
  BY <1>1, WordsType, ConcatProperties
<1>3. Others(q) # <<>> => Tail(Others(q)) \in Seq(ConditionWords)
  BY <1>1, HeadTailProperties
<1>4. Text[q.clause] \o Others(q) \in Seq(ConditionWords)
  BY <1>1, ConcatProperties
<1>5. (<<"(">> \o Text[q.clause] \o <<")">>) \o Others(q) \in Seq(ConditionWords)
  BY <1>1, <1>2, ConcatProperties
<1> QED
  BY <1>3, <1>4, <1>5, WordsType, ConditionsCases, Zenon

(* Without scope and loaded destination GORM writes the clause alone.      *)
LEMMA ConditionsUnscoped ==
  ASSUME NEW q, WellFormed(q), ~q.scoped, ~q.loaded
  PROVE  Conditions(q) = Text[q.clause]
<1>1. Others(q) = <<>>
  BY OthersAre DEF Scope
<1>2. Text[q.clause] \in Seq(ConditionWords)
  BY TextType DEF WellFormed
<1>3. Text[q.clause] \o <<>> = Text[q.clause]
  BY <1>2, ConcatEmptySeq
<1> QED
  BY <1>1, <1>3, ConditionsCases

(* A scoped query has the soft-delete condition behind its clause.         *)
LEMMA ConditionsScoped ==
  ASSUME NEW q, WellFormed(q), q.scoped, ~q.loaded
  PROVE  /\ q.clause = "none" => Conditions(q) = <<"soft">>
         /\ q.clause # "none" /\ ~Parenthesised(q) =>
              Conditions(q) = Text[q.clause] \o <<"AND", "soft">>
         /\ q.clause # "none" /\ Parenthesised(q) =>
              Conditions(q) = (<<"(">> \o Text[q.clause] \o <<")">>) \o <<"AND", "soft">>
<1>1. Others(q) = <<"AND", "soft">> /\ Others(q) # <<>>
  BY OthersAre DEF Scope
<1>2. Text[q.clause] = <<>> <=> q.clause = "none"
  BY TextIs DEF WellFormed
<1>3. Tail(<<"AND", "soft">>) = <<"soft">>
  OBVIOUS
<1> QED
  BY <1>1, <1>2, <1>3, ConditionsCases

(* A loaded destination puts its key last.                                 *)
LEMMA ConditionsLoaded ==
  ASSUME NEW q, WellFormed(q), q.loaded
  PROVE  Conditions(q) # <<>> /\ Conditions(q)[Len(Conditions(q))] = "pk"
<1>1. /\ Others(q) # <<>> /\ Others(q)[Len(Others(q))] = "pk"
      /\ Len(Others(q)) > 1 /\ Others(q) \in Seq(ConditionWords)
  BY OthersAre
<1>2. Text[q.clause] \in Seq(ConditionWords)
  BY TextType DEF WellFormed
<1>3. <<"(">> \o Text[q.clause] \o <<")">> \in Seq(ConditionWords)
  BY <1>2, WordsType, ConcatProperties
<1>4. ASSUME NEW s \in Seq(ConditionWords)
      PROVE  s \o Others(q) # <<>> /\ (s \o Others(q))[Len(s \o Others(q))] = "pk"
  BY <1>1, LastOfConcat
<1>5. Tail(Others(q)) # <<>> /\ Tail(Others(q))[Len(Tail(Others(q)))] = "pk"
  <2>1. Len(Others(q)) \in Nat /\ Len(Tail(Others(q))) = Len(Others(q)) - 1
        /\ \A i \in 1 .. Len(Tail(Others(q))) : Tail(Others(q))[i] = Others(q)[i + 1]
    BY <1>1, HeadTailProperties, LenProperties
  <2>2. PICK n \in Nat : n = Len(Others(q)) - 1
    <3>1. Len(Others(q)) \in Nat /\ Len(Others(q)) > 1
      BY <1>1, <2>1
    <3>2. Len(Others(q)) - 1 \in Nat
      BY <3>1
    <3> QED
      BY <3>2
  <2>3. n \in 1 .. Len(Tail(Others(q))) /\ n + 1 = Len(Others(q))
    BY <1>1, <2>1, <2>2
  <2>4. Tail(Others(q))[n] = "pk"
    BY <1>1, <2>1, <2>3
  <2>5. Len(Tail(Others(q))) # 0
    BY <2>1, <2>3
  <2>6. Tail(Others(q)) # <<>>
    BY <2>5, EmptySeq
  <2> QED
    BY <2>1, <2>2, <2>4, <2>6
<1>6. CASE Text[q.clause] = <<>>
  BY <1>1, <1>5, <1>6, ConditionsCases
<1>7. CASE Text[q.clause] # <<>> /\ Parenthesised(q)
  BY <1>1, <1>3, <1>4, <1>7, ConditionsCases
<1>8. CASE Text[q.clause] # <<>> /\ ~Parenthesised(q)
  BY <1>1, <1>2, <1>4, <1>8, ConditionsCases
<1> QED
  BY <1>6, <1>7, <1>8

(* A query with a clause has conditions.                                   *)
LEMMA ConditionsNotEmpty ==
  ASSUME NEW q, WellFormed(q), q.clause # "none"
  PROVE  Conditions(q) # <<>>
<1>1. Text[q.clause] # <<>> /\ Text[q.clause] \in Seq(ConditionWords)
  <2>1. q.clause \in DOMAIN Text
    BY DEF WellFormed
  <2>2. PICK c \in DOMAIN Text : c = q.clause
    BY <2>1
  <2>3. Len(Text[c]) \in {1, 2, 3, 5}
    BY <2>2, TextEnds
  <2>4. Len(Text[q.clause]) # 0
    BY <2>2, <2>3
  <2> QED
    BY <2>1, <2>4, TextType, EmptySeq
<1>2. CASE q.loaded
  BY <1>2, ConditionsLoaded
<1>3. CASE ~q.loaded /\ ~q.scoped
  BY <1>1, <1>3, ConditionsUnscoped
<1>4. CASE ~q.loaded /\ q.scoped
  <2>1. ASSUME NEW s \in Seq(ConditionWords) PROVE s \o <<"AND", "soft">> # <<>>
    BY WordsType, LastOfConcat
  <2>2. <<"(">> \o Text[q.clause] \o <<")">> \in Seq(ConditionWords)
    BY <1>1, WordsType, ConcatProperties
  <2> QED
    BY <1>1, <1>4, <2>1, <2>2, ConditionsScoped
<1> QED
  BY <1>2, <1>3, <1>4

Vocabulary(q) ==
  ConditionWords \cup EndingWords \cup {"WHERE", "star", "count", q.select, q.table}

AfterWhere(q) == Conditions(q) \o Ending[q.ending]

(* Endings are texts of their own words, none of them a condition.         *)
LEMMA EndingType ==
  ASSUME NEW e \in DOMAIN Ending
  PROVE  Ending[e] \in Seq(EndingWords)
<1>1. /\ DOMAIN Ending = {"first", "all", "page", "sorted"}
      /\ Ending["first"] = <<"ORDER_BY", "LIMIT_1">> /\ Ending["all"] = <<>>
      /\ Ending["page"] = <<"LIMIT_n">> /\ Ending["sorted"] = <<"ORDER_BY_name">>
  BY DEF Ending
<1>2. /\ <<"ORDER_BY", "LIMIT_1">> \in Seq(EndingWords) /\ <<>> \in Seq(EndingWords)
      /\ <<"LIMIT_n">> \in Seq(EndingWords) /\ <<"ORDER_BY_name">> \in Seq(EndingWords)
  BY DEF EndingWords
<1> QED
  BY <1>1, <1>2

(* A statement is its select, its table, the conditions and the ending.    *)
LEMMA SqlParts ==
  ASSUME NEW q, WellFormed(q)
  PROVE  /\ Conditions(q) \in Seq(Vocabulary(q))
         /\ Ending[q.ending] \in Seq(Vocabulary(q))
         /\ AfterWhere(q) \in Seq(Vocabulary(q))
         /\ <<q.select, q.table>> \in Seq(Vocabulary(q)) /\ <<"WHERE">> \in Seq(Vocabulary(q))
         /\ Sql(q) \in Seq(Vocabulary(q))
         /\ Conditions(q) = <<>> => Sql(q) = <<q.select, q.table>> \o Ending[q.ending]
         /\ Conditions(q) # <<>> =>
              Sql(q) = (<<q.select, q.table>> \o <<"WHERE">>) \o AfterWhere(q)
<1> DEFINE V == Vocabulary(q)
           head == <<q.select, q.table>>
           where == IF Conditions(q) = <<>> THEN <<>> ELSE <<"WHERE">> \o Conditions(q)
<1>1. q.ending \in DOMAIN Ending
  BY DEF WellFormed
<1>2. ConditionWords \subseteq V /\ EndingWords \subseteq V /\ "WHERE" \in V
      /\ q.select \in V /\ q.table \in V
  BY DEF Vocabulary
<1> HIDE DEF V
<1>3. Conditions(q) \in Seq(V)
  BY <1>2, ConditionsType, SeqMonotonic
<1>4. Ending[q.ending] \in Seq(V)
  BY <1>1, <1>2, EndingType, SeqMonotonic
<1>5. head \in Seq(V) /\ <<"WHERE">> \in Seq(V) /\ <<>> \in Seq(V)
  BY <1>2
<1> HIDE DEF head
<1>6. Sql(q) = (head \o where) \o Ending[q.ending]
  BY DEF Sql, head
<1>7. <<"WHERE">> \o Conditions(q) \in Seq(V)
  BY <1>3, <1>5, ConcatProperties
<1>8. where \in Seq(V)
  BY <1>5, <1>7
<1>9. head \o where \in Seq(V)
  BY <1>5, <1>8, ConcatProperties
<1>10. Sql(q) \in Seq(V)
  BY <1>4, <1>6, <1>9, ConcatProperties
<1>11. AfterWhere(q) \in Seq(V)
  BY <1>3, <1>4, ConcatProperties DEF AfterWhere
<1>12. ASSUME Conditions(q) = <<>> PROVE Sql(q) = head \o Ending[q.ending]
  <2>1. head \o <<>> = head
    BY <1>5, ConcatEmptySeq
  <2> QED
    BY <1>6, <1>12, <2>1
<1>13. ASSUME Conditions(q) # <<>>
       PROVE  Sql(q) = (head \o <<"WHERE">>) \o AfterWhere(q)
  <2>1. where = <<"WHERE">> \o Conditions(q)
    BY <1>13
  <2> HIDE DEF where
  <2>2. head \o where = (head \o <<"WHERE">>) \o Conditions(q)
    BY <1>3, <1>5, <2>1, ConcatAssociative
  <2>3. head \o <<"WHERE">> \in Seq(V)
    BY <1>5, ConcatProperties
  <2>4. ((head \o <<"WHERE">>) \o Conditions(q)) \o Ending[q.ending]
          = (head \o <<"WHERE">>) \o (Conditions(q) \o Ending[q.ending])
    <3>1. PICK s \in Seq(V) : s = head \o <<"WHERE">>
      BY <2>3
    <3>2. PICK t \in Seq(V) : t = Conditions(q)
      BY <1>3
    <3>3. PICK u \in Seq(V) : u = Ending[q.ending]
      BY <1>4
    <3>4. (s \o t) \o u = s \o (t \o u)
      BY ConcatAssociative
    <3> QED
      BY <3>1, <3>2, <3>3, <3>4
  <2> QED
    BY <1>6, <2>2, <2>4 DEF AfterWhere
<1> QED
  BY <1>3, <1>4, <1>5, <1>10, <1>11, <1>12, <1>13 DEF head, V

(* Patterns are written of sets of tokens.                                 *)
Kinds(q, S) == SUBSET (Vocabulary(q) \cup S)

(* The head of every pattern of the builders fits the head of the          *)
(* statement.                                                              *)
LEMMA HeadFits ==
  ASSUME NEW q, WellFormed(q), NEW S, q.select \in S
  PROVE  /\ Fits(<<S, {q.table}>>, <<q.select, q.table>>)
         /\ Fits(<<{"WHERE"}>>, <<"WHERE">>)
         /\ <<S, {q.table}>> \in Seq(Kinds(q, S)) /\ <<{"WHERE"}>> \in Seq(Kinds(q, S))
         /\ <<Gap>> \in Seq(Kinds(q, S))
<1>1. Fits(<<S, {q.table}>>, <<q.select, q.table>>)
  <2> DEFINE p == <<S, {q.table}>>
             t == <<q.select, q.table>>
  <2>1. Len(t) = 2 /\ Len(p) = 2 /\ t[1] \in p[1] /\ t[2] \in p[2]
    OBVIOUS
  <2> HIDE DEF p, t
  <2>2. Fits(p, t)
    <3>1. \A n \in 1 .. Len(t) : n = 1 \/ n = 2
      BY <2>1
    <3> QED
      BY <2>1, <3>1, ExactFits
  <2> QED
    BY <2>2 DEF p, t
<1>2. Fits(<<{"WHERE"}>>, <<"WHERE">>)
  <2> DEFINE p == <<{"WHERE"}>>
             t == <<"WHERE">>
  <2>1. Len(t) = 1 /\ Len(p) = 1 /\ t[1] \in p[1]
    OBVIOUS
  <2> HIDE DEF p, t
  <2>2. Fits(p, t)
    <3>1. \A n \in 1 .. Len(t) : n = 1
      BY <2>1
    <3> QED
      BY <2>1, <3>1, ExactFits
  <2> QED
    BY <2>2 DEF p, t
<1>3. S \in Kinds(q, S) /\ {q.table} \in Kinds(q, S) /\ {"WHERE"} \in Kinds(q, S) /\ Gap \in Kinds(q, S)
  BY DEF Kinds, Vocabulary, Gap
<1>4. <<S, {q.table}>> \in Seq(Kinds(q, S)) /\ <<{"WHERE"}>> \in Seq(Kinds(q, S))
      /\ <<Gap>> \in Seq(Kinds(q, S))
  BY <1>3
<1> QED
  BY <1>1, <1>2, <1>4

(* A pattern that leaves everything after the table open matches every     *)
(* query that selects the right thing.                                     *)
LEMMA MatchesAll ==
  ASSUME NEW q, WellFormed(q), NEW S, q.select \in S
  PROVE  Matches(<<S, {q.table}>> \o <<Gap>>, Sql(q))
<1> DEFINE head == <<q.select, q.table>>
           select == <<S, {q.table}>>
<1>1. Fits(select, head) /\ select \in Seq(Kinds(q, S)) /\ <<Gap>> \in Seq(Kinds(q, S))
  BY HeadFits
<1>2. head \in Seq(Vocabulary(q)) /\ <<"WHERE">> \in Seq(Vocabulary(q))
      /\ Ending[q.ending] \in Seq(Vocabulary(q)) /\ AfterWhere(q) \in Seq(Vocabulary(q))
      /\ Sql(q) \in Seq(Vocabulary(q))
  BY SqlParts
<1> HIDE DEF head, select
<1>3. \E rest \in Seq(Vocabulary(q)) : Sql(q) = head \o rest
  <2>1. CASE Conditions(q) = <<>>
    BY <1>2, <2>1, SqlParts DEF head
  <2>2. CASE Conditions(q) # <<>>
    <3>1. Sql(q) = (head \o <<"WHERE">>) \o AfterWhere(q)
      BY <2>2, SqlParts DEF head
    <3>2. (head \o <<"WHERE">>) \o AfterWhere(q) = head \o (<<"WHERE">> \o AfterWhere(q))
      BY <1>2, ConcatAssociative
    <3>3. <<"WHERE">> \o AfterWhere(q) \in Seq(Vocabulary(q))
      BY <1>2, ConcatProperties
    <3> QED
      BY <3>1, <3>2, <3>3
  <2> QED
    BY <2>1, <2>2
<1>4. PICK rest \in Seq(Vocabulary(q)) : Sql(q) = head \o rest
  BY <1>3
<1>5. Fits(<<Gap>>, rest)
  BY GapFits, LenProperties
<1>6. Fits(select \o <<Gap>>, Sql(q))
  BY <1>1, <1>2, <1>4, <1>5, FittingConcat
<1>7. Len(select \o <<Gap>>) \in Nat /\ Len(Sql(q)) \in Nat
  BY <1>1, <1>2, ConcatProperties, LenProperties
<1> QED
  BY <1>6, <1>7, FittingMatches DEF select

(* A pattern that goes on after the WHERE.                                 *)
LEMMA MatchesWhere ==
  ASSUME NEW q, WellFormed(q), Conditions(q) # <<>>, NEW S, q.select \in S,
         NEW rest \in Seq(Kinds(q, S)), Fits(rest, AfterWhere(q))
  PROVE  Matches((<<S, {q.table}>> \o <<{"WHERE"}>>) \o rest, Sql(q))
<1> DEFINE head == <<q.select, q.table>>
           select == <<S, {q.table}>>
           where == <<{"WHERE"}>>
<1>1. Fits(select, head) /\ Fits(where, <<"WHERE">>)
      /\ select \in Seq(Kinds(q, S)) /\ where \in Seq(Kinds(q, S))
  BY HeadFits
<1>2. head \in Seq(Vocabulary(q)) /\ <<"WHERE">> \in Seq(Vocabulary(q))
      /\ AfterWhere(q) \in Seq(Vocabulary(q)) /\ Sql(q) \in Seq(Vocabulary(q))
      /\ Sql(q) = (head \o <<"WHERE">>) \o AfterWhere(q)
  BY SqlParts
<1> HIDE DEF head, select, where
<1>3. Fits(select \o where, head \o <<"WHERE">>)
      /\ select \o where \in Seq(Kinds(q, S)) /\ head \o <<"WHERE">> \in Seq(Vocabulary(q))
  BY <1>1, <1>2, FittingConcat, ConcatProperties
<1>4. Fits((select \o where) \o rest, Sql(q))
  BY <1>2, <1>3, FittingConcat
<1>5. Len((select \o where) \o rest) \in Nat /\ Len(Sql(q)) \in Nat
  BY <1>2, <1>3, ConcatProperties, LenProperties
<1> QED
  BY <1>4, <1>5, FittingMatches DEF select, where

(* A pattern that asks for a where clause and nothing of it.               *)
LEMMA MatchesAnyWhere ==
  ASSUME NEW q, WellFormed(q), Conditions(q) # <<>>, NEW S, q.select \in S
  PROVE  Matches((<<S, {q.table}>> \o <<{"WHERE"}>>) \o <<Gap>>, Sql(q))
<1>1. Fits(<<Gap>>, AfterWhere(q))
  BY SqlParts, GapFits, LenProperties
<1>2. <<Gap>> \in Seq(Kinds(q, S))
  BY HeadFits
<1> QED
  BY <1>1, <1>2, MatchesWhere

(* One word after the WHERE, and then anything.                            *)
LEMMA MatchesWord ==
  ASSUME NEW q, WellFormed(q), Conditions(q) # <<>>, NEW S, q.select \in S,
         NEW word, NEW rest \in Seq(ConditionWords), word \in ConditionWords,
         Conditions(q) = <<word>> \o rest
  PROVE  Matches((<<S, {q.table}>> \o <<{"WHERE"}>>) \o (<<{word}>> \o <<Gap>>), Sql(q))
<1>1. ConditionWords \subseteq Vocabulary(q)
  BY DEF Vocabulary
<1>2. rest \in Seq(Vocabulary(q)) /\ <<word>> \in Seq(Vocabulary(q))
      /\ Ending[q.ending] \in Seq(Vocabulary(q))
  <2>1. rest \in Seq(Vocabulary(q))
    BY <1>1, SeqMonotonic
  <2>2. word \in Vocabulary(q)
    BY <1>1
  <2>3. <<word>> \in Seq(Vocabulary(q))
    BY <2>2
  <2> QED
    BY <2>1, <2>3, SqlParts
<1>3. AfterWhere(q) = <<word>> \o (rest \o Ending[q.ending])
  <2>1. PICK t \in Seq(Vocabulary(q)) : t = <<word>>
    BY <1>2
  <2>2. PICK u \in Seq(Vocabulary(q)) : u = Ending[q.ending]
    BY <1>2
  <2>3. (t \o rest) \o u = t \o (rest \o u)
    BY <1>2, ConcatAssociative
  <2> QED
    BY <2>1, <2>2, <2>3 DEF AfterWhere
<1>4. rest \o Ending[q.ending] \in Seq(Vocabulary(q))
  BY <1>2, ConcatProperties
<1>5. {word} \in Kinds(q, S)
  BY <1>1 DEF Kinds
<1>6. <<{word}>> \in Seq(Kinds(q, S)) /\ <<Gap>> \in Seq(Kinds(q, S))
  <2>1. <<{word}>> \in Seq(Kinds(q, S))
    BY <1>5
  <2> QED
    BY <2>1, HeadFits
<1>7. Fits(<<{word}>>, <<word>>)
  <2> DEFINE p == <<{word}>>
             t == <<word>>
  <2>1. Len(t) = 1 /\ Len(p) = 1 /\ t[1] \in p[1]
    OBVIOUS
  <2> HIDE DEF p, t
  <2>2. Fits(p, t)
    <3>1. \A n \in 1 .. Len(t) : n = 1
      BY <2>1
    <3> QED
      BY <2>1, <3>1, ExactFits
  <2> QED
    BY <2>2 DEF p, t
<1>8. Fits(<<Gap>>, rest \o Ending[q.ending])
  BY <1>4, GapFits, LenProperties
<1>9. Fits(<<{word}>> \o <<Gap>>, AfterWhere(q)) /\ <<{word}>> \o <<Gap>> \in Seq(Kinds(q, S))
  <2>1. PICK u \in Seq(Vocabulary(q)) : u = rest \o Ending[q.ending]
    BY <1>4
  <2>2. Fits(<<{word}>> \o <<Gap>>, <<word>> \o u)
    BY <1>2, <1>6, <1>7, <1>8, <2>1, FittingConcat
  <2>3. <<{word}>> \o <<Gap>> \in Seq(Kinds(q, S))
    BY <1>6, ConcatProperties
  <2> QED
    BY <1>3, <2>1, <2>2, <2>3
<1> QED
  BY <1>9, MatchesWhere

(* A quoted text has one member for each of its tokens.                    *)
LEMMA QuotedType ==
  ASSUME NEW S, NEW z \in Seq(S)
  PROVE  /\ Quoted(z) \in Seq(SUBSET S) /\ Len(Quoted(z)) = Len(z) /\ Len(z) \in Nat
         /\ \A n \in 1 .. Len(z) : Quoted(z)[n] = {z[n]}
<1>1. Len(z) \in Nat /\ DOMAIN z = 1 .. Len(z) /\ \A n \in 1 .. Len(z) : z[n] \in S
  BY LenProperties
<1> QED
  BY <1>1 DEF Quoted

(* Nothing but the quoted text.                                            *)
LEMMA MatchesQuoted ==
  ASSUME NEW q, WellFormed(q), Conditions(q) # <<>>, NEW S, q.select \in S
  PROVE  Matches((<<S, {q.table}>> \o <<{"WHERE"}>>) \o Quoted(AfterWhere(q)), Sql(q))
<1>1. AfterWhere(q) \in Seq(Vocabulary(q))
  BY SqlParts
<1>2. Quoted(AfterWhere(q)) \in Seq(SUBSET Vocabulary(q)) /\ Len(Quoted(AfterWhere(q))) = Len(AfterWhere(q))
      /\ Len(AfterWhere(q)) \in Nat /\ \A n \in 1 .. Len(AfterWhere(q)) : AfterWhere(q)[n] \in Quoted(AfterWhere(q))[n]
  BY <1>1, QuotedType
<1>3. Fits(Quoted(AfterWhere(q)), AfterWhere(q))
  BY <1>2, ExactFits
<1>4. SUBSET Vocabulary(q) \subseteq Kinds(q, S)
  BY DEF Kinds
<1>5. Quoted(AfterWhere(q)) \in Seq(Kinds(q, S))
  BY <1>2, <1>4, SeqMonotonic
<1> QED
  BY <1>3, <1>5, MatchesWhere

(* A pair and one more.                                                    *)
LEMMA TwoAndOne ==
  ASSUME NEW a, NEW b, NEW c
  PROVE  <<a, b>> \o <<c>> = <<a, b, c>>
<1> DEFINE S == {a, b, c}
           s == <<a, b>>
           t == <<c>>
           u == <<a, b, c>>
<1>1. s \in Seq(S) /\ t \in Seq(S) /\ u \in Seq(S)
  OBVIOUS
<1>2. Len(s) = 2 /\ Len(t) = 1 /\ Len(u) = 3 /\ s[1] = a /\ s[2] = b /\ t[1] = c
      /\ u[1] = a /\ u[2] = b /\ u[3] = c
  OBVIOUS
<1> HIDE DEF S, s, t, u
<1>3. s \o t \in Seq(S) /\ Len(s \o t) = Len(s) + Len(t)
      /\ \A i \in 1 .. Len(s) + Len(t) : (s \o t)[i] = IF i <= Len(s) THEN s[i] ELSE t[i - Len(s)]
  BY <1>1, ConcatProperties
<1>4. ASSUME NEW i \in 1 .. Len(s \o t) PROVE (s \o t)[i] = u[i]
  <2>1. i = 1 \/ i = 2 \/ i = 3
    BY <1>2, <1>3
  <2> QED
    BY <1>2, <1>3, <2>1
<1>5. s \o t = u
  <2>1. Len(s \o t) = Len(u)
    BY <1>2, <1>3
  <2> QED
    BY <1>1, <1>3, <1>4, <2>1, SeqEqual
<1> QED
  BY <1>5 DEF s, t, u

(* What an exact pattern matches is the text it quotes.                    *)
LEMMA MatchedText ==
  ASSUME NEW q, WellFormed(q), NEW sel, NEW t, NEW z \in Seq(ConditionWords \cup EndingWords),
         Matches((<<{sel}, {t}>> \o <<{"WHERE"}>>) \o Quoted(z), Sql(q))
  PROVE  Sql(q) = (<<sel, t>> \o <<"WHERE">>) \o z
<1> DEFINE V == Vocabulary(q) \cup {sel, t}
           head == <<sel, t>> \o <<"WHERE">>
           p == <<{sel}, {t}>> \o <<{"WHERE"}>>
           text == head \o z
           pattern == p \o Quoted(z)
<1>1. ConditionWords \cup EndingWords \subseteq V /\ sel \in V /\ t \in V /\ "WHERE" \in V
      /\ Vocabulary(q) \subseteq V
  BY DEF Vocabulary
<1>2. {sel} \in SUBSET V /\ {t} \in SUBSET V /\ {"WHERE"} \in SUBSET V
  BY <1>1
<1> HIDE DEF V
<1>3. z \in Seq(V) /\ Sql(q) \in Seq(V)
  BY <1>1, SeqMonotonic, SqlParts
<1>4. head = <<sel, t, "WHERE">> /\ p = <<{sel}, {t}, {"WHERE"}>>
  BY TwoAndOne
<1>5. head \in Seq(V) /\ Len(head) = 3 /\ head[1] = sel /\ head[2] = t /\ head[3] = "WHERE"
  BY <1>1, <1>4
<1>6. p \in Seq(SUBSET V) /\ Len(p) = 3 /\ p[1] = {sel} /\ p[2] = {t} /\ p[3] = {"WHERE"}
  BY <1>2, <1>4
<1> HIDE DEF head, p
<1>7. /\ Quoted(z) \in Seq(SUBSET V) /\ Len(Quoted(z)) = Len(z) /\ Len(z) \in Nat
      /\ \A n \in 1 .. Len(z) : Quoted(z)[n] = {z[n]}
  BY <1>3, QuotedType
<1>8. text \in Seq(V) /\ Len(text) = 3 + Len(z)
      /\ \A n \in 1 .. 3 + Len(z) : text[n] = IF n <= 3 THEN head[n] ELSE z[n - 3]
  <2>1. head \o z \in Seq(V) /\ Len(head \o z) = Len(head) + Len(z)
        /\ \A i \in 1 .. Len(head) + Len(z) :
             (head \o z)[i] = IF i <= Len(head) THEN head[i] ELSE z[i - Len(head)]
    BY <1>3, <1>5, ConcatProperties
  <2> QED
    BY <1>5, <2>1
<1>9. pattern \in Seq(SUBSET V) /\ Len(pattern) = 3 + Len(z)
      /\ \A n \in 1 .. 3 + Len(z) : pattern[n] = IF n <= 3 THEN p[n] ELSE Quoted(z)[n - 3]
  <2> DEFINE r == Quoted(z)
             K == SUBSET V
  <2>1. r \in Seq(K) /\ Len(r) = Len(z) /\ p \in Seq(K)
    BY <1>6, <1>7
  <2> HIDE DEF r, K
  <2>2. p \o r \in Seq(K) /\ Len(p \o r) = Len(p) + Len(r)
        /\ \A i \in 1 .. Len(p) + Len(r) :
             (p \o r)[i] = IF i <= Len(p) THEN p[i] ELSE r[i - Len(p)]
    BY <2>1, ConcatProperties
  <2>3. p \o r \in Seq(K) /\ Len(p \o r) = 3 + Len(z)
        /\ \A i \in 1 .. 3 + Len(z) : (p \o r)[i] = IF i <= 3 THEN p[i] ELSE r[i - 3]
    BY <1>6, <2>1, <2>2
  <2> QED
    BY <2>3 DEF r, K
<1> HIDE DEF text, pattern
<1>10. ASSUME NEW n \in 1 .. 3 + Len(z) PROVE pattern[n] = {text[n]} /\ pattern[n] # Gap
  <2>1. CASE n <= 3
    <3>1. n = 1 \/ n = 2 \/ n = 3
      BY <2>1, <1>7
    <3>2. p[n] = {head[n]}
      BY <1>5, <1>6, <3>1
    <3> QED
      BY <1>8, <1>9, <2>1, <3>2 DEF Gap
  <2>2. CASE ~(n <= 3)
    <3>1. n - 3 \in 1 .. Len(z)
      BY <1>7, <2>2
    <3> QED
      BY <1>7, <1>8, <1>9, <2>2, <3>1 DEF Gap
  <2> QED
    BY <2>1, <2>2
<1>11. Len(pattern) \in Nat /\ Len(Sql(q)) \in Nat
  BY <1>3, <1>7, <1>9, LenProperties
<1>12. Matches(pattern, Sql(q))
  BY DEF pattern, p
<1>13. Len(Sql(q)) = Len(pattern) /\ \A n \in 1 .. Len(pattern) : Sql(q)[n] \in pattern[n]
  BY <1>9, <1>10, <1>11, <1>12, MatchingIsExact
<1>14. Sql(q) = text
  <2>1. Len(Sql(q)) = Len(text)
    BY <1>8, <1>9, <1>13
  <2>2. \A n \in 1 .. Len(Sql(q)) : Sql(q)[n] = text[n]
    BY <1>9, <1>10, <1>13
  <2> QED
    BY <1>3, <1>8, <2>1, <2>2, SeqEqual
<1> QED
  BY <1>14 DEF text, head

(* A statement that matches a quoted text is that text.                    *)
LEMMA MatchedQuoted ==
  ASSUME NEW q, WellFormed(q), NEW sel, NEW t, NEW z \in Seq(ConditionWords \cup EndingWords),
         Matches((<<{sel}, {t}>> \o <<{"WHERE"}>>) \o Quoted(z), Sql(q))
  PROVE  q.select = sel /\ q.table = t /\ AfterWhere(q) = z
<1> DEFINE V == Vocabulary(q) \cup {sel, t}
<1>1. ConditionWords \cup EndingWords \subseteq V /\ sel \in V /\ q.select \in V /\ q.table \in V /\ t \in V /\ "WHERE" \in V
      /\ Vocabulary(q) \subseteq V
  BY DEF Vocabulary
<1> HIDE DEF V
<1>2. Sql(q) = (<<sel, t>> \o <<"WHERE">>) \o z
  BY MatchedText
<1>3. z \in Seq(V) /\ AfterWhere(q) \in Seq(V)
  BY <1>1, SeqMonotonic, SqlParts
<1>4. ASSUME NEW s \in V, NEW u \in V
      PROVE  /\ <<s, u>> \o <<"WHERE">> = <<s, u, "WHERE">>
             /\ <<s, u, "WHERE">> \in Seq(V) /\ Len(<<s, u, "WHERE">>) = 3
             /\ <<s, u, "WHERE">>[1] = s /\ <<s, u, "WHERE">>[2] = u
             /\ <<s, u, "WHERE">>[3] = "WHERE"
  BY <1>1, TwoAndOne
<1>5. /\ Sql(q) = <<sel, t, "WHERE">> \o z /\ Len(Sql(q)) = 3 + Len(z) /\ Len(z) \in Nat
      /\ \A n \in 1 .. 3 + Len(z) : n <= 3 => Sql(q)[n] = <<sel, t, "WHERE">>[n]
  BY <1>1, <1>2, <1>3, <1>4, ConcatProperties, LenProperties
<1>6. Sql(q)[1] = sel /\ Sql(q)[2] = t /\ Sql(q)[3] = "WHERE"
  BY <1>1, <1>4, <1>5
<1>7. Conditions(q) # <<>>
  <2> SUFFICES ASSUME Conditions(q) = <<>> PROVE FALSE
    OBVIOUS
  <2>1. Sql(q) = <<q.select, q.table>> \o Ending[q.ending]
    BY SqlParts
  <2>2. Ending[q.ending] \in Seq(EndingWords)
    BY EndingType DEF WellFormed
  <2>3. Ending[q.ending] \in Seq(V) /\ <<q.select, q.table>> \in Seq(V) /\ Len(<<q.select, q.table>>) = 2
    BY <1>1, <2>2, SeqMonotonic
  <2>4. PICK e \in Seq(V) : e = Ending[q.ending]
    BY <2>3
  <2>5. Len(Sql(q)) = 2 + Len(e) /\ Len(e) \in Nat
        /\ \A n \in 1 .. 2 + Len(e) : Sql(q)[n] = IF n <= 2 THEN <<q.select, q.table>>[n] ELSE e[n - 2]
    BY <2>1, <2>3, <2>4, ConcatProperties, LenProperties
  <2>6. 3 \in 1 .. 2 + Len(e) /\ 1 \in 1 .. Len(e) /\ ~(3 <= 2) /\ 3 - 2 = 1
    BY <1>5, <2>5
  <2>7. e[1] = "WHERE"
    BY <1>6, <2>5, <2>6
  <2>8. e[1] \in EndingWords
    BY <2>2, <2>4, <2>6, LenProperties
  <2> QED
    BY <2>7, <2>8 DEF EndingWords
<1>8. Sql(q) = <<q.select, q.table, "WHERE">> \o AfterWhere(q)
  <2>1. Sql(q) = (<<q.select, q.table>> \o <<"WHERE">>) \o AfterWhere(q)
    BY <1>7, SqlParts
  <2>2. <<q.select, q.table>> \o <<"WHERE">> = <<q.select, q.table, "WHERE">>
    BY <1>1, <1>4
  <2> QED
    BY <2>1, <2>2
<1>9. q.select = sel /\ q.table = t
  <2>1. /\ <<q.select, q.table, "WHERE">> \in Seq(V) /\ Len(<<q.select, q.table, "WHERE">>) = 3
        /\ <<q.select, q.table, "WHERE">>[1] = q.select /\ <<q.select, q.table, "WHERE">>[2] = q.table
    BY <1>1, <1>4
  <2>2. \A n \in 1 .. 3 + Len(AfterWhere(q)) : n <= 3 => Sql(q)[n] = <<q.select, q.table, "WHERE">>[n]
    BY <1>3, <1>8, <2>1, ConcatProperties
  <2>3. 1 \in 1 .. 3 + Len(AfterWhere(q)) /\ 2 \in 1 .. 3 + Len(AfterWhere(q))
    BY <1>3, LenProperties
  <2> QED
    BY <1>6, <2>1, <2>2, <2>3
<1>10. AfterWhere(q) = z
  <2>1. PICK h \in Seq(V) : h = <<sel, t, "WHERE">>
    BY <1>1, <1>4
  <2>2. h \o AfterWhere(q) = h \o z
    BY <1>5, <1>8, <1>9, <2>1
  <2> QED
    BY <1>3, <2>2, ConcatSimplifications
<1> QED
  BY <1>9, <1>10

(* The last token of a condition is none of an ending.                     *)
LEMMA EndsAsFirst ==
  ASSUME NEW q, WellFormed(q), NEW s \in Seq(ConditionWords),
         AfterWhere(q) = s \o <<"ORDER_BY", "LIMIT_1">>
  PROVE  q.ending = "first" /\ Conditions(q) = s
<1> DEFINE V == ConditionWords \cup EndingWords
           last(t) == t[Len(t)]
<1>1. Conditions(q) \in Seq(ConditionWords) /\ Ending[q.ending] \in Seq(EndingWords)
  BY ConditionsType, EndingType DEF WellFormed
<1>2. Conditions(q) \in Seq(V) /\ Ending[q.ending] \in Seq(V) /\ s \in Seq(V)
  BY <1>1, SeqMonotonic
<1>3. <<"ORDER_BY", "LIMIT_1">> \in Seq(V) /\ <<"ORDER_BY", "LIMIT_1">> # <<>>
      /\ Len(<<"ORDER_BY", "LIMIT_1">>) = 2 /\ <<"ORDER_BY", "LIMIT_1">>[2] = "LIMIT_1"
  BY DEF EndingWords
<1>4. "LIMIT_1" \notin ConditionWords
  BY DEF ConditionWords
<1> HIDE DEF V
<1>5. PICK a \in Seq(V) : a = AfterWhere(q)
  BY <1>2, <1>3, ConcatProperties
<1>6. a # <<>> /\ a[Len(a)] = "LIMIT_1"
  BY <1>2, <1>3, <1>5, LastOfConcat
<1>7. q.ending = "first"
  <2>1. CASE Ending[q.ending] = <<>>
    <3>1. a = Conditions(q)
      BY <1>2, <1>5, <2>1, ConcatEmptySeq DEF AfterWhere
    <3>2. Len(a) \in 1 .. Len(a)
      BY <1>5, <1>6, EmptySeq
    <3>3. a[Len(a)] \in ConditionWords
      BY <1>1, <3>1, <3>2, ElementOfSeq
    <3> QED
      BY <1>4, <1>6, <3>3
  <2>2. CASE Ending[q.ending] # <<>>
    <3>1. a[Len(a)] = Ending[q.ending][Len(Ending[q.ending])]
      BY <1>2, <1>5, <2>2, LastOfConcat DEF AfterWhere
    <3>2. q.ending \in {"first", "all", "page", "sorted"}
      BY DEF WellFormed, Ending
    <3>3. Ending["page"] = <<"LIMIT_n">> /\ Ending["sorted"] = <<"ORDER_BY_name">> /\ Ending["all"] = <<>>
      BY DEF Ending
    <3>4. Len(<<"LIMIT_n">>) = 1 /\ <<"LIMIT_n">>[1] = "LIMIT_n"
          /\ Len(<<"ORDER_BY_name">>) = 1 /\ <<"ORDER_BY_name">>[1] = "ORDER_BY_name"
      OBVIOUS
    <3> QED
      BY <1>6, <2>2, <3>1, <3>2, <3>3, <3>4
  <2> QED
    BY <2>1, <2>2
<1>8. Ending["first"] = <<"ORDER_BY", "LIMIT_1">>
  BY DEF Ending
<1>9. PICK e \in Seq(V) : e = <<"ORDER_BY", "LIMIT_1">>
  BY <1>3
<1>10. Conditions(q) \o e = s \o e
  BY <1>7, <1>8, <1>9 DEF AfterWhere
<1>11. Conditions(q) = s
  BY <1>2, <1>10, ConcatSimplifications
<1> QED
  BY <1>7, <1>11

(* A pair and another.                                                     *)
LEMMA TwoAndTwo ==
  ASSUME NEW a, NEW b, NEW c, NEW d
  PROVE  <<a, b>> \o <<c, d>> = <<a, b, c, d>>
<1> DEFINE S == {a, b, c, d}
           s == <<a, b>>
           t == <<c, d>>
           u == <<a, b, c, d>>
<1>1. s \in Seq(S) /\ t \in Seq(S) /\ u \in Seq(S)
  OBVIOUS
<1>2. Len(s) = 2 /\ Len(t) = 2 /\ Len(u) = 4 /\ s[1] = a /\ s[2] = b /\ t[1] = c /\ t[2] = d
      /\ u[1] = a /\ u[2] = b /\ u[3] = c /\ u[4] = d
  OBVIOUS
<1> HIDE DEF S, s, t, u
<1>3. s \o t \in Seq(S) /\ Len(s \o t) = Len(s) + Len(t)
      /\ \A i \in 1 .. Len(s) + Len(t) : (s \o t)[i] = IF i <= Len(s) THEN s[i] ELSE t[i - Len(s)]
  BY <1>1, ConcatProperties
<1>4. ASSUME NEW i \in 1 .. Len(s \o t) PROVE (s \o t)[i] = u[i]
  <2>1. i = 1 \/ i = 2 \/ i = 3 \/ i = 4
    BY <1>2, <1>3
  <2> QED
    BY <1>2, <1>3, <2>1
<1>5. s \o t = u
  <2>1. Len(s \o t) = Len(u)
    BY <1>2, <1>3
  <2> QED
    BY <1>1, <1>3, <1>4, <2>1, SeqEqual
<1> QED
  BY <1>5 DEF s, t, u

(* The texts of the two exact statements of a First.                       *)
SoftText(w) == Text[w] \o <<"AND", "soft", "ORDER_BY", "LIMIT_1">>
PlainText(w) == Text[w] \o <<"ORDER_BY", "LIMIT_1">>

(* The statements the exact patterns quote.                                *)
LEMMA TextsOfFirst ==
  ASSUME NEW w \in DOMAIN Text
  PROVE  /\ SoftText(w) = (Text[w] \o <<"AND", "soft">>) \o <<"ORDER_BY", "LIMIT_1">>
         /\ Text[w] \o <<"AND", "soft">> \in Seq(ConditionWords)
         /\ SoftText(w) \in Seq(ConditionWords \cup EndingWords)
         /\ PlainText(w) \in Seq(ConditionWords \cup EndingWords)
<1> DEFINE V == ConditionWords \cup EndingWords
<1>1. Text[w] \in Seq(ConditionWords) /\ Text[w] \in Seq(V)
  BY TextType, SeqMonotonic
<1>2. <<"AND", "soft">> \in Seq(V) /\ <<"ORDER_BY", "LIMIT_1">> \in Seq(V)
  BY DEF ConditionWords, EndingWords
<1> HIDE DEF V
<1>3. PICK s \in Seq(V) : s = Text[w]
  BY <1>1
<1>4. PICK t \in Seq(V) : t = <<"AND", "soft">>
  BY <1>2
<1>5. PICK u \in Seq(V) : u = <<"ORDER_BY", "LIMIT_1">>
  BY <1>2
<1>6. t \o u = <<"AND", "soft", "ORDER_BY", "LIMIT_1">>
  BY <1>4, <1>5, TwoAndTwo
<1>7. (s \o t) \o u = s \o (t \o u)
  BY ConcatAssociative
<1>8. SoftText(w) = (Text[w] \o <<"AND", "soft">>) \o <<"ORDER_BY", "LIMIT_1">>
  BY <1>3, <1>4, <1>5, <1>6, <1>7 DEF SoftText
<1>9. s \o u \in Seq(V) /\ (s \o t) \o u \in Seq(V)
  BY ConcatProperties
<1>10. Text[w] \o <<"AND", "soft">> \in Seq(ConditionWords)
  BY <1>1, WordsType, ConcatProperties
<1> QED
  BY <1>3, <1>4, <1>5, <1>8, <1>9, <1>10 DEF PlainText, V

(* Only a query with this very clause, into a fresh destination, has these *)
(* conditions: a clause is found again in what GORM made of it, although   *)
(* GORM may add the key of a destination or parentheses.                   *)
LEMMA ScopedInverse ==
  ASSUME NEW q, WellFormed(q), NEW w \in DOMAIN Text, w # "none",
         Conditions(q) = Text[w] \o <<"AND", "soft">>
  PROVE  q.clause = w /\ ~q.loaded
<1> DEFINE own == Text[q.clause]
<1>1. own \in Seq(ConditionWords) /\ Text[w] \in Seq(ConditionWords) /\ q.clause \in DOMAIN Text
  BY TextType DEF WellFormed
<1>2. PICK t \in Seq(ConditionWords) : t = <<"AND", "soft">>
  BY WordsType
<1>3. t # <<>> /\ Len(t) = 2 /\ t[Len(t)] = "soft"
  BY <1>2
<1>4. Conditions(q) = Text[w] \o t
  BY <1>2
<1>5. Conditions(q)[Len(Conditions(q))] = "soft" /\ Conditions(q) # <<>>
  BY <1>1, <1>3, <1>4, LastOfConcat
<1>6. ~q.loaded
  BY <1>5, ConditionsLoaded
<1>7. q.scoped
  <2> SUFFICES ASSUME ~q.scoped PROVE FALSE
    BY DEF WellFormed
  <2>1. Conditions(q) = Text[q.clause]
    BY <1>6, ConditionsUnscoped
  <2>2. q.clause # "none"
    BY <1>5, <2>1, TextIs
  <2> QED
    BY <1>1, <1>5, <2>1, <2>2, TextEnds
<1>8. q.clause # "none"
  <2> SUFFICES ASSUME q.clause = "none" PROVE FALSE
    OBVIOUS
  <2>1. Conditions(q) = <<"soft">>
    BY <1>6, <1>7, ConditionsScoped
  <2>2. Len(Conditions(q)) = Len(Text[w]) + 2 /\ Len(Text[w]) \in Nat
    BY <1>1, <1>3, <1>4, ConcatProperties, LenProperties
  <2>3. Len(<<"soft">>) = 1
    OBVIOUS
  <2>4. PICK n \in Nat : n = Len(Text[w])
    BY <2>2
  <2>5. n + 2 = 1
    BY <2>1, <2>2, <2>3, <2>4
  <2> QED
    BY <2>5
<1>12. Len(own) = 1 => own[1] \notin {"AND", "OR"}
  BY <1>1, TextLengths
<1>13. Len(own) = 3 => own[1] # "name_like"
  BY <1>1, TextLengths
<1>14. Len(own) \in {1, 2, 3, 5} /\ Len(Text[w]) \in {1, 2, 3, 5}
  BY <1>1, <1>8, TextEnds
<1>15. Parenthesised(q) => \E n \in 1 .. Len(own) : own[n] \in {"AND", "OR"}
  <2>1. DOMAIN own = 1 .. Len(own)
    BY <1>1, LenProperties
  <2> QED
    BY <2>1 DEF Parenthesised, Mentions, ToSet
<1>16. /\ q.clause # "none" /\ ~Parenthesised(q) => Conditions(q) = own \o <<"AND", "soft">>
       /\ q.clause # "none" /\ Parenthesised(q) =>
            Conditions(q) = (<<"(">> \o own \o <<")">>) \o <<"AND", "soft">>
  BY <1>6, <1>7, ConditionsScoped
<1> HIDE DEF own
<1>9. ~Parenthesised(q)
  <2> SUFFICES ASSUME Parenthesised(q) PROVE FALSE
    OBVIOUS
  <2> DEFINE s == <<"(">> \o own \o <<")">>
  <2>1. s \in Seq(ConditionWords) /\ Len(s) = 2 + Len(own) /\ s[2] = own[1]
    <3>1. PICK a \in Seq(ConditionWords) : a = <<"(">>
      BY WordsType
    <3>2. PICK c \in Seq(ConditionWords) : c = <<")">>
      BY WordsType
    <3>3. Len(a) = 1 /\ Len(c) = 1 /\ Len(own) \in Nat
      BY <1>1, <3>1, <3>2, LenProperties
    <3>4. a \o own \in Seq(ConditionWords) /\ Len(a \o own) = Len(a) + Len(own)
          /\ \A i \in 1 .. Len(a) + Len(own) :
               (a \o own)[i] = IF i <= Len(a) THEN a[i] ELSE own[i - Len(a)]
      BY <1>1, ConcatProperties
    <3>5. Len(own) >= 1
      <4>1. PICK n \in Nat : n = Len(own)
        BY <3>3
      <4>2. n \in {1, 2, 3, 5}
        BY <1>14, <4>1
      <4>3. n >= 1
        BY <4>2
      <4> QED
        BY <4>1, <4>3
    <3>6. PICK b \in Seq(ConditionWords) : b = a \o own
      BY <3>4
    <3>7. b \o c \in Seq(ConditionWords) /\ Len(b \o c) = Len(b) + Len(c)
          /\ \A i \in 1 .. Len(b) + Len(c) : (b \o c)[i] = IF i <= Len(b) THEN b[i] ELSE c[i - Len(b)]
      BY ConcatProperties
    <3>8. Len(b) = 1 + Len(own) /\ b[2] = own[1]
      <4>1. 2 \in 1 .. Len(a) + Len(own) /\ ~(2 <= Len(a)) /\ 2 - Len(a) = 1
        BY <3>3, <3>5
      <4> QED
        BY <3>3, <3>4, <3>6, <4>1
    <3>9. (b \o c)[2] = own[1] /\ Len(b \o c) = 2 + Len(own)
      <4>1. 2 \in 1 .. Len(b) + Len(c) /\ 2 <= Len(b)
        BY <3>3, <3>5, <3>8
      <4> QED
        BY <3>3, <3>7, <3>8, <4>1
    <3> QED
      BY <3>1, <3>2, <3>6, <3>7, <3>9
  <2>2. Conditions(q) = s \o t
    BY <1>2, <1>8, <1>16
  <2> HIDE DEF s
  <2>3. Text[w] = s
    BY <1>1, <1>4, <2>1, <2>2, ConcatSimplifications
  <2>4. Len(own) \in {1, 3} /\ Len(Text[w]) = 2 + Len(own)
    <3>1. Len(Text[w]) = 2 + Len(own)
      BY <2>1, <2>3
    <3>2. PICK n \in Nat : n = Len(own)
      BY <1>1, LenProperties
    <3>3. n \in {1, 2, 3, 5} /\ 2 + n \in {1, 2, 3, 5}
      BY <1>14, <3>1, <3>2
    <3>4. n \in {1, 3}
      BY <3>3
    <3> QED
      BY <3>1, <3>2, <3>4
  <2>5. Len(own) = 3
    BY <1>12, <1>15, <2>4
  <2>6. Text[w] = <<"(", "name_like", "OR", "title_like", ")">>
    BY <2>4, <2>5, TextLengths
  <2>7. own[1] = "name_like"
    BY <2>1, <2>3, <2>6
  <2> QED
    BY <1>13, <2>5, <2>7
<1>10. Conditions(q) = own \o t
  BY <1>2, <1>8, <1>9, <1>16
<1>11. own = Text[w]
  BY <1>1, <1>4, <1>10, ConcatSimplifications
<1> QED
  BY <1>1, <1>6, <1>11, TextInjective DEF own

(* The same for a clause on deleted rows, to which GORM adds nothing.      *)
LEMMA PlainInverse ==
  ASSUME NEW q, WellFormed(q), NEW w \in {"notNull", "userNotNull"}, Conditions(q) = Text[w]
  PROVE  q.clause = w /\ ~q.loaded
<1>1. Text[w][Len(Text[w])] = "deleted_notnull" /\ w \in DOMAIN Text /\ Text[w] # <<>>
  <2>1. CASE w = "notNull"
    BY <2>1, TextIs
  <2>2. CASE w = "userNotNull"
    BY <2>2, TextIs
  <2> QED
    BY <2>1, <2>2
<1>2. ~q.loaded
  BY <1>1, ConditionsLoaded
<1>3. ~q.scoped
  <2> SUFFICES ASSUME q.scoped PROVE FALSE
    OBVIOUS
  <2>1. PICK t \in Seq(ConditionWords) : t = <<"AND", "soft">>
    BY WordsType
  <2>2. t # <<>> /\ t[Len(t)] = "soft"
    BY <2>1
  <2>3. Text[q.clause] \in Seq(ConditionWords)
    BY TextType DEF WellFormed
  <2>4. <<"(">> \o Text[q.clause] \o <<")">> \in Seq(ConditionWords)
    BY <2>3, WordsType, ConcatProperties
  <2>5. ASSUME NEW s \in Seq(ConditionWords), Conditions(q) = s \o t PROVE FALSE
    BY <1>1, <2>2, <2>5, LastOfConcat
  <2>6. q.clause # "none"
    <3>1. Len(<<"soft">>) = 1 /\ <<"soft">>[1] = "soft"
      OBVIOUS
    <3> QED
      BY <1>1, <1>2, <3>1, ConditionsScoped
  <2> QED
    BY <1>2, <2>1, <2>3, <2>4, <2>5, <2>6, ConditionsScoped
<1>4. Text[q.clause] = Text[w]
  BY <1>2, <1>3, ConditionsUnscoped DEF WellFormed
<1> QED
  BY <1>1, <1>2, <1>4, TextInjective DEF WellFormed

------------------------------------------------------------------------------
(* The queries of the code under test, by either name of the table and     *)
(* whatever was loaded before.                                             *)
AllQueries ==
  {q \in [select : {"star", "count"}, table : {table, Prefixed[table]}, clause : DOMAIN Text,
          value : Values, scoped : BOOLEAN, loaded : BOOLEAN, ending : DOMAIN Ending] :
     /\ q.scoped => table \in SoftTables
     /\ q.loaded => q.select = "star" /\ q.ending = "first"
     /\ q.select = "count" => q.ending = "all"}

(* The queries that can be made now are among them, and all are well       *)
(* formed.                                                                 *)
LEMMA QueriesAre ==
  /\ Queries \subseteq AllQueries
  /\ \A q \in AllQueries : WellFormed(q) /\ q.value \in Values
<1>1. CodeClauses \cup {"none", "pk"} \subseteq DOMAIN Text
  BY FindExpectationsAssumption, TextIs DEF CodeClauses
<1>2. Queries \subseteq AllQueries
  <2> SUFFICES ASSUME NEW q \in Queries PROVE q \in AllQueries
    OBVIOUS
  <2>1. q \in [select : {"star", "count"}, table : {table, Prefixed[table]}, clause : DOMAIN Text,
               value : Values, scoped : BOOLEAN, loaded : BOOLEAN, ending : DOMAIN Ending]
    BY <1>1 DEF Queries, TablesQueried
  <2> QED
    BY <2>1 DEF Queries, AllQueries
<1> QED
  BY <1>2 DEF AllQueries, WellFormed

(* The absent clause binds nothing.                                        *)
LEMMA NoneIsEmpty == "none" \in DOMAIN Text /\ ArgCount("none") = 0
<1>1. {n \in DOMAIN Text["none"] : Text["none"][n] \notin Unbound} = {}
  BY TextIs
<1> QED
  BY <1>1, TextIs, FS_EmptySet DEF ArgCount

(* The clauses the documentation gives WithArgs to bind something.         *)
LEMMA BoundClauses ==
  ASSUME NEW w \in {"username", "status", "age", "either", "like"}
  PROVE  ArgCount(w) \in Nat /\ ArgCount(w) # 0
<1> DEFINE bound == {n \in DOMAIN Text[w] : Text[w][n] \notin Unbound}
<1>1. w \in DOMAIN Text
  BY TextIs
<1>2. 1 \in bound
  <2>1. CASE w = "either"
    <3>1. 1 \in DOMAIN <<"username", "OR", "email">> /\ <<"username", "OR", "email">>[1] = "username"
      OBVIOUS
    <3> QED
      BY <2>1, <3>1, TextIs DEF Unbound
  <2>2. CASE w # "either"
    <3>1. PICK a \in {"username", "status", "age_above", "name_like"} : Text[w] = <<a>>
      BY <2>2, TextIs
    <3>2. 1 \in DOMAIN <<a>> /\ <<a>>[1] = a
      OBVIOUS
    <3> QED
      BY <3>1, <3>2 DEF Unbound
  <2> QED
    BY <2>1, <2>2
<1>3. bound \in SUBSET DOMAIN Text[w]
  OBVIOUS
<1>4. IsFiniteSet(bound)
  BY <1>1, <1>3, TextType, PositionsFinite
<1> HIDE DEF bound
<1>5. Cardinality(bound) # 0
  BY <1>2, <1>4, FS_EmptySet
<1> QED
  BY <1>1, <1>5, ArgCountType DEF ArgCount, bound

(* The arguments of a query: one value for each placeholder, then the key  *)
(* of a loaded destination.                                                *)
LEMMA ArgsAre ==
  ASSUME NEW q \in AllQueries
  PROVE  /\ ~q.loaded => Args(q) = Copies(q.value, ArgCount(q.clause))
         /\ ArgCount(q.clause) \in Nat
         /\ Len(Args(q)) = ArgCount(q.clause) + (IF q.loaded THEN 1 ELSE 0)
         /\ DOMAIN Args(q) = 1 .. Len(Args(q))
         /\ Len(Args(q)) > 0 => Args(q)[1] \in {q.value, KeyArg}
<1> DEFINE S == {q.value, KeyArg}
           n == ArgCount(q.clause)
<1>1. q.clause \in DOMAIN Text /\ q.loaded \in BOOLEAN
  BY QueriesAre DEF WellFormed
<1>2. n \in Nat
  BY <1>1, ArgCountType
<1> HIDE DEF n
<1>3. Copies(q.value, n) \in Seq({q.value}) /\ Len(Copies(q.value, n)) = n
  BY <1>2, CopiesType
<1>4. Copies(q.value, n) \in Seq(S)
  BY <1>3, SeqMonotonic
<1>12. <<KeyArg>> \in Seq(S) /\ <<>> \in Seq(S) /\ Len(<<KeyArg>>) = 1 /\ Len(<<>>) = 0
  <2>1. \A k \in S : <<k>> \in Seq(S)
    OBVIOUS
  <2> QED
    BY <2>1
<1>5. PICK t \in Seq(S) : t = (IF q.loaded THEN <<KeyArg>> ELSE <<>>)
  BY <1>12
<1>6. Len(t) = IF q.loaded THEN 1 ELSE 0
  BY <1>5, <1>12
<1>7. Args(q) = Copies(q.value, n) \o t
  BY <1>5 DEF Args, n
<1>8. Args(q) \in Seq(S) /\ Len(Args(q)) = n + (IF q.loaded THEN 1 ELSE 0)
  <2>1. PICK s \in Seq(S) : s = Copies(q.value, n)
    BY <1>4
  <2>2. s \o t \in Seq(S) /\ Len(s \o t) = Len(s) + Len(t)
    BY ConcatProperties
  <2> QED
    BY <1>3, <1>6, <1>7, <2>1, <2>2
<1>9. ASSUME ~q.loaded PROVE Args(q) = Copies(q.value, n)
  BY <1>4, <1>5, <1>7, <1>9, ConcatEmptySeq
<1>10. DOMAIN Args(q) = 1 .. Len(Args(q)) /\ Len(Args(q)) \in Nat
  BY <1>8, LenProperties
<1>11. Len(Args(q)) > 0 => Args(q)[1] \in S
  <2>1. Len(Args(q)) > 0 => 1 \in 1 .. Len(Args(q))
    BY <1>10
  <2> QED
    BY <1>8, <2>1, ElementOfSeq
<1> QED
  BY <1>2, <1>8, <1>9, <1>10, <1>11 DEF n

(* The arguments an expectation lists are the given ones or any.           *)
LEMMA SameArgsAdmitted ==
  ASSUME NEW v, NEW n \in Nat
  PROVE  ArgsAdmit(Exactly(Copies(v, n)), Copies(v, n))
<1>1. DOMAIN Copies(v, n) = 1 .. n /\ Len(Copies(v, n)) = n
  BY CopiesType, LenProperties
<1> QED
  BY <1>1 DEF ArgsAdmit, Exactly, Unchecked

(* Any arguments of the right number are admitted where each may be any.   *)
LEMMA AnyArgsAdmitted ==
  ASSUME NEW n \in Nat, NEW actual, DOMAIN actual = 1 .. Len(actual), n = 0 \/ n = Len(actual)
  PROVE  ArgsAdmit(Exactly(Copies(AnyArg, n)), actual)
<1>1. Len(Copies(AnyArg, n)) = n /\ (\A i \in 1 .. n : Copies(AnyArg, n)[i] = AnyArg)
      /\ (Copies(AnyArg, n) = <<>> <=> n = 0)
  BY CopiesType
<1> QED
  BY <1>1 DEF ArgsAdmit, Exactly, Unchecked

(* An expectation without arguments admits any.                            *)
LEMMA UncheckedAdmitted ==
  ASSUME NEW actual
  PROVE  ArgsAdmit(Unchecked, actual) /\ Exactly(<<>>) = Unchecked
  BY DEF ArgsAdmit, Unchecked, Exactly

------------------------------------------------------------------------------
(* The exact statements of a First match their query and no other.         *)

(* The exact pattern of a First on a soft-deleting model matches the       *)
(* statement GORM makes of it.                                             *)
LEMMA SoftFirstMatches ==
  ASSUME NEW q \in AllQueries, q.clause # "none", ~Parenthesised(q), q.scoped, ~q.loaded,
         q.select = "star", q.ending = "first", q.table = chain.table
  PROVE  Matches(ExactSoftFirst(q.clause), Sql(q))
<1>1. WellFormed(q) /\ q.clause \in DOMAIN Text
  BY QueriesAre DEF WellFormed
<1>2. Conditions(q) = Text[q.clause] \o <<"AND", "soft">> /\ Conditions(q) # <<>>
  BY <1>1, ConditionsScoped, ConditionsNotEmpty
<1>3. Ending[q.ending] = <<"ORDER_BY", "LIMIT_1">>
  BY DEF Ending
<1>4. AfterWhere(q) = SoftText(q.clause)
  BY <1>1, <1>2, <1>3, TextsOfFirst DEF AfterWhere
<1>5. Matches((<<{"star"}, {q.table}>> \o <<{"WHERE"}>>) \o Quoted(AfterWhere(q)), Sql(q))
  BY <1>1, <1>2, MatchesQuoted
<1> QED
  BY <1>1, <1>4, <1>5 DEF ExactSoftFirst, Star, WhereToken, SoftText

(* That of a First without soft delete does as well.                       *)
LEMMA PlainFirstMatches ==
  ASSUME NEW q \in AllQueries, q.clause # "none", ~q.scoped, ~q.loaded,
         q.select = "star", q.ending = "first", q.table = chain.table
  PROVE  Matches(ExactPlainFirst(q.clause), Sql(q))
<1>1. WellFormed(q) /\ q.clause \in DOMAIN Text
  BY QueriesAre DEF WellFormed
<1>2. Conditions(q) = Text[q.clause] /\ Conditions(q) # <<>>
  BY <1>1, ConditionsUnscoped, ConditionsNotEmpty
<1>3. Ending[q.ending] = <<"ORDER_BY", "LIMIT_1">>
  BY DEF Ending
<1>4. AfterWhere(q) = PlainText(q.clause)
  BY <1>2, <1>3 DEF AfterWhere, PlainText
<1>5. Matches((<<{"star"}, {q.table}>> \o <<{"WHERE"}>>) \o Quoted(AfterWhere(q)), Sql(q))
  BY <1>1, <1>2, MatchesQuoted
<1> QED
  BY <1>1, <1>4, <1>5 DEF ExactPlainFirst, Star, WhereToken, PlainText

(* Conversely, the exact pattern matches nothing but a First with its      *)
(* clause into a fresh destination.                                        *)
LEMMA SoftFirstMatched ==
  ASSUME NEW q \in AllQueries, NEW w \in DOMAIN Text, w # "none",
         Matches(ExactSoftFirst(w), Sql(q))
  PROVE  q.select = "star" /\ q.ending = "first" /\ q.clause = w /\ ~q.loaded
<1>1. WellFormed(q)
  BY QueriesAre
<1>2. SoftText(w) \in Seq(ConditionWords \cup EndingWords)
  BY TextsOfFirst
<1>3. Matches((<<{"star"}, {chain.table}>> \o <<{"WHERE"}>>) \o Quoted(SoftText(w)), Sql(q))
  BY <1>1 DEF ExactSoftFirst, Star, WhereToken, SoftText
<1>4. q.select = "star" /\ AfterWhere(q) = SoftText(w)
  BY <1>1, <1>2, <1>3, MatchedQuoted
<1>5. PICK s \in Seq(ConditionWords) : s = Text[w] \o <<"AND", "soft">>
  BY TextsOfFirst
<1>6. AfterWhere(q) = s \o <<"ORDER_BY", "LIMIT_1">>
  BY <1>4, <1>5, TextsOfFirst
<1>7. q.ending = "first" /\ Conditions(q) = s
  BY <1>1, <1>6, EndsAsFirst
<1> QED
  BY <1>1, <1>4, <1>5, <1>7, ScopedInverse

(* For the clauses on deleted rows so does the pattern without a soft      *)
(* delete.                                                                 *)
LEMMA PlainFirstMatched ==
  ASSUME NEW q \in AllQueries, NEW w \in {"notNull", "userNotNull"},
         Matches(ExactPlainFirst(w), Sql(q))
  PROVE  q.select = "star" /\ q.ending = "first" /\ q.clause = w /\ ~q.loaded
<1>1. WellFormed(q) /\ w \in DOMAIN Text
  BY QueriesAre, TextIs
<1>2. PlainText(w) \in Seq(ConditionWords \cup EndingWords)
  BY <1>1, TextsOfFirst
<1>3. Matches((<<{"star"}, {chain.table}>> \o <<{"WHERE"}>>) \o Quoted(PlainText(w)), Sql(q))
  BY <1>1 DEF ExactPlainFirst, Star, WhereToken, PlainText
<1>4. q.select = "star" /\ AfterWhere(q) = PlainText(w)
  BY <1>1, <1>2, <1>3, MatchedQuoted
<1>5. Text[w] \in Seq(ConditionWords)
  BY <1>1, TextType
<1>6. q.ending = "first" /\ Conditions(q) = Text[w]
  BY <1>1, <1>4, <1>5, EndsAsFirst DEF PlainText
<1> QED
  BY <1>1, <1>4, <1>6, PlainInverse

------------------------------------------------------------------------------
(* What the builders find in the clauses of the documented uses.           *)

(* A clause of one condition mentions that one.                            *)
LEMMA MentionsOne ==
  ASSUME NEW c, NEW a, NEW T, Text[c] = <<a>>
  PROVE  Mentions(c, T) <=> a \in T
<1>1. DOMAIN <<a>> = {1} /\ <<a>>[1] = a
  OBVIOUS
<1>2. ToSet(Text[c]) = {a}
  BY <1>1 DEF ToSet
<1> QED
  BY <1>2 DEF Mentions

(* The absent clause mentions nothing.                                     *)
LEMMA MentionsNone ==
  ASSUME NEW T
  PROVE  ~Mentions("none", T)
<1>1. DOMAIN <<>> = {}
  OBVIOUS
<1>2. ToSet(Text["none"]) = {}
  BY <1>1, TextIs DEF ToSet
<1> QED
  BY <1>2 DEF Mentions

(* The disjunction of two equalities mentions these.                       *)
LEMMA MentionsEither ==
  ASSUME NEW T
  PROVE  Mentions("either", T) => T \cap {"username", "OR", "email"} # {}
<1>1. DOMAIN <<"username", "OR", "email">> = {1, 2, 3}
      /\ <<"username", "OR", "email">>[1] = "username" /\ <<"username", "OR", "email">>[2] = "OR"
      /\ <<"username", "OR", "email">>[3] = "email"
  OBVIOUS
<1>2. ToSet(Text["either"]) \subseteq {"username", "OR", "email"}
  BY <1>1, TextIs DEF ToSet
<1> QED
  BY <1>2 DEF Mentions

(* The simple clauses are never put in parentheses.                        *)
LEMMA SimpleClauses ==
  ASSUME NEW q, q.clause \in Simple \cup {"null"}
  PROVE  q.clause \in DOMAIN Text /\ q.clause # "none" /\ ~Parenthesised(q)
<1>1. \E a \in {"pk", "id", "username", "status", "deleted_null"} : Text[q.clause] = <<a>>
  BY TextIs DEF Simple
<1>2. ~Mentions(q.clause, {"AND", "OR"})
  BY <1>1, MentionsOne
<1> QED
  BY <1>2, TextIs DEF Simple, Parenthesised

(* These clauses do not speak of deleted rows.                             *)
LEMMA PlainClauses ==
  ASSUME NEW w \in {"none", "pk", "id", "username", "status", "age", "either", "like"}
  PROVE  w \in DOMAIN Text /\ ~HasDeletedAtCondition(w)
<1>1. CASE w = "none"
  BY <1>1, TextIs, MentionsNone DEF HasDeletedAtCondition
<1>2. CASE w = "either"
  <2>1. DeletedAt \cap {"username", "OR", "email"} = {}
    BY DEF DeletedAt
  <2> QED
    BY <1>2, <2>1, TextIs, MentionsEither DEF HasDeletedAtCondition
<1>3. CASE w \in {"pk", "id", "username", "status", "age", "like"}
  <2>1. \E a \in {"pk", "id", "username", "status", "age_above", "name_like"} : Text[w] = <<a>>
    BY <1>3, TextIs
  <2>2. ~Mentions(w, DeletedAt)
    BY <2>1, MentionsOne DEF DeletedAt
  <2> QED
    BY <1>3, <2>2, TextIs DEF HasDeletedAtCondition
<1> QED
  BY <1>1, <1>2, <1>3

(* The builder does not take these for a First.                            *)
LEMMA NotFirstLike ==
  ASSUME NEW c, ~c.first,
         \/ c.where \in {"username", "status", "age", "either", "like"} /\ c.value = NotGiven
         \/ c.where \in {"none", "age", "like"}
  PROVE  ~IsFirstLike(c)
<1>1. ~Mentions(c.where, {"id", "("})
  <2>1. CASE c.where = "none"
    BY <2>1, MentionsNone
  <2>2. CASE c.where = "either"
    BY <2>2, MentionsEither
  <2>3. CASE c.where \in {"username", "status", "age", "like"}
    <3>1. \E a \in {"username", "status", "age_above", "name_like"} : Text[c.where] = <<a>>
      BY <2>3, TextIs
    <3> QED
      BY <3>1, MentionsOne
  <2> QED
    BY <2>1, <2>2, <2>3
<1>2. ASSUME c.where \in {"none", "age", "like"}
      PROVE  ~Mentions(c.where, Equalities \cup {"AND", "OR"})
  <2>1. CASE c.where = "none"
    BY <2>1, MentionsNone
  <2>2. CASE c.where \in {"age", "like"}
    <3>1. \E a \in {"age_above", "name_like"} : Text[c.where] = <<a>>
      BY <2>2, TextIs
    <3> QED
      BY <3>1, MentionsOne DEF Equalities
  <2> QED
    BY <1>2, <2>1, <2>2
<1>3. c.value = NotGiven => ArgsOf(c) = <<>>
  BY DEF ArgsOf
<1>4. ~DetectFirstLikeQuery(c.where, ArgsOf(c))
  BY <1>1, <1>2, <1>3 DEF DetectFirstLikeQuery
<1> QED
  BY <1>4 DEF IsFirstLike

------------------------------------------------------------------------------
(* The names the tables go by.                                             *)
Names == {"none"} \cup Tables \cup {Prefixed[t] : t \in Tables}

(* The chains of an author.                                                *)
Chains ==
  {c \in [op : {"none", "find", "count", "search"}, table : Names, where : DOMAIN Text,
          value : Values \cup {NotGiven}, withArgs : Values \cup {NotGiven},
          first : BOOLEAN, deleted : BOOLEAN, search : Searches,
          call : {"none"}, known : BOOLEAN] :
     /\ c.first \/ c.deleted => c.op = "find"
     /\ c.op = "search" => c.value = Author}

By(c, call, known) == [c EXCEPT !.call = call, !.known = known]

(* An expectation remembers the chain that made it.                        *)
LEMMA ByFields ==
  ASSUME NEW c \in Chains, NEW call, NEW known
  PROVE  LET by == By(c, call, known) IN
         /\ by.call = call /\ by.known = known /\ by.where = c.where /\ by.value = c.value
         /\ by.withArgs = c.withArgs /\ by.first = c.first /\ by.deleted = c.deleted
         /\ by.search = c.search /\ by.op = c.op /\ by.table = c.table
         /\ GivenArgs(by) = GivenArgs(c) /\ (IsExactFirst(by) <=> IsExactFirst(c))
<1>1. DOMAIN c = {"op", "table", "where", "value", "withArgs", "first", "deleted", "search", "call", "known"}
  BY DEF Chains
<1> QED
  BY <1>1 DEF By, GivenArgs, IsExactFirst

(* The parts of a chain.                                                   *)
LEMMA ChainFields ==
  ASSUME NEW c \in Chains
  PROVE  /\ c.where \in DOMAIN Text /\ c.search \in Searches
         /\ c.value \in Values \cup {NotGiven} /\ c.withArgs \in Values \cup {NotGiven}
         /\ c.first \in BOOLEAN /\ c.deleted \in BOOLEAN
         /\ (c.first \/ c.deleted => c.op = "find") /\ (c.op = "search" => c.value = Author)
         /\ ArgCount(c.where) \in Nat
         /\ Len(ArgsOf(c)) = (IF c.value = NotGiven THEN 0 ELSE ArgCount(c.where))
         /\ Len(ArgsOf(c)) \in Nat
<1>1. c.where \in DOMAIN Text
  BY DEF Chains
<1>2. ArgCount(c.where) \in Nat
  BY <1>1, ArgCountType
<1>3. Len(ArgsOf(c)) = (IF c.value = NotGiven THEN 0 ELSE ArgCount(c.where))
  BY <1>2, CopiesType DEF ArgsOf
<1> QED
  BY <1>1, <1>2, <1>3 DEF Chains

(* ReturnRows and ReturnError write the same statement.                    *)
LEMMA PatternsAgree ==
  ASSUME NEW c
  PROVE  RowsPattern(c) = ErrorPattern(c)
<1>1. CASE c.deleted /\ c.where # "none" /\ c.first
  BY <1>1 DEF RowsPattern, ErrorPattern
<1>2. CASE ~(c.deleted /\ c.where # "none" /\ c.first) /\ HasDeletedAtCondition(c.where)
  <2>1. ~(c.deleted /\ c.where = "null" /\ c.first)
    BY <1>2
  <2> QED
    BY <1>2, <2>1 DEF RowsPattern, ErrorPattern
<1>3. CASE ~(c.deleted /\ c.where # "none" /\ c.first) /\ ~HasDeletedAtCondition(c.where)
  <2>1. ~(c.deleted /\ c.where = "null" /\ c.first)
    BY <1>3
  <2> QED
    BY <1>3, <2>1 DEF RowsPattern, ErrorPattern
<1> QED
  BY <1>1, <1>2, <1>3

(* So do, without WithArgs, the two copies of the arguments.               *)
LEMMA ArgumentsAgree ==
  ASSUME NEW c, c.withArgs = NotGiven
  PROVE  RowsArgs(c) = ErrorArgs(c)
  BY DEF RowsArgs, ErrorArgs

------------------------------------------------------------------------------
(* One and another.                                                        *)
LEMMA OneAndOne ==
  ASSUME NEW a, NEW b
  PROVE  <<a>> \o <<b>> = <<a, b>>
<1> DEFINE S == {a, b}
           s == <<a>>
           t == <<b>>
           u == <<a, b>>
<1>1. s \in Seq(S) /\ t \in Seq(S) /\ u \in Seq(S)
  OBVIOUS
<1>2. Len(s) = 1 /\ Len(t) = 1 /\ Len(u) = 2 /\ s[1] = a /\ t[1] = b /\ u[1] = a /\ u[2] = b
  OBVIOUS
<1> HIDE DEF S, s, t, u
<1>3. s \o t \in Seq(S) /\ Len(s \o t) = Len(s) + Len(t)
      /\ \A i \in 1 .. Len(s) + Len(t) : (s \o t)[i] = IF i <= Len(s) THEN s[i] ELSE t[i - Len(s)]
  BY <1>1, ConcatProperties
<1>4. ASSUME NEW i \in 1 .. Len(s \o t) PROVE (s \o t)[i] = u[i]
  <2>1. i = 1 \/ i = 2
    BY <1>2, <1>3
  <2> QED
    BY <1>2, <1>3, <2>1
<1>5. s \o t = u
  <2>1. Len(s \o t) = Len(u)
    BY <1>2, <1>3
  <2> QED
    BY <1>1, <1>3, <1>4, <2>1, SeqEqual
<1> QED
  BY <1>5 DEF s, t, u

(* Each documented use: what the builder writes admits its query.          *)

(* The pattern of a query that nothing is special about.                   *)
LEMMA SimplePatternMatches ==
  ASSUME NEW q \in AllQueries, NEW w \in DOMAIN Text, q.select = "star",
         q.table = chain.table,
         w # "none" => q.clause = w,
         w = "none" => q.clause = "none" /\ ~q.loaded /\ (HasSoftDelete => q.scoped)
  PROVE  Matches(SimplePattern(w), Sql(q))
<1>1. WellFormed(q) /\ q.table = chain.table
  BY QueriesAre
<1>2. q.select \in {"star", "count"}
  OBVIOUS
<1>3. CASE w # "none"
  <2>1. Conditions(q) # <<>>
    BY <1>1, <1>3, ConditionsNotEmpty
  <2>2. Matches((<<{"star", "count"}, {q.table}>> \o <<{"WHERE"}>>) \o <<Gap>>, Sql(q))
    BY <1>1, <1>2, <2>1, MatchesAnyWhere
  <2> QED
    BY <1>1, <1>3, <2>2 DEF SimplePattern, AnySelect, WhereToken
<1>4. CASE w = "none" /\ HasSoftDelete
  <2>1. Conditions(q) = <<"soft">>
    BY <1>1, <1>4, ConditionsScoped
  <2>2. "soft" \in ConditionWords /\ <<>> \in Seq(ConditionWords) /\ <<"soft">> \in Seq(ConditionWords)
    BY WordsType DEF ConditionWords
  <2>3. <<"soft">> \o <<>> = <<"soft">> /\ <<"soft">> # <<>>
    BY <2>2, ConcatEmptySeq
  <2>4. Matches((<<{"star", "count"}, {q.table}>> \o <<{"WHERE"}>>) \o (<<{"soft"}>> \o <<Gap>>), Sql(q))
    BY <1>1, <1>2, <2>1, <2>2, <2>3, MatchesWord
  <2>5. (AnySelect \o <<WhereToken, {"soft"}>>) \o <<Gap>>
          = (AnySelect \o <<{"WHERE"}>>) \o (<<{"soft"}>> \o <<Gap>>)
    <3> DEFINE K == Kinds(q, {"star", "count"})
    <3>1. AnySelect \in Seq(K) /\ <<{"WHERE"}>> \in Seq(K) /\ <<Gap>> \in Seq(K)
      BY <1>1, <1>2, HeadFits DEF AnySelect
    <3>2. {"soft"} \in K
      BY <2>2 DEF Kinds, Vocabulary
    <3> HIDE DEF K
    <3>9. <<{"soft"}>> \in Seq(K)
      BY <3>2
    <3>3. PICK s \in Seq(K) : s = <<{"soft"}>>
      BY <3>9
    <3>4. PICK a \in Seq(K) : a = AnySelect
      BY <3>1
    <3>5. PICK v \in Seq(K) : v = <<{"WHERE"}>>
      BY <3>1
    <3>6. PICK g \in Seq(K) : g = <<Gap>>
      BY <3>1
    <3>7. v \o s = <<WhereToken, {"soft"}>>
      BY <3>3, <3>5, OneAndOne DEF WhereToken
    <3>8. (a \o (v \o s)) \o g = (a \o v) \o (s \o g)
      <4>1. a \o (v \o s) = (a \o v) \o s /\ a \o v \in Seq(K)
        BY ConcatAssociative, ConcatProperties
      <4>2. ((a \o v) \o s) \o g = (a \o v) \o (s \o g)
        BY <4>1, ConcatAssociative
      <4> QED
        BY <4>1, <4>2
    <3> QED
      BY <3>3, <3>4, <3>5, <3>6, <3>7, <3>8
  <2> QED
    BY <1>1, <1>4, <2>4, <2>5 DEF SimplePattern, AnySelect
<1>5. CASE w = "none" /\ ~HasSoftDelete
  <2>1. Matches(<<{"star", "count"}, {q.table}>> \o <<Gap>>, Sql(q))
    BY <1>1, <1>2, MatchesAll
  <2>2. AnySelect \o <<>> = AnySelect
    <3>1. AnySelect \in Seq(Kinds(q, {"star", "count"}))
      BY <1>1, <1>2, HeadFits DEF AnySelect
    <3> QED
      BY <3>1, ConcatEmptySeq
  <2> QED
    BY <1>1, <1>5, <2>1, <2>2 DEF SimplePattern, AnySelect
<1> QED
  BY <1>3, <1>4, <1>5

(* The author's own arguments, and as many of any value.                   *)
LEMMA ExactArgsAdmitted ==
  ASSUME NEW c \in Chains, NEW q \in AllQueries, q.clause = c.where, ~q.loaded,
         c.value \in {q.value, NotGiven}, c.value = NotGiven => ArgCount(c.where) = 0
  PROVE  ArgsAdmit(Exactly(ArgsOf(c)), Args(q))
<1>1. CASE c.value = NotGiven
  BY <1>1, UncheckedAdmitted DEF ArgsOf
<1>2. CASE c.value # NotGiven
  <2>1. ArgsOf(c) = Copies(q.value, ArgCount(q.clause))
    BY <1>2 DEF ArgsOf
  <2> QED
    BY <2>1, ArgsAre, SameArgsAdmitted
<1> QED
  BY <1>1, <1>2

(* As many arguments as the author gave, each of them any.                 *)
LEMMA LooseArgsAdmitted ==
  ASSUME NEW c \in Chains, NEW q \in AllQueries, q.clause = c.where, ~q.loaded
  PROVE  ArgsAdmit(Exactly(Copies(AnyArg, Len(ArgsOf(c)))), Args(q))
<1>1. Len(ArgsOf(c)) \in Nat /\ Len(ArgsOf(c)) = (IF c.value = NotGiven THEN 0 ELSE ArgCount(c.where))
  BY ChainFields
<1>2. Len(Args(q)) = ArgCount(q.clause) /\ DOMAIN Args(q) = 1 .. Len(Args(q))
  BY ArgsAre
<1>3. Len(ArgsOf(c)) = 0 \/ Len(ArgsOf(c)) = Len(Args(q))
  BY <1>1, <1>2
<1> QED
  BY <1>1, <1>2, <1>3, AnyArgsAdmitted

(* What is queued for a documented First with WithDeletedAt admits it.     *)
LEMMA SoftFirstUsed ==
  ASSUME NEW c \in Chains, NEW call, NEW known, NEW q \in AllQueries,
         SoftFirstUse(By(c, call, known), q), q.table = chain.table
  PROVE  /\ Matches(RowsPattern(c), Sql(q)) /\ Matches(ErrorPattern(c), Sql(q))
         /\ ArgsAdmit(RowsArgs(c), Args(q)) /\ ArgsAdmit(ErrorArgs(c), Args(q))
<1>1. /\ c.first /\ c.deleted /\ c.where \in Simple \cup {"null"} /\ q.clause = c.where
      /\ q.scoped /\ ~q.loaded /\ q.select = "star" /\ q.ending = "first"
      /\ c.value \in {q.value, NotGiven} /\ (c.value = NotGiven => ArgCount(c.where) = 0)
  BY ByFields DEF SoftFirstUse, ForFirst, SameValue
<1>2. c.where # "none" /\ ~Parenthesised(q)
  BY <1>1, SimpleClauses
<1>3. Matches(ExactSoftFirst(c.where), Sql(q))
  BY <1>1, <1>2, SoftFirstMatches
<1>4. RowsPattern(c) = ExactSoftFirst(c.where)
  BY <1>1, <1>2 DEF RowsPattern
<1>5. RowsArgs(c) = Exactly(ArgsOf(c)) /\ ErrorArgs(c) = Exactly(ArgsOf(c))
  BY <1>1, <1>2 DEF RowsArgs, ErrorArgs, IsExactFirst
<1>6. ArgsAdmit(Exactly(ArgsOf(c)), Args(q))
  BY <1>1, ExactArgsAdmitted
<1> QED
  BY <1>3, <1>4, <1>5, <1>6, PatternsAgree

(* What is queued for a documented First without soft delete admits it.    *)
LEMMA PlainFirstUsed ==
  ASSUME NEW c \in Chains, NEW call, NEW q \in AllQueries,
         PlainFirstUse(By(c, call, BuilderNameIsRegistered), q), q.table = chain.table
  PROVE  /\ Matches(RowsPattern(c), Sql(q)) /\ Matches(ErrorPattern(c), Sql(q))
         /\ ArgsAdmit(RowsArgs(c), Args(q)) /\ ArgsAdmit(ErrorArgs(c), Args(q))
<1>1. /\ BuilderNameIsRegistered /\ table \notin SoftTables /\ c.where \in Simple /\ ~c.deleted
      /\ c.withArgs = NotGiven /\ q.clause = c.where
      /\ ~q.loaded /\ q.select = "star" /\ q.ending = "first"
      /\ c.value \in {q.value, NotGiven} /\ (c.value = NotGiven => ArgCount(c.where) = 0)
  BY ByFields DEF PlainFirstUse, ForFirst, SameValue
<1>2. ~HasSoftDelete /\ ~q.scoped
  BY <1>1 DEF HasSoftDelete, AllQueries
<1>3. c.where # "none" /\ ~HasDeletedAtCondition(c.where)
      /\ ~(c.deleted /\ c.where # "none" /\ c.first)
      /\ c.where # "null" /\ c.where \in DOMAIN Text
  BY <1>1, PlainClauses DEF Simple
<1>4. CASE IsFirstLike(c)
  <2>1. RowsPattern(c) = ExactPlainFirst(c.where)
    BY <1>2, <1>3, <1>4 DEF RowsPattern
  <2>2. Matches(ExactPlainFirst(c.where), Sql(q))
    BY <1>1, <1>2, <1>3, PlainFirstMatches
  <2>3. RowsArgs(c) = Exactly(ArgsOf(c)) /\ ErrorArgs(c) = Exactly(ArgsOf(c))
    BY <1>1, <1>2, <1>3, <1>4 DEF RowsArgs, ErrorArgs, DefaultArgs, IsExactFirst
  <2>4. ArgsAdmit(Exactly(ArgsOf(c)), Args(q))
    BY <1>1, ExactArgsAdmitted
  <2> QED
    BY <2>1, <2>2, <2>3, <2>4, PatternsAgree
<1>5. CASE ~IsFirstLike(c)
  <2>1. RowsPattern(c) = SimplePattern(c.where)
    BY <1>3, <1>5 DEF RowsPattern
  <2>2. Matches(SimplePattern(c.where), Sql(q))
    BY <1>1, <1>3, SimplePatternMatches
  <2>3. RowsArgs(c) = Exactly(Copies(AnyArg, Len(ArgsOf(c)))) /\ ErrorArgs(c) = RowsArgs(c)
    BY <1>1, <1>2, <1>3, <1>5 DEF RowsArgs, ErrorArgs, DefaultArgs, IsExactFirst
  <2>4. ArgsAdmit(Exactly(Copies(AnyArg, Len(ArgsOf(c)))), Args(q))
    BY <1>1, LooseArgsAdmitted
  <2> QED
    BY <2>1, <2>2, <2>3, <2>4, PatternsAgree
<1> QED
  BY <1>4, <1>5

(* What is queued for a documented query for several rows admits it.       *)
LEMMA FindUsed ==
  ASSUME NEW c \in Chains, NEW call, NEW q \in AllQueries,
         FindUse(By(c, call, BuilderNameIsRegistered), q), q.table = chain.table
  PROVE  /\ Matches(RowsPattern(c), Sql(q)) /\ Matches(ErrorPattern(c), Sql(q))
         /\ ArgsAdmit(RowsArgs(c), Args(q)) /\ ArgsAdmit(ErrorArgs(c), Args(q))
<1>1. /\ c.where \in {"none", "age", "like"} /\ ~c.first
      /\ c.where = "none" => q.scoped \/ (BuilderNameIsRegistered /\ table \notin SoftTables)
      /\ c.withArgs = NotGiven
      /\ q.select = "star" /\ q.ending = "all" /\ q.clause = c.where
  BY ByFields DEF FindUse
<1>2. ~q.loaded /\ (c.where = "none" => (HasSoftDelete => q.scoped))
  BY <1>1 DEF AllQueries, HasSoftDelete
<1>3. ~HasDeletedAtCondition(c.where) /\ c.where \in DOMAIN Text /\ ~IsFirstLike(c)
      /\ ~(c.deleted /\ c.where # "none" /\ c.first)
  BY <1>1, PlainClauses, NotFirstLike
<1>4. RowsPattern(c) = SimplePattern(c.where)
  BY <1>1, <1>3 DEF RowsPattern
<1>5. Matches(SimplePattern(c.where), Sql(q))
  BY <1>1, <1>2, <1>3, SimplePatternMatches
<1>6. DefaultArgs(c) = Exactly(Copies(AnyArg, Len(ArgsOf(c))))
  BY <1>3 DEF DefaultArgs
<1>7. RowsArgs(c) = DefaultArgs(c) /\ ErrorArgs(c) = DefaultArgs(c)
  BY <1>1 DEF RowsArgs, ErrorArgs, IsExactFirst
<1>8. ArgsAdmit(Exactly(Copies(AnyArg, Len(ArgsOf(c)))), Args(q))
  BY <1>1, <1>2, LooseArgsAdmitted
<1> QED
  BY <1>4, <1>5, <1>6, <1>7, <1>8, PatternsAgree

(* What is queued for a documented use of WithArgs admits it.              *)
LEMMA WithArgsUsed ==
  ASSUME NEW c \in Chains, NEW call, NEW known, NEW q \in AllQueries,
         WithArgsUse(By(c, call, known), q), q.table = chain.table
  PROVE  Matches(RowsPattern(c), Sql(q)) /\ ArgsAdmit(RowsArgs(c), Args(q))
<1>1. /\ c.where \in {"username", "status", "age", "either", "like"} /\ ~c.first
      /\ c.value = NotGiven /\ c.withArgs = q.value
      /\ q.select = "star" /\ q.clause = c.where /\ ~q.loaded
  BY ByFields DEF WithArgsUse
<1>2. ~HasDeletedAtCondition(c.where) /\ c.where \in DOMAIN Text /\ ~IsFirstLike(c)
      /\ ~(c.deleted /\ c.where # "none" /\ c.first) /\ c.where # "none"
  BY <1>1, PlainClauses, NotFirstLike
<1>3. RowsPattern(c) = SimplePattern(c.where)
  BY <1>1, <1>2 DEF RowsPattern
<1>4. Matches(SimplePattern(c.where), Sql(q))
  BY <1>1, <1>2, SimplePatternMatches
<1>5. c.withArgs # NotGiven
  BY <1>1, QueriesAre, FindExpectationsAssumption
<1>6. RowsArgs(c) = Exactly(Copies(q.value, ArgCount(q.clause)))
  <2>1. ArgCount(c.where) # 0
    BY <1>1, BoundClauses
  <2> QED
    BY <1>1, <1>5, <2>1 DEF RowsArgs, IsExactFirst, GivenArgs
<1> QED
  BY <1>1, <1>3, <1>4, <1>6, ArgsAre, SameArgsAdmitted

(* What the handlers of one statement each queue admits that statement.    *)
LEMMA HandlerUsed ==
  ASSUME NEW c \in Chains, NEW call, NEW known, NEW q \in AllQueries,
         HandlerUse(By(c, call, known), q), c.where # "none",
         q.table = chain.table
  PROVE  /\ call = "HandleStandardFirstRows" =>
              Matches(ExactSoftFirst(c.where), Sql(q)) /\ ArgsAdmit(Exactly(ArgsOf(c)), Args(q))
         /\ call = "HandleDeletedAtRows" /\ c.where = "null" =>
              Matches(ExactSoftFirst("null"), Sql(q)) /\ ArgsAdmit(Unchecked, Args(q))
         /\ call = "HandleDeletedNotNullRows" =>
              Matches(ExactPlainFirst(c.where), Sql(q)) /\ ArgsAdmit(Exactly(ArgsOf(c)), Args(q))
<1>1. /\ q.clause = c.where /\ ~q.loaded /\ q.select = "star" /\ q.ending = "first"
      /\ c.value \in {q.value, NotGiven} /\ (c.value = NotGiven => ArgCount(c.where) = 0)
      /\ call = "HandleStandardFirstRows" => q.scoped /\ c.where \in Simple
      /\ call = "HandleDeletedAtRows" => q.scoped
      /\ call = "HandleDeletedNotNullRows" => ~q.scoped
  BY ByFields DEF HandlerUse, ForFirst, SameValue
<1>2. ArgsAdmit(Exactly(ArgsOf(c)), Args(q))
  BY <1>1, ExactArgsAdmitted
<1>3. c.where \in Simple \cup {"null"} /\ q.scoped => Matches(ExactSoftFirst(c.where), Sql(q))
  BY <1>1, SimpleClauses, SoftFirstMatches
<1>4. ~q.scoped => Matches(ExactPlainFirst(c.where), Sql(q))
  BY <1>1, PlainFirstMatches
<1> QED
  BY <1>1, <1>2, <1>3, <1>4, UncheckedAdmitted

(* What is queued for a documented count admits it.                        *)
LEMMA CountUsed ==
  ASSUME NEW c \in Chains, NEW call, NEW known, NEW q \in AllQueries,
         CountUse(By(c, call, known), q), q.table = c.table
  PROVE  Matches(CountPattern(c), Sql(q)) /\ ArgsAdmit(CountArgs(c), Args(q))
<1>1. /\ q.select = "count" /\ c.where \in {"none", q.clause}
      /\ c.withArgs = NotGiven \/ (c.withArgs = q.value /\ ArgCount(c.where) > 0)
  BY ByFields DEF CountUse
<1>2. WellFormed(q) /\ ~q.loaded
  BY <1>1, QueriesAre DEF AllQueries
<1> DEFINE start == SelectCount(c.table)
<1>3. start = <<{"count"}, {q.table}>> /\ q.select \in {"count"}
  BY <1>1 DEF SelectCount
<1> DEFINE K == Kinds(q, {"count"})
<1>4. start \in Seq(K) /\ <<{"WHERE"}>> \in Seq(K)
  BY <1>2, <1>3, HeadFits
<1> HIDE DEF K, start
<1>5. start \o <<>> = start /\ start \o <<{"WHERE"}>> \in Seq(K)
  BY <1>4, ConcatEmptySeq, ConcatProperties
<1>6. (start \o <<{"WHERE"}>>) \o <<>> = start \o <<{"WHERE"}>>
  BY <1>5, ConcatEmptySeq
<1>7. Matches(CountPattern(c), Sql(q))
  <2>1. CASE c.where = "none"
    <3>1. CountPattern(c) = ((start \o <<>>) \o <<>>) \o <<Gap>>
      BY <2>1 DEF CountPattern, start, WillGORMAddSoftDeleteClause
    <3>2. Matches(<<{"count"}, {q.table}>> \o <<Gap>>, Sql(q))
      BY <1>2, <1>3, MatchesAll
    <3> QED
      BY <1>3, <1>5, <3>1, <3>2
  <2>2. CASE c.where # "none"
    <3>1. Conditions(q) # <<>>
      BY <1>1, <1>2, <2>2, ConditionsNotEmpty
    <3>2. CountPattern(c) = ((start \o <<{"WHERE"}>>) \o <<>>) \o <<Gap>>
      BY <2>2 DEF CountPattern, start, WillGORMAddSoftDeleteClause, WhereToken
    <3>3. Matches((<<{"count"}, {q.table}>> \o <<{"WHERE"}>>) \o <<Gap>>, Sql(q))
      BY <1>2, <1>3, <3>1, MatchesAnyWhere
    <3> QED
      BY <1>3, <1>6, <3>2, <3>3
  <2> QED
    BY <2>1, <2>2
<1>8. ArgsAdmit(CountArgs(c), Args(q))
  <2>1. CASE c.withArgs # NotGiven
    <3>1. ArgCount(c.where) # 0 /\ c.withArgs = q.value
      BY <1>1, <2>1, ChainFields
    <3>2. c.where = q.clause
      BY <1>1, <3>1, NoneIsEmpty
    <3>3. CountArgs(c) = Exactly(Copies(q.value, ArgCount(q.clause)))
      BY <2>1, <3>1, <3>2 DEF CountArgs, GivenArgs
    <3> QED
      BY <1>2, <3>3, ArgsAre, SameArgsAdmitted
  <2>2. CASE c.withArgs = NotGiven
    <3>1. CountArgs(c) = Exactly(Copies(AnyArg, Len(ArgsOf(c))))
      BY <2>2 DEF CountArgs
    <3>2. CASE c.where = "none"
      <4>1. Len(ArgsOf(c)) = 0
        BY <3>2, ChainFields, NoneIsEmpty
      <4> QED
        BY <3>1, <4>1, ArgsAre, AnyArgsAdmitted
    <3>3. CASE c.where # "none"
      BY <1>1, <1>2, <3>1, <3>3, LooseArgsAdmitted
    <3> QED
      BY <3>2, <3>3
  <2> QED
    BY <2>1, <2>2
<1> QED
  BY <1>7, <1>8

(* ExpectCount(n): a pattern open after the table, and no arguments.       *)
LEMMA OpenCountUsed ==
  ASSUME NEW q \in AllQueries, q.select = "count"
  PROVE  Matches(SelectCount(q.table) \o <<Gap>>, Sql(q)) /\ ArgsAdmit(Unchecked, Args(q))
<1>1. WellFormed(q) /\ q.select \in {"count"}
  BY QueriesAre
<1> QED
  BY <1>1, MatchesAll, UncheckedAdmitted DEF SelectCount

(* A search for one condition.                                             *)
LEMMA OneCondition ==
  ASSUME NEW s \in Searches, Len(SearchConditions(s)) = 1
  PROVE  \E w \in {"name_like", "status"} : SearchConditions(s) = <<w>>
<1> DEFINE S == {"name_like", "title_like", "status"}
<1>1. s.fields \in {<<>>, <<"name_like">>, <<"name_like", "title_like">>} /\ s.filters \in {<<>>, <<"status">>}
  BY DEF Searches
<1>2. <<>> \in Seq(S) /\ <<"name_like">> \in Seq(S) /\ <<"name_like", "title_like">> \in Seq(S)
      /\ <<"status">> \in Seq(S)
  OBVIOUS
<1>3. Len(<<>>) = 0 /\ Len(<<"name_like">>) = 1 /\ Len(<<"name_like", "title_like">>) = 2
      /\ Len(<<"status">>) = 1
  OBVIOUS
<1> HIDE DEF S
<1>4. Len(s.fields) + Len(s.filters) = 1
  <2>1. PICK f \in Seq(S) : f = s.fields
    BY <1>1, <1>2
  <2>2. PICK g \in Seq(S) : g = s.filters
    BY <1>1, <1>2
  <2>3. Len(f \o g) = Len(f) + Len(g)
    BY ConcatProperties
  <2> QED
    BY <2>1, <2>2, <2>3 DEF SearchConditions
<1>5. CASE s.filters = <<>>
  <2>1. SearchConditions(s) = s.fields
    BY <1>1, <1>2, <1>5, ConcatEmptySeq DEF SearchConditions
  <2>2. s.fields = <<"name_like">>
    BY <1>1, <1>3, <1>4, <1>5
  <2> QED
    BY <2>1, <2>2
<1>6. CASE s.filters = <<"status">>
  <2>1. s.fields = <<>>
    BY <1>1, <1>3, <1>4, <1>6
  <2>2. SearchConditions(s) = s.filters
    BY <1>1, <1>2, <2>1, ConcatEmptySeq DEF SearchConditions
  <2> QED
    BY <1>6, <2>2
<1> QED
  BY <1>1, <1>5, <1>6

(* What is queued for a documented search admits its count and its rows.   *)
LEMMA SearchUsed ==
  ASSUME NEW c \in Chains, c.op = "search", NEW call, NEW known, NEW q \in AllQueries,
         SearchUse(By(c, call, known), q), q.table = c.table
  PROVE  /\ call = "SearchCount" => Matches(SearchCountPattern(c.search, c.table), Sql(q))
         /\ call = "SearchRows" =>
              /\ Matches(SearchRowsPattern(c.search, c.table), Sql(q))
              /\ ArgsAdmit(SearchArgs(c.search, Author), Args(q))
<1> DEFINE s == c.search
<1>1. /\ Text[q.clause] = SearchConditions(s) /\ Len(SearchConditions(s)) = 1
      /\ ~s.sorted /\ ~s.paged /\ q.value = c.value /\ ~q.loaded
      /\ q.select = (IF call = "SearchCount" THEN "count" ELSE "star")
  BY ByFields DEF SearchUse
<1>2. s \in Searches /\ c.value = Author
  BY ChainFields
<1>3. PICK w \in {"name_like", "status"} : SearchConditions(s) = <<w>>
  BY <1>1, <1>2, OneCondition
<1>4. q.clause \in {"like", "status"} /\ q.clause # "none" /\ WellFormed(q)
  <2>1. WellFormed(q) /\ q.clause \in DOMAIN Text
    BY QueriesAre DEF WellFormed
  <2>2. Text[q.clause] = Text[IF w = "name_like" THEN "like" ELSE "status"]
    BY <1>1, <1>3, TextIs
  <2>3. q.clause = IF w = "name_like" THEN "like" ELSE "status"
    BY <2>1, <2>2, TextIs, TextInjective
  <2> QED
    BY <2>1, <2>3
<1> HIDE DEF s
<1>5. ~Parenthesised(q)
  BY <1>1, <1>3, MentionsOne DEF Parenthesised
<1>6. w \in ConditionWords /\ <<w>> \in Seq(ConditionWords)
  <2>1. w \in ConditionWords
    BY <1>3 DEF ConditionWords
  <2> QED
    BY <2>1
<1>7. Conditions(q) # <<>> /\ \E rest \in Seq(ConditionWords) : Conditions(q) = <<w>> \o rest
  <2>1. Conditions(q) # <<>>
    BY <1>4, ConditionsNotEmpty
  <2>2. CASE q.scoped
    <3>1. Conditions(q) = Text[q.clause] \o <<"AND", "soft">>
      BY <1>1, <1>4, <1>5, <2>2, ConditionsScoped
    <3>2. Conditions(q) = <<w>> \o <<"AND", "soft">>
      BY <1>1, <1>3, <3>1
    <3>3. <<"AND", "soft">> \in Seq(ConditionWords)
      BY WordsType
    <3> QED
      BY <2>1, <3>2, <3>3
  <2>3. CASE ~q.scoped
    <3>1. Conditions(q) = <<w>>
      BY <1>1, <1>3, <1>4, <2>3, ConditionsUnscoped
    <3>2. <<w>> \o <<>> = <<w>>
      BY <1>6, ConcatEmptySeq
    <3>3. <<>> \in Seq(ConditionWords) /\ Conditions(q) = <<w>> \o <<>>
      BY <3>1, <3>2, WordsType
    <3> QED
      BY <2>1, <3>3
  <2> QED
    BY <2>1, <2>2, <2>3
<1>8. PICK rest \in Seq(ConditionWords) : Conditions(q) = <<w>> \o rest
  BY <1>7
<1>9. Unquoted(SearchConditions(s), FALSE) = <<{w}>>
  <2>1. Len(<<w>>) = 1 /\ <<w>>[1] = w /\ <<w>> # <<>>
    OBVIOUS
  <2> QED
    BY <1>3, <2>1 DEF Unquoted
<1>10. ASSUME NEW S, q.select \in S
       PROVE  Matches((<<S, {q.table}, {"WHERE"}>> \o <<{w}>>) \o <<Gap>>, Sql(q))
  <2>1. Matches((<<S, {q.table}>> \o <<{"WHERE"}>>) \o (<<{w}>> \o <<Gap>>), Sql(q))
    BY <1>4, <1>6, <1>7, <1>8, <1>10, MatchesWord
  <2> DEFINE K == Kinds(q, S)
  <2>2. <<S, {q.table}>> \in Seq(K) /\ <<{"WHERE"}>> \in Seq(K) /\ <<Gap>> \in Seq(K)
    BY <1>4, <1>10, HeadFits
  <2>3. {w} \in K
    BY <1>6 DEF Kinds, Vocabulary
  <2> HIDE DEF K
  <2>4. <<{w}>> \in Seq(K)
    BY <2>3
  <2>5. <<S, {q.table}>> \o <<{"WHERE"}>> = <<S, {q.table}, {"WHERE"}>>
    BY TwoAndOne
  <2>6. PICK a \in Seq(K) : a = <<S, {q.table}, {"WHERE"}>>
    BY <2>2, <2>5, ConcatProperties
  <2>7. PICK b \in Seq(K) : b = <<{w}>>
    BY <2>4
  <2>8. PICK g \in Seq(K) : g = <<Gap>>
    BY <2>2
  <2>9. (a \o b) \o g = a \o (b \o g)
    BY ConcatAssociative
  <2> QED
    BY <2>1, <2>5, <2>6, <2>7, <2>8, <2>9
<1>11. call = "SearchCount" => Matches(SearchCountPattern(s, q.table), Sql(q))
  BY <1>1, <1>4, <1>9, <1>10 DEF SearchCountPattern
<1>12. call = "SearchRows" => Matches(SearchRowsPattern(s, q.table), Sql(q))
  <2>1. SearchSuffix(s) = <<>>
    BY <1>1 DEF SearchSuffix
  <2>2. SearchRowsPattern(s, q.table)
          = ((<<{"star", "count"}, {q.table}, {"WHERE"}>> \o <<{w}>>) \o <<>>) \o <<Gap>>
    BY <1>1, <1>9, <2>1 DEF SearchRowsPattern
  <2>3. (<<{"star", "count"}, {q.table}, {"WHERE"}>> \o <<{w}>>) \o <<>>
          = <<{"star", "count"}, {q.table}, {"WHERE"}>> \o <<{w}>>
    <3> DEFINE K == {{"star", "count"}, {q.table}, {"WHERE"}, {w}}
    <3>1. <<{"star", "count"}, {q.table}, {"WHERE"}>> \in Seq(K) /\ <<{w}>> \in Seq(K)
      OBVIOUS
    <3> HIDE DEF K
    <3> QED
      BY <3>1, ConcatProperties, ConcatEmptySeq
  <2>4. call = "SearchRows" => q.select \in {"star", "count"}
    BY <1>1
  <2> QED
    BY <1>4, <1>10, <2>2, <2>3, <2>4
<1>13. ArgsAdmit(SearchArgs(s, Author), Args(q))
  <2>1. ArgCount(q.clause) = 1
    <3>1. {n \in DOMAIN Text[q.clause] : Text[q.clause][n] \notin Unbound} = {1}
      <4>1. DOMAIN <<w>> = {1} /\ <<w>>[1] = w
        OBVIOUS
      <4> QED
        BY <1>1, <1>3, <4>1 DEF Unbound
    <3> QED
      BY <3>1, FS_Singleton DEF ArgCount
  <2>2. SearchArgs(s, Author) = Exactly(Copies(q.value, ArgCount(q.clause)))
    BY <1>1, <1>2, <2>1 DEF SearchArgs
  <2> QED
    BY <1>1, <2>2, ArgsAre, SameArgsAdmitted
<1> QED
  BY <1>11, <1>12, <1>13 DEF s

------------------------------------------------------------------------------
(* What is true of an expectation from when it is queued: it admits every  *)
(* query it is documented to be for, and it admits no query that an exact  *)
(* pattern or the arguments its author gave exclude.                       *)
Handlers == {"HandleDeletedAtRows", "HandleStandardFirstRows", "HandleDeletedNotNullRows"}

ExactOnly(by, q) == IsExactFirst(by) \/ by.call \in Handlers => ForFirst(by, q)

ArgsGiven(by, q) ==
  (/\ by.call \in {"ReturnRows", "ReturnCount", "CountReturnError"}
   /\ ~IsExactFirst(by) /\ by.withArgs # NotGiven)
  => /\ q.value = by.withArgs
     /\ ArgCount(q.clause) + (IF q.loaded THEN 1 ELSE 0) = Len(GivenArgs(by))

Answers(pattern, args, q) == Matches(pattern, Sql(q)) /\ ArgsAdmit(args, Args(q))
Serves(by, pattern, args) ==
  \A q \in AllQueries : Documented(by, q) => Answers(pattern, args, q)
Keeps(by, pattern, args) ==
  \A q \in AllQueries : Answers(pattern, args, q) => ExactOnly(by, q) /\ ArgsGiven(by, q)

Good(e) ==
  /\ e.outcome \in {"ok", "error"}
  /\ Serves(e.by, e.pattern, e.args)
  /\ Keeps(e.by, e.pattern, e.args)

(* The table of the test stays: what is good remains good.                 *)
LEMMA StaysGood ==
  ASSUME NEW e, Good(e), table' = table
  PROVE  Good(e)'
<1>1. AllQueries' = AllQueries
  BY DEF AllQueries
<1>2. ASSUME NEW q PROVE Documented(e.by, q)' <=> Documented(e.by, q)
  BY DEF Documented, PlainFirstUse, FindUse
<1>3. ASSUME NEW q, (q \in AllQueries)' PROVE q \in AllQueries
  BY <1>1, <1>3
<1>4. Serves(e.by, e.pattern, e.args)'
  BY <1>1, <1>2 DEF Good, Serves
<1>5. Keeps(e.by, e.pattern, e.args)'
  BY <1>1 DEF Good, Keeps
<1> QED
  BY <1>4, <1>5 DEF Good

(* An expectation is good when its pattern and arguments are.              *)
LEMMA GoodWhenQueued ==
  ASSUME NEW by, NEW pattern, NEW args, NEW outcome \in {"ok", "error"}, NEW call,
         NEW made, made = By(by, call, BuilderNameIsRegistered),
         Serves(made, pattern, args), Keeps(made, pattern, args)
  PROVE  Good(Expectation(pattern, args, outcome, by, call))
<1> DEFINE e == Expectation(pattern, args, outcome, by, call)
<1>1. e.outcome = outcome /\ e.pattern = pattern /\ e.args = args /\ e.by = made
  BY DEF Expectation, By
<1> HIDE DEF e
<1>2. Good(e)
  BY <1>1 DEF Good
<1> QED
  BY <1>2 DEF e

(* Which use a chain can be an example of is decided by its last call.     *)
LEMMA UsesByCall ==
  ASSUME NEW by, NEW q, Documented(by, q)
  PROVE  /\ by.table = q.table
         /\ by.call \in {"ReturnRows", "ReturnError", "ReturnCount", "ExpectCount",
                         "SearchCount", "SearchRows"} \cup Handlers
         /\ by.call = "ReturnRows" =>
              SoftFirstUse(by, q) \/ PlainFirstUse(by, q) \/ FindUse(by, q) \/ WithArgsUse(by, q)
         /\ by.call = "ReturnError" =>
              SoftFirstUse(by, q) \/ PlainFirstUse(by, q) \/ FindUse(by, q)
         /\ by.call \in {"ReturnCount", "ExpectCount"} => CountUse(by, q)
         /\ by.call \in {"SearchCount", "SearchRows"} => SearchUse(by, q)
         /\ by.call \in Handlers => HandlerUse(by, q)
<1>1. HandlerUse(by, q) => by.call \in Handlers
  BY DEF HandlerUse, Handlers
<1>2. SoftFirstUse(by, q) \/ PlainFirstUse(by, q) \/ FindUse(by, q)
        => by.call \in {"ReturnRows", "ReturnError"}
  BY DEF SoftFirstUse, PlainFirstUse, FindUse, Returns
<1>3. WithArgsUse(by, q) => by.call = "ReturnRows"
  BY DEF WithArgsUse
<1>4. CountUse(by, q) => by.call \in {"ReturnCount", "ExpectCount"}
  BY DEF CountUse
<1>5. SearchUse(by, q) => by.call \in {"SearchCount", "SearchRows"}
  BY DEF SearchUse
<1> QED
  BY <1>1, <1>2, <1>3, <1>4, <1>5 DEF Documented, Handlers

(* The arguments the author gave are those of every query admitted.        *)
LEMMA GivenArgsCompared ==
  ASSUME NEW c \in Chains, NEW q \in AllQueries, c.withArgs # NotGiven,
         ArgsAdmit(Exactly(GivenArgs(c)), Args(q))
  PROVE  /\ q.value = c.withArgs
         /\ ArgCount(q.clause) + (IF q.loaded THEN 1 ELSE 0) = Len(GivenArgs(c))
<1>1. c.withArgs \in Values /\ ArgCount(c.where) \in Nat
  BY ChainFields
<1>2. PICK n \in Nat : n # 0 /\ GivenArgs(c) = Copies(c.withArgs, n)
  BY <1>1 DEF GivenArgs
<1>3. /\ Len(GivenArgs(c)) = n /\ GivenArgs(c) # <<>>
      /\ \A i \in 1 .. n : GivenArgs(c)[i] = c.withArgs
  <2>1. /\ Len(Copies(c.withArgs, n)) = n /\ (Copies(c.withArgs, n) = <<>> <=> n = 0)
        /\ \A i \in 1 .. n : Copies(c.withArgs, n)[i] = c.withArgs
    BY CopiesType
  <2> QED
    BY <1>2, <2>1
<1>4. /\ Len(GivenArgs(c)) = Len(Args(q))
      /\ \A i \in DOMAIN Args(q) : GivenArgs(c)[i] \in {AnyArg, Args(q)[i]}
  BY <1>3 DEF ArgsAdmit, Exactly
<1>5. /\ Len(Args(q)) = ArgCount(q.clause) + (IF q.loaded THEN 1 ELSE 0)
      /\ DOMAIN Args(q) = 1 .. Len(Args(q))
      /\ Len(Args(q)) > 0 => Args(q)[1] \in {q.value, KeyArg}
  BY ArgsAre
<1>6. 1 \in 1 .. n /\ Len(Args(q)) > 0 /\ 1 \in DOMAIN Args(q)
  BY <1>2, <1>3, <1>4, <1>5
<1>7. c.withArgs \in {AnyArg, Args(q)[1]} /\ Args(q)[1] \in {q.value, KeyArg}
  BY <1>3, <1>4, <1>5, <1>6
<1>8. AnyArg \notin Values /\ KeyArg \notin Values
  BY FindExpectationsAssumption
<1> QED
  BY <1>1, <1>3, <1>4, <1>5, <1>7, <1>8

(* The exact pattern answers only its First.                               *)
LEMMA SoftFirstKeeps ==
  ASSUME NEW c \in Chains, NEW call, NEW known, NEW q \in AllQueries, c.where # "none",
         Matches(ExactSoftFirst(c.where), Sql(q))
  PROVE  ForFirst(By(c, call, known), q)
  BY SoftFirstMatched, ByFields, ChainFields DEF ForFirst

(* ReturnRows queues a good expectation, whatever was called before.       *)
LEMMA RowsQueued ==
  ASSUME NEW c \in Chains, c.table = chain.table
  PROVE  Good(Expectation(RowsPattern(c), RowsArgs(c), "ok", c, "ReturnRows"))
<1> DEFINE by == By(c, "ReturnRows", BuilderNameIsRegistered)
<1>1. ASSUME NEW q \in AllQueries, Documented(by, q)
      PROVE  Answers(RowsPattern(c), RowsArgs(c), q)
  <2>1. SoftFirstUse(by, q) \/ PlainFirstUse(by, q) \/ FindUse(by, q) \/ WithArgsUse(by, q)
    <3>1. by.call = "ReturnRows"
      BY ByFields
    <3> QED
      BY <1>1, <3>1, UsesByCall
  <2>2. q.table = chain.table
    BY <1>1, UsesByCall, ByFields
  <2> QED
    BY <2>1, <2>2, SoftFirstUsed, PlainFirstUsed, FindUsed, WithArgsUsed DEF Answers
<1>2. ASSUME NEW q \in AllQueries, Answers(RowsPattern(c), RowsArgs(c), q)
      PROVE  ExactOnly(by, q) /\ ArgsGiven(by, q)
  <2>1. ExactOnly(by, q)
    <3>1. by.call \notin Handlers
      BY ByFields DEF Handlers
    <3>2. ASSUME IsExactFirst(c) PROVE ForFirst(by, q)
      <4>1. RowsPattern(c) = ExactSoftFirst(c.where) /\ c.where # "none"
        BY <3>2 DEF IsExactFirst, RowsPattern
      <4> QED
        BY <1>2, <4>1, SoftFirstKeeps DEF Answers
    <3> QED
      BY <3>1, <3>2, ByFields DEF ExactOnly
  <2>2. ArgsGiven(by, q)
    <3>1. ASSUME ~IsExactFirst(c), c.withArgs # NotGiven
          PROVE  /\ q.value = c.withArgs
                 /\ ArgCount(q.clause) + (IF q.loaded THEN 1 ELSE 0) = Len(GivenArgs(c))
      <4>1. RowsArgs(c) = Exactly(GivenArgs(c))
        BY <3>1 DEF RowsArgs
      <4> QED
        BY <1>2, <3>1, <4>1, GivenArgsCompared DEF Answers
    <3>2. by.where = c.where /\ by.withArgs = c.withArgs
          /\ GivenArgs(by) = GivenArgs(c) /\ (IsExactFirst(by) <=> IsExactFirst(c))
      BY ByFields
    <3> HIDE DEF by
    <3> QED
      BY <3>1, <3>2 DEF ArgsGiven
  <2> QED
    BY <2>1, <2>2
<1>3. Serves(by, RowsPattern(c), RowsArgs(c)) /\ Keeps(by, RowsPattern(c), RowsArgs(c))
  BY <1>1, <1>2 DEF Serves, Keeps
<1> QED
  BY <1>3, GoodWhenQueued

(* So does ReturnError.                                                    *)
LEMMA ErrorQueued ==
  ASSUME NEW c \in Chains, c.table = chain.table
  PROVE  Good(Expectation(ErrorPattern(c), ErrorArgs(c), "error", c, "ReturnError"))
<1> DEFINE by == By(c, "ReturnError", BuilderNameIsRegistered)
<1>1. ASSUME NEW q \in AllQueries, Documented(by, q)
      PROVE  Answers(ErrorPattern(c), ErrorArgs(c), q)
  <2>1. SoftFirstUse(by, q) \/ PlainFirstUse(by, q) \/ FindUse(by, q)
    <3>1. by.call = "ReturnError"
      BY ByFields
    <3> QED
      BY <1>1, <3>1, UsesByCall
  <2>2. q.table = chain.table
    BY <1>1, UsesByCall, ByFields
  <2> QED
    BY <2>1, <2>2, SoftFirstUsed, PlainFirstUsed, FindUsed DEF Answers
<1>2. ASSUME NEW q \in AllQueries, Answers(ErrorPattern(c), ErrorArgs(c), q)
      PROVE  ExactOnly(by, q) /\ ArgsGiven(by, q)
  <2>1. by.call = "ReturnError" /\ (IsExactFirst(by) <=> IsExactFirst(c))
    BY ByFields
  <2>2. ASSUME IsExactFirst(c) PROVE ForFirst(by, q)
    <3>1. ErrorPattern(c) = ExactSoftFirst(c.where) /\ c.where # "none"
      BY <2>2 DEF IsExactFirst, ErrorPattern
    <3> QED
      BY <1>2, <3>1, SoftFirstKeeps DEF Answers
  <2> HIDE DEF by
  <2> QED
    BY <2>1, <2>2 DEF ExactOnly, ArgsGiven, Handlers
<1>3. Serves(by, ErrorPattern(c), ErrorArgs(c)) /\ Keeps(by, ErrorPattern(c), ErrorArgs(c))
  BY <1>1, <1>2 DEF Serves, Keeps
<1> QED
  BY <1>3, GoodWhenQueued

(* The clauses HandleDeletedNotNullRows takes for its own.                 *)
LEMMA NotNullClauses ==
  ASSUME NEW w \in DOMAIN Text, Mentions(w, {"deleted_notnull"})
  PROVE  w \in {"notNull", "userNotNull"}
<1>1. ASSUME NEW a, Text[w] = <<a>> PROVE a = "deleted_notnull"
  BY <1>1, MentionsOne
<1>2. ASSUME NEW T, ToSet(Text[w]) \subseteq T PROVE "deleted_notnull" \in T
  BY <1>2 DEF Mentions
<1>3. ASSUME NEW a, NEW b, NEW d PROVE ToSet(<<a, b, d>>) \subseteq {a, b, d}
  <2>1. DOMAIN <<a, b, d>> = {1, 2, 3} /\ <<a, b, d>>[1] = a /\ <<a, b, d>>[2] = b /\ <<a, b, d>>[3] = d
    OBVIOUS
  <2> QED
    BY <2>1 DEF ToSet
<1>4. ToSet(<<"LIMIT_?", "OFFSET_?">>) \subseteq {"LIMIT_?", "OFFSET_?"}
  <2>1. DOMAIN <<"LIMIT_?", "OFFSET_?">> = {1, 2} /\ <<"LIMIT_?", "OFFSET_?">>[1] = "LIMIT_?"
        /\ <<"LIMIT_?", "OFFSET_?">>[2] = "OFFSET_?"
    OBVIOUS
  <2> QED
    BY <2>1 DEF ToSet
<1>5. ToSet(Text["likes"]) \subseteq {"(", "name_like", "OR", "title_like", ")"}
  <2>1. PICK s : s = <<"(", "name_like", "OR", "title_like", ")">>
    OBVIOUS
  <2>2. DOMAIN s = {1, 2, 3, 4, 5} /\ s[1] = "(" /\ s[2] = "name_like" /\ s[3] = "OR"
        /\ s[4] = "title_like" /\ s[5] = ")"
    BY <2>1
  <2>3. ToSet(s) \subseteq {"(", "name_like", "OR", "title_like", ")"}
    BY <2>2 DEF ToSet
  <2> QED
    BY <2>1, <2>3, TextIs
<1>6. CASE w \in {"pk", "id", "username", "status", "age", "null", "like", "limit", "offset", "order"}
  <2>1. \E a \in ConditionWords \ {"deleted_notnull"} : Text[w] = <<a>>
    BY <1>6, TextIs DEF ConditionWords
  <2> QED
    BY <1>1, <2>1
<1>7. CASE w \in {"either", "userNull", "nullUser", "softUser"}
  <2>1. \/ Text[w] = <<"username", "OR", "email">>
        \/ Text[w] = <<"username", "AND", "deleted_null">>
        \/ Text[w] = <<"deleted_null", "AND", "username">>
        \/ Text[w] = <<"soft", "AND", "username">>
    BY <1>7, TextIs
  <2>2. ASSUME NEW a, NEW b, NEW d, Text[w] = <<a, b, d>> PROVE "deleted_notnull" \in {a, b, d}
    BY <1>2, <1>3, <2>2
  <2> QED
    BY <2>1, <2>2
<1>8. w # "none" /\ w # "limitOffset" /\ w # "likes"
  BY <1>2, <1>4, <1>5, MentionsNone, TextIs
<1> QED
  BY <1>6, <1>7, <1>8, TextIs

(* So do the handlers of one statement each.                               *)
LEMMA HandlerQueued ==
  ASSUME NEW c \in Chains, NEW call \in Handlers, NEW pattern, NEW args,
         c.where # "none", c.table = chain.table,
         \/ /\ call = "HandleStandardFirstRows"
            /\ pattern = ExactSoftFirst(c.where) /\ args = Exactly(ArgsOf(c))
         \/ /\ call = "HandleDeletedAtRows" /\ c.where = "null"
            /\ pattern = ExactSoftFirst("null") /\ args = Unchecked
         \/ /\ call = "HandleDeletedNotNullRows" /\ c.where \in {"notNull", "userNotNull"}
            /\ pattern = ExactPlainFirst(c.where) /\ args = Exactly(ArgsOf(c))
  PROVE  Good(Expectation(pattern, args, "ok", c, call))
<1> DEFINE by == By(c, call, BuilderNameIsRegistered)
<1>1. by.call = call /\ by.where = c.where
  BY ByFields
<1>2. ASSUME NEW q \in AllQueries, Documented(by, q) PROVE Answers(pattern, args, q)
  <2>1. HandlerUse(by, q) /\ q.table = chain.table
    BY <1>1, <1>2, UsesByCall, ByFields
  <2> QED
    BY <2>1, HandlerUsed DEF Answers
<1>3. ASSUME NEW q \in AllQueries, Answers(pattern, args, q) PROVE ExactOnly(by, q) /\ ArgsGiven(by, q)
  <2>1. c.where \in DOMAIN Text
    BY ChainFields
  <2>2. ForFirst(by, q)
    <3>1. CASE call # "HandleDeletedNotNullRows"
      <4>1. pattern = ExactSoftFirst(c.where)
        BY <3>1
      <4> QED
        BY <1>3, <4>1, SoftFirstKeeps DEF Answers
    <3>2. CASE call = "HandleDeletedNotNullRows"
      BY <1>1, <1>3, <3>2, PlainFirstMatched DEF Answers, ForFirst
    <3> QED
      BY <3>1, <3>2
  <2> HIDE DEF by
  <2> QED
    BY <1>1, <2>2 DEF ExactOnly, ArgsGiven, Handlers
<1>4. Serves(by, pattern, args) /\ Keeps(by, pattern, args)
  BY <1>2, <1>3 DEF Serves, Keeps
<1> QED
  BY <1>4, GoodWhenQueued

(* So do the two ends of a count.                                          *)
LEMMA CountQueued ==
  ASSUME NEW c \in Chains, c.op = "count"
  PROVE  /\ Good(Expectation(CountPattern(c), CountArgs(c), "ok", c, "ReturnCount"))
         /\ Good(Expectation(CountErrorPattern(c), CountArgs(c), "error", c, "CountReturnError"))
<1>1. ~c.first
  BY ChainFields
<1>2. ASSUME NEW call \in {"ReturnCount", "CountReturnError"}, NEW q \in AllQueries,
             ArgsAdmit(CountArgs(c), Args(q))
      PROVE  ExactOnly(By(c, call, BuilderNameIsRegistered), q)
             /\ ArgsGiven(By(c, call, BuilderNameIsRegistered), q)
  <2> DEFINE by == By(c, call, BuilderNameIsRegistered)
  <2>1. by.call = call /\ by.where = c.where /\ by.withArgs = c.withArgs /\ by.first = c.first
        /\ GivenArgs(by) = GivenArgs(c)
    BY ByFields
  <2>2. ASSUME c.withArgs # NotGiven
        PROVE  /\ q.value = c.withArgs
               /\ ArgCount(q.clause) + (IF q.loaded THEN 1 ELSE 0) = Len(GivenArgs(c))
    <3>1. CountArgs(c) = Exactly(GivenArgs(c))
      BY <2>2 DEF CountArgs
    <3> QED
      BY <1>2, <2>2, <3>1, GivenArgsCompared
  <2> HIDE DEF by
  <2>3. ExactOnly(by, q)
    BY <1>1, <2>1 DEF ExactOnly, IsExactFirst, Handlers
  <2>4. ArgsGiven(by, q)
    BY <2>1, <2>2 DEF ArgsGiven
  <2> QED
    BY <2>3, <2>4 DEF by
<1>3. Serves(By(c, "ReturnCount", BuilderNameIsRegistered), CountPattern(c), CountArgs(c))
  <2> DEFINE by == By(c, "ReturnCount", BuilderNameIsRegistered)
  <2> SUFFICES ASSUME NEW q \in AllQueries, Documented(by, q)
               PROVE  Answers(CountPattern(c), CountArgs(c), q)
    BY DEF Serves
  <2>1. CountUse(by, q) /\ q.table = c.table
    BY UsesByCall, ByFields
  <2> QED
    BY <2>1, CountUsed DEF Answers
<1>4. Keeps(By(c, "ReturnCount", BuilderNameIsRegistered), CountPattern(c), CountArgs(c))
  BY <1>2 DEF Keeps, Answers
<1>5. Keeps(By(c, "CountReturnError", BuilderNameIsRegistered), CountErrorPattern(c), CountArgs(c))
  BY <1>2 DEF Keeps, Answers
<1>6. Serves(By(c, "CountReturnError", BuilderNameIsRegistered), CountErrorPattern(c), CountArgs(c))
  <2>1. By(c, "CountReturnError", BuilderNameIsRegistered).call = "CountReturnError"
    BY ByFields
  <2> QED
    BY <2>1, UsesByCall DEF Serves, Handlers
<1>7. Good(Expectation(CountPattern(c), CountArgs(c), "ok", c, "ReturnCount"))
  BY <1>3, <1>4, GoodWhenQueued
<1>8. Good(Expectation(CountErrorPattern(c), CountArgs(c), "error", c, "CountReturnError"))
  BY <1>5, <1>6, GoodWhenQueued
<1> QED
  BY <1>7, <1>8

(* Nothing is exact in an expectation queued without a First, by a call    *)
(* that takes no WithArgs.                                                 *)
LEMMA LooseKeeps ==
  ASSUME NEW by, ~by.first, by.call \notin Handlers,
         by.call \notin {"ReturnRows", "ReturnCount", "CountReturnError"},
         NEW pattern, NEW args
  PROVE  Keeps(by, pattern, args)
  BY DEF Keeps, ExactOnly, ArgsGiven, IsExactFirst

(* The builders are chains, whatever table they are for.                   *)
LEMMA BuildersAreChains ==
  /\ NoChain \in Chains
  /\ \A name \in Names :
       /\ Builder("find", name) \in Chains /\ Builder("count", name) \in Chains
       /\ \A s \in Searches :
            [Builder("search", name) EXCEPT !.value = Author, !.search = s] \in Chains
  /\ Author \in Values
  /\ table \in Tables => NewExpectationsBuilder \in Names
<1>1. Author \in Values
  BY FindExpectationsAssumption DEF Author
<1>2. NoSearch \in Searches
  BY DEF NoSearch, Searches
<1>3. "none" \in DOMAIN Text /\ "none" \in Names
  BY TextIs DEF Names
<1>4. table \in Tables => NewExpectationsBuilder \in Names
  BY DEF NewExpectationsBuilder, Names
<1> QED
  BY <1>1, <1>2, <1>3, <1>4 DEF Chains, Builder, NoChain

(* ExpectCount(n) queues a good expectation at once.                       *)
LEMMA ExpectCountQueued ==
  ASSUME NEW name \in Names
  PROVE  Good(Expectation(SelectCount(name) \o <<Gap>>, Unchecked, "ok", Builder("count", name),
                          "ExpectCount"))
<1> DEFINE c == Builder("count", name)
           pattern == SelectCount(name) \o <<Gap>>
           by == By(c, "ExpectCount", BuilderNameIsRegistered)
<1>1. c \in Chains /\ ~c.first /\ c.table = name
  BY BuildersAreChains DEF Builder
<1>2. by.call = "ExpectCount" /\ ~by.first /\ by.table = name
  <2> HIDE DEF c
  <2> QED
    BY <1>1, ByFields
<1>3. Keeps(by, pattern, Unchecked)
  <2> HIDE DEF by
  <2> QED
    BY <1>2, LooseKeeps DEF Handlers
<1>4. Serves(by, pattern, Unchecked)
  <2> SUFFICES ASSUME NEW q \in AllQueries, Documented(by, q)
               PROVE  Answers(pattern, Unchecked, q)
    BY DEF Serves
  <2>1. q.select = "count" /\ q.table = name
    <3> HIDE DEF by
    <3> QED
      BY <1>2, UsesByCall DEF CountUse
  <2> QED
    BY <2>1, OpenCountUsed DEF Answers
<1> QED
  BY <1>3, <1>4, GoodWhenQueued

(* The ends of a search queue good expectations.                           *)
LEMMA SearchQueued ==
  ASSUME NEW c \in Chains, c.op = "search"
  PROVE  /\ Good(Expectation(SearchCountPattern(c.search, c.table), Unchecked, "ok", c, "SearchCount"))
         /\ Good(Expectation(SearchRowsPattern(c.search, c.table), SearchArgs(c.search, Author), "ok",
                             c, "SearchRows"))
         /\ Good(Expectation(SearchCountPattern(c.search, c.table), SearchArgs(c.search, Author), "error",
                             c, "SearchError"))
<1>1. ~c.first
  BY ChainFields
<1>2. ASSUME NEW call \in {"SearchCount", "SearchRows", "SearchError"}, NEW pattern, NEW args
      PROVE  Keeps(By(c, call, BuilderNameIsRegistered), pattern, args)
  <2>1. By(c, call, BuilderNameIsRegistered).call = call
        /\ ~By(c, call, BuilderNameIsRegistered).first
    BY <1>1, ByFields
  <2> QED
    BY <1>2, <2>1, LooseKeeps DEF Handlers
<1>3. Serves(By(c, "SearchCount", BuilderNameIsRegistered), SearchCountPattern(c.search, c.table), Unchecked)
  <2> DEFINE by == By(c, "SearchCount", BuilderNameIsRegistered)
  <2> SUFFICES ASSUME NEW q \in AllQueries, Documented(by, q)
               PROVE  Answers(SearchCountPattern(c.search, c.table), Unchecked, q)
    BY DEF Serves
  <2>1. SearchUse(by, q) /\ q.table = c.table
    BY UsesByCall, ByFields
  <2> QED
    BY <2>1, SearchUsed, UncheckedAdmitted DEF Answers
<1>4. Serves(By(c, "SearchRows", BuilderNameIsRegistered), SearchRowsPattern(c.search, c.table),
             SearchArgs(c.search, Author))
  <2> DEFINE by == By(c, "SearchRows", BuilderNameIsRegistered)
  <2> SUFFICES ASSUME NEW q \in AllQueries, Documented(by, q)
               PROVE  Answers(SearchRowsPattern(c.search, c.table), SearchArgs(c.search, Author), q)
    BY DEF Serves
  <2>1. SearchUse(by, q) /\ q.table = c.table
    BY UsesByCall, ByFields
  <2> QED
    BY <2>1, SearchUsed DEF Answers
<1>5. Serves(By(c, "SearchError", BuilderNameIsRegistered), SearchCountPattern(c.search, c.table),
             SearchArgs(c.search, Author))
  <2>1. By(c, "SearchError", BuilderNameIsRegistered).call = "SearchError"
    BY ByFields
  <2> QED
    BY <2>1, UsesByCall DEF Serves, Handlers
<1>6. Good(Expectation(SearchCountPattern(c.search, c.table), Unchecked, "ok", c, "SearchCount"))
  BY <1>2, <1>3, GoodWhenQueued
<1>7. Good(Expectation(SearchRowsPattern(c.search, c.table), SearchArgs(c.search, Author), "ok",
                       c, "SearchRows"))
  BY <1>2, <1>4, GoodWhenQueued
<1>8. Good(Expectation(SearchCountPattern(c.search, c.table), SearchArgs(c.search, Author), "error",
                       c, "SearchError"))
  BY <1>2, <1>5, GoodWhenQueued
<1> QED
  BY <1>6, <1>7, <1>8

(* What the helper queues is documented for no query of its own.           *)
LEMMA HelperQueued ==
  ASSUME NEW call \in {"HelperCount", "HelperRows", "HelperError"}, NEW pattern, NEW args,
         NEW outcome \in {"ok", "error"}, NEW name
  PROVE  Good(Expectation(pattern, args, outcome, Builder("search", name), call))
<1> DEFINE by == By(Builder("search", name), call, BuilderNameIsRegistered)
<1>1. by.call = call /\ ~by.first
  BY DEF By, Builder
<1>2. Keeps(by, pattern, args)
  <2> HIDE DEF by
  <2> QED
    BY <1>1, LooseKeeps DEF Handlers
<1>3. Serves(by, pattern, args)
  <2> HIDE DEF by
  <2> QED
    BY <1>1, UsesByCall DEF Serves, Handlers
<1> QED
  BY <1>2, <1>3, GoodWhenQueued

------------------------------------------------------------------------------
(* The queue of expectations.                                              *)
AllGood(s) == s \in Seq(ToSet(s)) /\ \A n \in DOMAIN s : Good(s[n])

(* A sequence of good elements.                                            *)
LEMMA GoodSequence ==
  ASSUME NEW S, \A e \in S : Good(e), NEW s \in Seq(S)
  PROVE  AllGood(s)
<1>1. DOMAIN s = 1 .. Len(s) /\ Len(s) \in Nat /\ \A n \in DOMAIN s : s[n] \in S
  BY LenProperties
<1>2. \A n \in 1 .. Len(s) : s[n] \in ToSet(s)
  BY <1>1 DEF ToSet
<1>3. s \in [1 .. Len(s) -> ToSet(s)]
  BY <1>2, LenProperties
<1>4. s \in Seq(ToSet(s))
  BY <1>1, <1>3
<1> QED
  BY <1>1, <1>4 DEF AllGood

(* Its elements.                                                           *)
LEMMA GoodElements ==
  ASSUME NEW s, AllGood(s)
  PROVE  s \in Seq(ToSet(s)) /\ \A e \in ToSet(s) : Good(e)
  BY DEF AllGood, ToSet

(* Good queues stay good one behind the other,                             *)
LEMMA GoodConcat ==
  ASSUME NEW s, NEW t, AllGood(s), AllGood(t)
  PROVE  AllGood(s \o t)
<1> DEFINE S == ToSet(s) \cup ToSet(t)
<1>1. s \in Seq(S) /\ t \in Seq(S) /\ \A e \in S : Good(e)
  BY GoodElements, SeqMonotonic
<1> HIDE DEF S
<1>2. s \o t \in Seq(S)
  BY <1>1, ConcatProperties
<1> QED
  BY <1>1, <1>2, GoodSequence

(* alone,                                                                  *)
LEMMA GoodOne ==
  ASSUME NEW e, Good(e)
  PROVE  AllGood(<<e>>)
<1>1. <<e>> \in Seq({e})
  OBVIOUS
<1> QED
  BY <1>1, GoodSequence

(* with one more,                                                          *)
LEMMA GoodAppend ==
  ASSUME NEW s, AllGood(s), NEW e, Good(e)
  PROVE  AllGood(Append(s, e))
<1> DEFINE S == ToSet(s) \cup {e}
<1>1. s \in Seq(S) /\ e \in S /\ \A x \in S : Good(x)
  BY GoodElements, SeqMonotonic
<1> HIDE DEF S
<1>2. Append(s, e) \in Seq(S)
  BY <1>1, AppendProperties
<1> QED
  BY <1>1, <1>2, GoodSequence

(* with two more,                                                          *)
LEMMA GoodTwo ==
  ASSUME NEW s, AllGood(s), NEW e, Good(e), NEW f, Good(f)
  PROVE  AllGood(s \o <<e, f>>)
<1>1. <<e, f>> \in Seq({e, f})
  OBVIOUS
<1>2. AllGood(<<e, f>>)
  BY <1>1, GoodSequence
<1> QED
  BY <1>2, GoodConcat

(* and with one removed.                                                   *)
LEMMA GoodRemove ==
  ASSUME NEW s, AllGood(s), NEW n \in 1 .. Len(s)
  PROVE  AllGood(RemoveAt(s, n))
<1> DEFINE S == ToSet(s)
<1>1. s \in Seq(S) /\ \A x \in S : Good(x)
  BY GoodElements
<1>2. \A i \in 1 .. Len(s) : s[i] \in S
  BY <1>1, ElementOfSeq
<1> HIDE DEF S
<1>3. Len(s) \in Nat
  BY <1>1, LenProperties
<1>4. SubSeq(s, 1, n - 1) \in Seq(S)
  <2>1. \A i \in 1 .. n - 1 : s[i] \in S
    BY <1>2, <1>3
  <2> QED
    BY <1>3, <2>1, SubSeqProperties
<1>5. SubSeq(s, n + 1, Len(s)) \in Seq(S)
  <2>1. \A i \in n + 1 .. Len(s) : s[i] \in S
    BY <1>2, <1>3
  <2> QED
    BY <1>3, <2>1, SubSeqProperties
<1>6. RemoveAt(s, n) \in Seq(S)
  BY <1>4, <1>5, ConcatProperties DEF RemoveAt
<1> QED
  BY <1>1, <1>6, GoodSequence

------------------------------------------------------------------------------
(* The inductive invariant.                                                *)
AnswerKept ==
  \/ answer = NoAnswer
  \/ /\ chain = NoChain
     /\ answer.outcome = "rejected" =>
          /\ answer.query \in AllQueries
          /\ \A n \in DOMAIN expected : ~Admits(expected[n], answer.query)
     /\ answer.outcome \in {"ok", "error"} =>
          ExactOnly(answer.by, answer.query) /\ ArgsGiven(answer.by, answer.query)

QueryInvariant ==
  /\ table \in Tables
  /\ chain \in Chains
  /\ AllGood(expected)
  /\ AnswerKept

(* The table does not change, hence a good queue is good in the next       *)
(* state.                                                                  *)
LEMMA QueueStays ==
  ASSUME NEW s, s = expected', AllGood(s), table' = table
  PROVE  AllGood(expected)'
<1>1. ASSUME NEW n \in DOMAIN s PROVE Good(s[n])'
  <2>1. PICK e : e = s[n]
    OBVIOUS
  <2>2. Good(e)
    BY <2>1 DEF AllGood
  <2>3. Good(e)'
    BY <2>2, StaysGood
  <2> QED
    BY <2>1, <2>3
<1>2. s \in Seq(ToSet(s))
  BY DEF AllGood
<1> QED
  BY <1>1, <1>2 DEF AllGood

(* Before the first call nothing is queued.                                *)
LEMMA FindInitHolds == Init => QueryInvariant
<1> SUFFICES ASSUME Init PROVE QueryInvariant
  OBVIOUS
<1>1. chain \in Chains
  BY BuildersAreChains DEF Init
<1>2. AllGood(expected)
  <2>1. <<>> \in Seq({})
    OBVIOUS
  <2> QED
    BY <2>1, GoodSequence DEF Init
<1> QED
  BY <1>1, <1>2 DEF Init, QueryInvariant, AnswerKept

(* Before an answer is there, the author's calls keep the invariant when   *)
(* they keep the chain typed and the queue good.                           *)
LEMMA AuthorStep ==
  ASSUME QueryInvariant, answer = NoAnswer, answer' = answer, table' = table,
         chain' \in Chains, NEW s, s = expected', AllGood(s)
  PROVE  QueryInvariant'
<1>1. AllGood(expected)'
  BY QueueStays
<1>2. Chains' = Chains /\ Tables' = Tables
  BY DEF Chains
<1> QED
  BY <1>1, <1>2 DEF QueryInvariant, AnswerKept, NoAnswer

(* While a chain is being called no answer is pending.                     *)
LEMMA ChainBusy ==
  ASSUME QueryInvariant, chain.op \in {"find", "count", "search"}
  PROVE  answer = NoAnswer
  BY DEF QueryInvariant, AnswerKept, NoChain, Builder

(* A call in the middle of a chain leaves the queue alone.                 *)
LEMMA CallsKeep ==
  ASSUME QueryInvariant, NEW op \in SUBSET {"find", "count"}, NEW newChain,
         Calls(op, newChain), newChain \in Chains
  PROVE  QueryInvariant'
<1>1. answer = NoAnswer
  BY ChainBusy DEF Calls
<1>2. chain' \in Chains /\ AllGood(expected) /\ expected = expected'
      /\ answer' = answer /\ table' = table
  BY DEF Calls, QueryInvariant
<1>3. PICK s : s = expected'
  OBVIOUS
<1> QED
  BY <1>1, <1>2, <1>3, AuthorStep

(* What a call makes of the chain is a chain.                              *)
LEMMA DescribedChains ==
  ASSUME NEW c \in Chains, c.op \in {"find", "count"}
  PROVE  /\ \A w \in DOMAIN Text, v \in Values \cup {NotGiven} :
              [c EXCEPT !.where = w, !.value = v] \in Chains
         /\ \A v \in Values : [c EXCEPT !.withArgs = v] \in Chains
         /\ c.op = "find" => [c EXCEPT !.first = TRUE] \in Chains /\ [c EXCEPT !.deleted = TRUE] \in Chains
  BY DEF Chains

(* Every call that describes the rows is one.                              *)
LEMMA DescribeKeeps ==
  ASSUME QueryInvariant, Describe
  PROVE  QueryInvariant'
<1>1. Author \in Values /\ Clauses \subseteq DOMAIN Text /\ chain \in Chains
  BY BuildersAreChains, FindExpectationsAssumption DEF QueryInvariant
<1>2. {"like", "likes", "limit", "limitOffset", "offset", "order", "null", "pk"} \subseteq DOMAIN Text
  BY TextIs
<1>3. ASSUME NEW op \in SUBSET {"find", "count"}, NEW w \in DOMAIN Text, NEW v \in Values \cup {NotGiven},
             Calls(op, SetWhere(w, v))
      PROVE  QueryInvariant'
  <2>1. chain.op \in {"find", "count"}
    BY <1>3 DEF Calls
  <2>2. SetWhere(w, v) \in Chains
    BY <1>1, <2>1, DescribedChains DEF SetWhere
  <2> QED
    BY <1>3, <2>2, CallsKeep
<1>4. ASSUME NEW clause \in Clauses, NEW value \in {Author, NotGiven}, WhereCall(clause, value)
      PROVE  QueryInvariant'
  <2>1. Calls(Anything, SetWhere(clause, Written(value, clause)))
    BY <1>4 DEF WhereCall
  <2>2. Written(value, clause) \in Values \cup {NotGiven} /\ clause \in DOMAIN Text
    BY <1>1 DEF Written
  <2> QED
    BY <1>3, <2>1, <2>2 DEF Anything
<1>5. ASSUME WithWhereLikeField \/ WithWhereLikeFields(TRUE) PROVE QueryInvariant'
  BY <1>1, <1>2, <1>3, <1>5 DEF WithWhereLikeField, WithWhereLikeFields, Anything
<1>6. ASSUME Limit \/ LimitOffset \/ Offset \/ OrderBy PROVE QueryInvariant'
  BY <1>1, <1>2, <1>3, <1>6 DEF Limit, LimitOffset, Offset, OrderBy, Anything
<1>7. ASSUME CountWithDeletedAt \/ ByID PROVE QueryInvariant'
  BY <1>1, <1>2, <1>3, <1>7 DEF CountWithDeletedAt, ByID
<1>8. ASSUME WithArgs PROVE QueryInvariant'
  <2>1. Calls(Anything, [chain EXCEPT !.withArgs = Author]) /\ chain.op \in {"find", "count"}
    BY <1>8 DEF WithArgs, Calls, Anything
  <2>2. [chain EXCEPT !.withArgs = Author] \in Chains
    BY <1>1, <2>1, DescribedChains
  <2> QED
    BY <2>1, <2>2, CallsKeep DEF Anything
<1>9. ASSUME First PROVE QueryInvariant'
  <2>1. Calls({"find"}, [chain EXCEPT !.first = TRUE]) /\ chain.op = "find"
    BY <1>9 DEF First, Calls
  <2>2. [chain EXCEPT !.first = TRUE] \in Chains
    BY <1>1, <2>1, DescribedChains
  <2> QED
    BY <2>1, <2>2, CallsKeep
<1>10. ASSUME WithDeletedAt PROVE QueryInvariant'
  <2>1. Calls({"find"}, [chain EXCEPT !.deleted = TRUE]) /\ chain.op = "find"
    BY <1>10 DEF WithDeletedAt, Calls
  <2>2. [chain EXCEPT !.deleted = TRUE] \in Chains
    BY <1>1, <2>1, DescribedChains
  <2> QED
    BY <2>1, <2>2, CallsKeep
<1>11. ASSUME NEW start, WithPagination(1, start) PROVE QueryInvariant'
  BY <1>6, <1>11 DEF WithPagination
<1> QED
  BY <1>4, <1>5, <1>6, <1>7, <1>8, <1>9, <1>10, <1>11 DEF Describe

(* A call that ends a chain queues one expectation more.                   *)
LEMMA EndsKeeps ==
  ASSUME QueryInvariant, chain.op \in {"find", "count", "search"},
         NEW call, NEW pattern, NEW args, NEW outcome,
         Ends(call, pattern, args, outcome),
         Good(Expectation(pattern, args, outcome, chain, call))
  PROVE  QueryInvariant'
<1>1. answer = NoAnswer
  BY ChainBusy
<1>2. AllGood(expected)
  BY DEF QueryInvariant
<1>3. PICK e : e = Expectation(pattern, args, outcome, chain, call)
  OBVIOUS
<1>4. PICK s : s = Append(expected, e)
  OBVIOUS
<1>5. AllGood(s)
  BY <1>2, <1>3, <1>4, GoodAppend
<1>6. s = expected' /\ answer' = answer /\ table' = table /\ chain' \in Chains
  BY <1>3, <1>4, BuildersAreChains DEF Ends
<1> QED
  BY <1>1, <1>5, <1>6, AuthorStep

(* ReturnRows, which the handlers fall back to as well.                    *)
LEMMA ReturnRowsKeeps ==
  ASSUME QueryInvariant, ReturnRows
  PROVE  QueryInvariant'
<1>1. chain \in Chains /\ chain.op = "find"
      /\ Ends("ReturnRows", RowsPattern(chain), RowsArgs(chain), "ok")
  BY DEF QueryInvariant, ReturnRows
<1>2. Good(Expectation(RowsPattern(chain), RowsArgs(chain), "ok", chain, "ReturnRows"))
  BY <1>1, RowsQueued
<1> QED
  BY <1>1, <1>2, EndsKeeps

(* Every call that ends a chain.                                           *)
LEMMA EndKeeps ==
  ASSUME QueryInvariant, End
  PROVE  QueryInvariant'
<1>1. chain \in Chains /\ chain.where \in DOMAIN Text
  BY ChainFields DEF QueryInvariant
<1>2. CASE ReturnRows
  BY <1>2, ReturnRowsKeeps
<1>3. CASE ReturnError
  <2>1. chain.op = "find" /\ Ends("ReturnError", ErrorPattern(chain), ErrorArgs(chain), "error")
    BY <1>3 DEF ReturnError
  <2>2. Good(Expectation(ErrorPattern(chain), ErrorArgs(chain), "error", chain, "ReturnError"))
    BY <1>1, ErrorQueued
  <2> QED
    BY <2>1, <2>2, EndsKeeps
<1>4. CASE ReturnCount
  <2>1. chain.op = "count" /\ Ends("ReturnCount", CountPattern(chain), CountArgs(chain), "ok")
    BY <1>4 DEF ReturnCount
  <2>2. Good(Expectation(CountPattern(chain), CountArgs(chain), "ok", chain, "ReturnCount"))
    BY <1>1, <2>1, CountQueued
  <2> QED
    BY <2>1, <2>2, EndsKeeps
<1>5. CASE CountReturnError
  <2>1. chain.op = "count" /\ Ends("CountReturnError", CountErrorPattern(chain), CountArgs(chain), "error")
    BY <1>5 DEF CountReturnError
  <2>2. Good(Expectation(CountErrorPattern(chain), CountArgs(chain), "error", chain, "CountReturnError"))
    BY <1>1, <2>1, CountQueued
  <2> QED
    BY <2>1, <2>2, EndsKeeps
<1>6. CASE DropBuilder
  <2>1. answer = NoAnswer
    BY <1>6, ChainBusy DEF DropBuilder
  <2>2. PICK s : s = expected'
    OBVIOUS
  <2>3. AllGood(s) /\ chain' \in Chains /\ answer' = answer /\ table' = table
    BY <1>6, <2>2, BuildersAreChains DEF DropBuilder, QueryInvariant
  <2> QED
    BY <2>1, <2>2, <2>3, AuthorStep
<1>7. CASE HandleDeletedAtRows
  <2>1. CASE chain.where = "null"
    <3>1. chain.op = "find" /\ Ends("HandleDeletedAtRows", ExactSoftFirst("null"), Unchecked, "ok")
      BY <1>7, <2>1 DEF HandleDeletedAtRows, Handler
    <3>2. Good(Expectation(ExactSoftFirst("null"), Unchecked, "ok", chain, "HandleDeletedAtRows"))
      BY <1>1, <2>1, HandlerQueued DEF Handlers
    <3> QED
      BY <3>1, <3>2, EndsKeeps
  <2>2. CASE chain.where # "null"
    BY <1>7, <2>2, ReturnRowsKeeps DEF HandleDeletedAtRows, Handler
  <2> QED
    BY <2>1, <2>2
<1>8. CASE HandleStandardFirstRows
  <2> DEFINE mine == Len(ArgsOf(chain)) = 1 /\ Mentions(chain.where, Equalities)
  <2>1. CASE mine
    <3>1. chain.op = "find" /\ Ends("HandleStandardFirstRows", ExactSoftFirst(chain.where),
                                    Exactly(ArgsOf(chain)), "ok")
      BY <1>8, <2>1 DEF HandleStandardFirstRows, Handler
    <3>2. chain.where # "none"
      BY <2>1, MentionsNone
    <3>3. Good(Expectation(ExactSoftFirst(chain.where), Exactly(ArgsOf(chain)), "ok", chain,
                           "HandleStandardFirstRows"))
      BY <1>1, <3>2, HandlerQueued DEF Handlers
    <3> QED
      BY <3>1, <3>3, EndsKeeps
  <2>2. CASE ~mine
    BY <1>8, <2>2, ReturnRowsKeeps DEF HandleStandardFirstRows, Handler
  <2> QED
    BY <2>1, <2>2
<1>9. CASE HandleDeletedNotNullRows
  <2> DEFINE mine == Mentions(chain.where, {"deleted_notnull"})
  <2>1. CASE mine
    <3>1. chain.op = "find" /\ Ends("HandleDeletedNotNullRows", ExactPlainFirst(chain.where),
                                    Exactly(ArgsOf(chain)), "ok")
      BY <1>9, <2>1 DEF HandleDeletedNotNullRows, Handler
    <3>2. chain.where \in {"notNull", "userNotNull"}
      BY <1>1, <2>1, NotNullClauses
    <3>3. Good(Expectation(ExactPlainFirst(chain.where), Exactly(ArgsOf(chain)), "ok", chain,
                           "HandleDeletedNotNullRows"))
      BY <1>1, <3>2, HandlerQueued DEF Handlers
    <3> QED
      BY <3>1, <3>3, EndsKeeps
  <2>2. CASE ~mine
    BY <1>9, <2>2, ReturnRowsKeeps DEF HandleDeletedNotNullRows, Handler
  <2> QED
    BY <2>1, <2>2
<1> QED
  BY <1>2, <1>3, <1>4, <1>5, <1>6, <1>7, <1>8, <1>9 DEF End

(* The calls that begin a chain, and the registration of a model.          *)
LEMMA BeginKeeps ==
  ASSUME QueryInvariant, RegisterModel \/ ExpectFind \/ ExpectCount \/ ExpectCountOf
  PROVE  QueryInvariant'
<1>1. answer = NoAnswer /\ answer' = answer /\ table' = table
  BY DEF RegisterModel, ExpectFind, ExpectCount, ExpectCountOf, Begin, CanBegin
<1>2. chain' \in Chains
  BY BuildersAreChains DEF RegisterModel, ExpectFind, ExpectCount, ExpectCountOf, Begin, QueryInvariant
<1>3. PICK s : s = expected'
  OBVIOUS
<1>4. AllGood(s)
  <2>1. AllGood(expected)
    BY DEF QueryInvariant
  <2>2. CASE ExpectCountOf
    <3>1. PICK name \in Names : name = NewExpectationsBuilder
      BY BuildersAreChains DEF QueryInvariant
    <3>2. chain' = Builder("count", name) /\ chain'.table = name
      BY <2>2, <3>1 DEF ExpectCountOf, Builder
    <3>3. PICK e : e = Expectation(SelectCount(name) \o <<Gap>>, Unchecked, "ok",
                                   Builder("count", name), "ExpectCount")
      OBVIOUS
    <3>4. s = Append(expected, e)
      BY <1>3, <2>2, <3>2, <3>3 DEF ExpectCountOf
    <3> QED
      BY <2>1, <3>3, <3>4, ExpectCountQueued, GoodAppend
  <2>3. CASE ~ExpectCountOf
    BY <1>3, <2>1, <2>3 DEF RegisterModel, ExpectFind, ExpectCount, Begin
  <2> QED
    BY <2>2, <2>3
<1> QED
  BY <1>1, <1>2, <1>3, <1>4, AuthorStep

(* The helper queues the count and the rows together.                      *)
LEMMA HelperKeeps ==
  ASSUME QueryInvariant, NEW count, NEW rows, Helper(count, rows)
  PROVE  QueryInvariant'
<1>1. answer = NoAnswer /\ answer' = answer /\ table' = table /\ chain' \in Chains
  BY DEF Helper, CanBegin, QueryInvariant
<1>2. PICK e, f : /\ e = Expectation(count, Unchecked, "ok", Builder("search", table), "HelperCount")
                  /\ f = Expectation(rows, Unchecked, "ok", Builder("search", table), "HelperRows")
  OBVIOUS
<1>3. Good(e) /\ Good(f)
  BY <1>2, HelperQueued
<1>4. PICK s : s = expected \o <<e, f>>
  OBVIOUS
<1>5. AllGood(s) /\ s = expected'
  BY <1>2, <1>3, <1>4, GoodTwo DEF Helper, QueryInvariant
<1> QED
  BY <1>1, <1>5, AuthorStep

(* Every call of the search builder and of the search helper.              *)
LEMMA SearchKeeps ==
  ASSUME QueryInvariant, Search
  PROVE  QueryInvariant'
<1>1. chain \in Chains /\ AllGood(expected)
  BY DEF QueryInvariant
<1>2. ASSUME NEW s \in Searches, ExpectSearch(s) PROVE QueryInvariant'
  <2>1. answer = NoAnswer /\ answer' = answer /\ table' = table /\ chain' \in Chains
    BY <1>2, BuildersAreChains DEF ExpectSearch, CanBegin, QueryInvariant
  <2>2. PICK t : t = expected'
    OBVIOUS
  <2>3. AllGood(t)
    BY <1>1, <1>2, <2>2 DEF ExpectSearch
  <2> QED
    BY <2>1, <2>2, <2>3, AuthorStep
<1>3. CASE SearchReturnCount
  <2>1. chain.op = "search" /\ answer' = answer /\ table' = table /\ chain' \in Chains
    BY <1>1, <1>3 DEF SearchReturnCount
  <2>2. answer = NoAnswer
    BY <2>1, ChainBusy
  <2>3. PICK e : e = Expectation(SearchCountPattern(chain.search, chain.table), Unchecked, "ok", chain, "SearchCount")
    OBVIOUS
  <2>4. PICK t : t = Append(expected, e)
    OBVIOUS
  <2>5. AllGood(t)
    BY <1>1, <2>1, <2>3, <2>4, SearchQueued, GoodAppend
  <2>6. t = expected'
    BY <1>3, <2>3, <2>4 DEF SearchReturnCount
  <2> QED
    BY <2>1, <2>2, <2>5, <2>6, AuthorStep
<1>4. CASE SearchReturnRows
  <2>1. chain.op = "search" /\ Ends("SearchRows", SearchRowsPattern(chain.search, chain.table),
                                    SearchArgs(chain.search, Author), "ok")
    BY <1>4 DEF SearchReturnRows
  <2>2. Good(Expectation(SearchRowsPattern(chain.search, chain.table), SearchArgs(chain.search, Author),
                         "ok", chain, "SearchRows"))
    BY <1>1, <2>1, SearchQueued
  <2> QED
    BY <2>1, <2>2, EndsKeeps
<1>5. CASE SearchReturnError
  <2>1. chain.op = "search" /\ Ends("SearchError", SearchCountPattern(chain.search, chain.table),
                                    SearchArgs(chain.search, Author), "error")
    BY <1>5 DEF SearchReturnError
  <2>2. Good(Expectation(SearchCountPattern(chain.search, chain.table), SearchArgs(chain.search, Author),
                         "error", chain, "SearchError"))
    BY <1>1, <2>1, SearchQueued
  <2> QED
    BY <2>1, <2>2, EndsKeeps
<1>6. ASSUME NEW s \in Searches, HelperSearchWithQueryUtil(s) \/ HelperTextSearch(s) PROVE QueryInvariant'
  BY <1>6, HelperKeeps DEF HelperSearchWithQueryUtil, HelperTextSearch
<1>7. CASE HelperSearch \/ HelperSearchWithPagination \/ HelperSearchWithSorting
  BY <1>7, HelperKeeps DEF HelperSearch, HelperSearchWithPagination, HelperSearchWithSorting
<1>8. CASE HelperSearchError
  <2>1. answer = NoAnswer /\ answer' = answer /\ table' = table /\ chain' \in Chains
    BY <1>1, <1>8 DEF HelperSearchError, CanBegin
  <2>2. PICK e : e = Expectation(LooseCount(table), Unchecked, "error", Builder("search", table), "HelperError")
    OBVIOUS
  <2>3. PICK t : t = Append(expected, e)
    OBVIOUS
  <2>4. AllGood(t)
    BY <1>1, <2>2, <2>3, HelperQueued, GoodAppend
  <2>5. t = expected'
    BY <1>8, <2>2, <2>3 DEF HelperSearchError
  <2> QED
    BY <2>1, <2>4, <2>5, AuthorStep
<1> QED
  BY <1>2, <1>3, <1>4, <1>5, <1>6, <1>7, <1>8 DEF Search

(* The mock answers with the first expectation that admits the query.      *)
LEMMA AnsweringAdmits ==
  ASSUME AllGood(expected), NEW q, Candidates(q) # {}
  PROVE  Answering(q) \in 1 .. Len(expected) /\ Admits(expected[Answering(q)], q)
<1>1. DOMAIN expected = 1 .. Len(expected) /\ Len(expected) \in Nat
  BY LenProperties DEF AllGood
<1>2. Candidates(q) \in SUBSET Nat
  BY <1>1 DEF Candidates
<1>3. Answering(q) \in Candidates(q)
  BY <1>2, LeastExists DEF Answering
<1> QED
  BY <1>1, <1>3 DEF Candidates

(* Hence what its author fixed is true of the query it answers.            *)
LEMMA QueryKeeps ==
  ASSUME QueryInvariant, CodeUnderTest
  PROVE  QueryInvariant'
<1>1. PICK q \in Queries : Query(q)
  BY DEF CodeUnderTest
<1>2. chain = NoChain /\ chain' = chain /\ table' = table /\ q \in AllQueries
  BY <1>1, QueriesAre DEF CodeUnderTest, Query
<1>3. Chains' = Chains /\ Tables' = Tables /\ AllQueries' = AllQueries
  BY <1>2 DEF Chains, AllQueries
<1>4. AllGood(expected)
  BY DEF QueryInvariant
<1>5. CASE Candidates(q) = {}
  <2>1. answer' = [query |-> q, outcome |-> "rejected"] /\ expected' = expected
    BY <1>1, <1>5 DEF Query
  <2>2. \A n \in DOMAIN expected : ~Admits(expected[n], q)
    BY <1>5 DEF Candidates
  <2>3. AllGood(expected)'
    <3>1. PICK s : s = expected'
      OBVIOUS
    <3> QED
      BY <1>2, <1>4, <2>1, <3>1, QueueStays
  <2>4. AnswerKept'
    <3>1. PICK s : s = expected'
      OBVIOUS
    <3>2. \A n \in DOMAIN s : ~Admits(s[n], q)
      BY <2>1, <2>2, <3>1
    <3>3. (\A n \in DOMAIN expected : ~Admits(expected[n], answer.query))'
      BY <2>1, <3>1, <3>2
    <3>4. answer'.query \in AllQueries' /\ answer'.outcome = "rejected"
      BY <1>2, <1>3, <2>1
    <3> QED
      BY <1>2, <3>3, <3>4 DEF AnswerKept
  <2> QED
    BY <1>2, <1>3, <2>3, <2>4 DEF QueryInvariant
<1>6. CASE Candidates(q) # {}
  <2>1. PICK n, e : n = Answering(q) /\ e = expected[n]
    OBVIOUS
  <2>2. n \in 1 .. Len(expected) /\ Admits(e, q)
    BY <1>4, <1>6, <2>1, AnsweringAdmits
  <2>3. Good(e)
    <3>1. n \in DOMAIN expected
      BY <1>4, <2>2, LenProperties DEF AllGood
    <3> QED
      BY <1>4, <2>1, <3>1 DEF AllGood
  <2>4. ExactOnly(e.by, q) /\ ArgsGiven(e.by, q) /\ e.outcome \in {"ok", "error"}
    BY <1>2, <2>2, <2>3 DEF Good, Keeps, Admits, Answers
  <2>5. answer' = [query |-> q, outcome |-> e.outcome, by |-> e.by]
        /\ expected' = RemoveAt(expected, n)
    BY <1>1, <1>6, <2>1 DEF Query
  <2>6. AllGood(expected)'
    <3>1. PICK s : s = RemoveAt(expected, n)
      OBVIOUS
    <3>2. AllGood(s)
      BY <1>4, <2>2, <3>1, GoodRemove
    <3> QED
      BY <1>2, <2>5, <3>1, <3>2, QueueStays
  <2>7. AnswerKept'
    <3>1. PICK b, o : b = e.by /\ o = e.outcome
      OBVIOUS
    <3>2. answer'.by = b /\ answer'.query = q /\ answer'.outcome = o
      BY <2>5, <3>1
    <3>3. ExactOnly(answer.by, answer.query)'
      BY <2>4, <3>1, <3>2 DEF ExactOnly
    <3>4. ArgsGiven(answer.by, answer.query)'
      BY <2>4, <3>1, <3>2 DEF ArgsGiven
    <3> QED
      BY <1>2, <2>4, <3>1, <3>2, <3>3, <3>4 DEF AnswerKept
  <2> QED
    BY <1>2, <1>3, <2>6, <2>7 DEF QueryInvariant
<1> QED
  BY <1>5, <1>6

(* Every step of the author and of the code under test keeps the           *)
(* invariant.                                                              *)
LEMMA FindStepHolds == QueryInvariant /\ [Next]_vars => QueryInvariant'
<1> SUFFICES ASSUME QueryInvariant, [Next]_vars PROVE QueryInvariant'
  OBVIOUS
<1>1. CASE RegisterModel \/ ExpectFind \/ ExpectCount \/ ExpectCountOf
  BY <1>1, BeginKeeps
<1>2. CASE Describe
  BY <1>2, DescribeKeeps
<1>3. CASE End
  BY <1>3, EndKeeps
<1>4. CASE Search
  BY <1>4, SearchKeeps
<1>5. CASE CodeUnderTest
  BY <1>5, QueryKeeps
<1>6. CASE SeeAnswer
  <2>1. chain = NoChain /\ chain' = chain /\ table' = table /\ answer' = NoAnswer
    BY <1>6 DEF SeeAnswer, QueryInvariant, AnswerKept, NoAnswer
  <2>2. PICK s : s = expected'
    OBVIOUS
  <2>3. AllGood(s)
    BY <1>6, <2>2 DEF SeeAnswer, QueryInvariant
  <2>4. AllGood(expected)'
    BY <2>1, <2>2, <2>3, QueueStays
  <2>5. Chains' = Chains
    BY <2>1 DEF Chains
  <2> QED
    BY <2>1, <2>4, <2>5, BuildersAreChains DEF QueryInvariant, AnswerKept, NoAnswer
<1>7. CASE UNCHANGED vars
  <2>1. chain = chain' /\ table' = table /\ answer' = answer
    BY <1>7 DEF vars
  <2>2. PICK s : s = expected'
    OBVIOUS
  <2>3. AllGood(s)
    BY <1>7, <2>2 DEF vars, QueryInvariant
  <2>4. AllGood(expected)'
    BY <2>1, <2>2, <2>3, QueueStays
  <2>5. Chains' = Chains /\ AllQueries' = AllQueries
    BY <2>1 DEF Chains, AllQueries
  <2>6. AnswerKept'
    <3>1. AnswerKept /\ expected' = expected
      BY <1>7 DEF QueryInvariant, vars
    <3> QED
      BY <2>1, <2>5, <3>1 DEF AnswerKept, NoAnswer
  <2> QED
    BY <2>1, <2>4, <2>5, <2>6 DEF QueryInvariant
<1> QED
  BY <1>1, <1>2, <1>3, <1>4, <1>5, <1>6, <1>7 DEF Next

(* In every state the queue holds only expectations that admit each query  *)
(* they are documented for and none that their exact pattern or given      *)
(* arguments exclude, and the pending answer is one they allow.            *)
THEOREM QueryInvariantHolds == Spec => []QueryInvariant
<1> QED BY FindInitHolds, FindStepHolds, PTL DEF Spec

(* An unmet expectation written for a query, as the documentation and the  *)
(* tests write it and under the name the query uses, means the query is    *)
(* answered: for every set of tables, with and without soft delete, prefix *)
(* and registration, every clause and every queue of expectations.  Not    *)
(* documented are WithArgs without a Where, and a prefixed builder of a    *)
(* model that is not registered and names its own table; these are         *)
(* rejected (expectations_builder.go:516-552, ReturnRows to ReturnCount;   *)
(* flexible_pattern_test.go).                                              *)
THEOREM DocumentedUsesAnswered == Spec => []DocumentedUseNeverRejected
<1>1. QueryInvariant => DocumentedUseNeverRejected
  <2> SUFFICES ASSUME QueryInvariant, answer.outcome = "rejected", NEW n \in DOMAIN expected,
                      Documented(expected[n].by, answer.query)
               PROVE  FALSE
    BY DEF DocumentedUseNeverRejected
  <2>1. answer.query \in AllQueries /\ ~Admits(expected[n], answer.query)
    BY DEF QueryInvariant, AnswerKept, NoAnswer
  <2>2. Good(expected[n])
    BY DEF QueryInvariant, AllGood
  <2> QED
    BY <2>1, <2>2 DEF Good, Serves, Answers, Admits
<1> QED BY <1>1, QueryInvariantHolds, PTL

(* The exact patterns of First and of the handlers answer only the First   *)
(* they quote, however long the queue and whatever was loaded before       *)
(* (expectations_builder.go, ReturnRows; go-sqlmock takes the first unmet  *)
(* expectation that matches).                                              *)
THEOREM ExactPatternsAnswerTheirFirst == Spec => []ExactPatternsAnswerOnlyTheirFirst
<1>1. QueryInvariant => ExactPatternsAnswerOnlyTheirFirst
  BY DEF QueryInvariant, AnswerKept, NoAnswer, ExactOnly, ExactPatternsAnswerOnlyTheirFirst, Handlers
<1> QED BY <1>1, QueryInvariantHolds, PTL

(* A rows or count expectation whose author gave WithArgs, with or without *)
(* a Where and outside the exact patterns, answers only a query with these *)
(* arguments, as many of them (expectations_builder.go:1145, 1967).        *)
THEOREM GivenArgumentsCompared == Spec => []ArgumentsAreCompared
<1>1. QueryInvariant => ArgumentsAreCompared
  BY DEF QueryInvariant, AnswerKept, NoAnswer, ArgsGiven, ArgumentsAreCompared
<1> QED BY <1>1, QueryInvariantHolds, PTL

(* The two copies of the classification, in ReturnRows and in ReturnError, *)
(* choose the same statement and arguments for every chain that can be     *)
(* written.                                                                *)
THEOREM CopiesAgree == Spec => []RowsAndErrorsAgree
<1>1. RowsAndErrorsAgree
  BY PatternsAgree, ArgumentsAgree DEF RowsAndErrorsAgree
<1> QED BY <1>1, PTL

------------------------------------------------------------------------------
(* Arithmetic.                                                             *)

(* Whole pages in the order of their numbers,                              *)
LEMMA TimesAtMost ==
  ASSUME NEW a \in Int, NEW b \in Int, NEW s \in Nat, a <= b
  PROVE  a * s <= b * s
  BY SMT

(* and the numbers in the order of the pages.                              *)
LEMMA TimesBelow ==
  ASSUME NEW a \in Int, NEW b \in Int, NEW s \in Nat, a * s < b * s
  PROVE  a < b
  BY SMT

(* Division with rest.                                                     *)
LEMMA Quotient ==
  ASSUME NEW a \in Nat, NEW s \in Nat \ {0}
  PROVE  /\ a \div s \in Nat
         /\ a % s \in 0 .. s - 1
         /\ a = (a \div s) * s + (a % s)
  BY SMT

(* The number of a page is found again in its start.                       *)
LEMMA QuotientOfProduct ==
  ASSUME NEW k \in Nat, NEW s \in Nat \ {0}
  PROVE  (k * s) \div s = k
  BY SMT

(* So is that of page 0.                                                   *)
LEMMA QuotientBelow ==
  ASSUME NEW s \in Nat \ {0}
  PROVE  (-1 * s) \div s = -1 /\ -1 * s = -s
<1>1. -1 * s = -s
  BY SMT
<1>2. (-s) \div s = -1
  BY SMT
<1> QED BY <1>1, <1>2

------------------------------------------------------------------------------
(* The pages the walk stands on, and how many pages there are.             *)

IsPage(p, k, s) == p = [start |-> k * s, end |-> k * s + s, size |-> s]

(* The page is the one of some number and size: before it come k pages,    *)
(* or it is page 0 of no items; and its size is that of a request, which   *)
(* is at least one, or what the test chose.                                *)
OnAPage ==
  \E k \in Int, s \in Nat :
    /\ IsPage(page, k, s)
    /\ k \in Nat \/ (k = -1 /\ totalItems = 0)
    /\ s = 0 => ~requested

PagerInvariant ==
  /\ totalItems \in 0 .. MaxItems
  /\ OnAPage
  /\ requested \in BOOLEAN /\ panicked \in BOOLEAN
  /\ requested => ~panicked

(* CreatePagination makes a page of a number, counted from one.            *)
LEMMA PagesAreCreated ==
  ASSUME NEW number \in Int, NEW s \in Nat
  PROVE  IsPage(CreatePagination(number, s), number - 1, s) /\ number - 1 \in Int
  BY DEF IsPage, CreatePagination

(* The total of pages is the quotient rounded up: one page less does not   *)
(* hold all items.                                                         *)
LEMMA TotalPages ==
  ASSUME NEW items \in Nat, NEW s \in Nat \ {0}
  PROVE  /\ CalculateTotalPages(items, s) \in Nat
         /\ items > 0 => CalculateTotalPages(items, s) > 0
         /\ items <= CalculateTotalPages(items, s) * s
         /\ items > 0 => (CalculateTotalPages(items, s) - 1) * s < items
         /\ (items > 0 /\ items % s > 0)
              => items = (CalculateTotalPages(items, s) - 1) * s + (items % s)
         /\ (items > 0 /\ items % s = 0)
              => items = (CalculateTotalPages(items, s) - 1) * s + s
<1> DEFINE q == items \div s
           r == items % s
           t == CalculateTotalPages(items, s)
<1>1. q \in Nat /\ r \in 0 .. s - 1 /\ items = q * s + r
  BY Quotient
<1>2. CASE items = 0
  <2>1. t = 0
    BY <1>2 DEF CalculateTotalPages
  <2> QED BY <2>1, <1>2
<1>3. CASE items > 0 /\ r > 0
  <2>1. t = q + 1
    BY <1>1, <1>3 DEF CalculateTotalPages
  <2>2. (q + 1) * s = q * s + s /\ q * s \in Nat
    BY <1>1, SMT
  <2>3. t - 1 = q
    BY <2>1, <1>1
  <2> HIDE DEF q, r, t
  <2>4. t \in Nat /\ t > 0 /\ items <= t * s /\ (t - 1) * s < items /\ items = (t - 1) * s + r
    BY <1>1, <1>3, <2>1, <2>2, <2>3
  <2> QED BY <2>4, <1>3 DEF t, r
<1>4. CASE items > 0 /\ r = 0
  <2>1. t = q
    BY <1>1, <1>4 DEF CalculateTotalPages
  <2> HIDE DEF q, r, t
  <2>2. q > 0
    <3>1. q = 0 => q * s = 0
      BY <1>1
    <3> QED BY <3>1, <1>1, <1>4
  <2>3. (q - 1) * s = q * s - s /\ q * s \in Nat
    BY <1>1, SMT
  <2>4. t \in Nat /\ t > 0 /\ items <= t * s /\ (t - 1) * s < items /\ items = (t - 1) * s + s
    BY <1>1, <1>4, <2>1, <2>2, <2>3
  <2> QED BY <2>4, <1>4 DEF t, r
<1> QED BY <1>1, <1>2, <1>3, <1>4

------------------------------------------------------------------------------
(* Where the walk stands.                                                  *)

(* GetPageNumber and the moves from page to page give the number back.     *)
LEMMA NumberOfPage ==
  ASSUME NEW p, NEW k \in Int, NEW s \in Nat \ {0}, IsPage(p, k, s), k \in Nat \/ k = -1
  PROVE  /\ GetPageNumber(p) = k + 1
         /\ p.start \div p.size = k
         /\ p.start = k * s /\ p.end = k * s + s /\ p.size = s
         /\ k * s \in Int /\ (k \in Nat => k * s \in Nat)
<1>1. p.start = k * s /\ p.end = k * s + s /\ p.size = s
  BY DEF IsPage
<1>2. (k * s) \div s = k
  BY QuotientOfProduct, QuotientBelow
<1>3. k * s \in Int /\ (k \in Nat => k * s \in Nat)
  BY SMT
<1> QED BY <1>1, <1>2, <1>3 DEF GetPageNumber

(* So does FromRequest, whatever was asked for.                            *)
LEMMA RequestsAreForPages ==
  ASSUME NEW number \in Int, NEW size \in Int, NEW maxSize \in Int
  PROVE  \E k \in Nat, s \in Nat \ {0} : IsPage(FromRequest(number, size, maxSize), k, s)
<1> DEFINE n == IF number < 1 THEN 1 ELSE number
           wanted == IF size <= 0 THEN 10 ELSE size
           s == IF maxSize > 0 /\ wanted > maxSize THEN maxSize ELSE wanted
<1>1. n \in Nat \ {0} /\ s \in Nat \ {0}
  OBVIOUS
<1>2. FromRequest(number, size, maxSize) = CreatePagination(n, s)
  BY DEF FromRequest
<1> HIDE DEF n, s
<1>3. IsPage(CreatePagination(n, s), n - 1, s) /\ n - 1 \in Nat
  BY <1>1, PagesAreCreated
<1> QED BY <1>1, <1>2, <1>3

(* The walk begins on a page,                                              *)
LEMMA InitOnAPage == PagerInit => PagerInvariant
<1> SUFFICES ASSUME PagerInit PROVE PagerInvariant
  OBVIOUS
<1>1. page = FromRequest(0, 0, MaxSize) /\ MaxSize \in Int /\ requested = TRUE /\ panicked = FALSE
  BY PaginationAssumption DEF PagerInit
<1>2. PICK k \in Nat, s \in Nat \ {0} : IsPage(page, k, s)
  <2>1. 0 \in Int
    OBVIOUS
  <2>2. \E k \in Nat, s \in Nat \ {0} : IsPage(FromRequest(0, 0, MaxSize), k, s)
    BY <1>1, <2>1, RequestsAreForPages
  <2> QED
    BY <1>1, <2>2
<1>3. k \in Int /\ s \in Nat /\ s # 0
  OBVIOUS
<1>4. OnAPage
  BY <1>2, <1>3 DEF OnAPage
<1> QED BY <1>1, <1>4 DEF PagerInvariant, PagerInit

(* stays on it or goes to another,                                         *)
LEMMA MovesStayOnPages ==
  ASSUME PagerInvariant, NEW k \in Int, NEW s \in Nat, IsPage(page, k, s), s = 0 => ~requested,
         k \in Nat \/ (k = -1 /\ totalItems = 0),
         NEW divides \in BOOLEAN, divides => s = 0, NEW next, Moves(divides, next),
         UNCHANGED totalItems,
         ~divides => \E m \in Int : IsPage(next, m, s) /\ (m \in Nat \/ (m = -1 /\ totalItems = 0))
  PROVE  PagerInvariant'
<1>1. /\ page' = IF divides THEN page ELSE next
      /\ panicked' = divides /\ requested' = requested
  BY DEF Moves
<1>2. \E m \in Int : IsPage(page', m, s) /\ (m \in Nat \/ (m = -1 /\ totalItems' = 0))
  BY <1>1
<1>3. OnAPage'
  BY <1>1, <1>2 DEF OnAPage
<1>4. /\ totalItems' \in 0 .. MaxItems
      /\ requested' \in BOOLEAN /\ panicked' \in BOOLEAN
      /\ requested' => ~panicked'
  BY <1>1 DEF PagerInvariant
<1> QED BY <1>3, <1>4 DEF PagerInvariant

(* and every step ends on one.                                             *)
LEMMA StepsStayOnPages == PagerInvariant /\ [PagerNext]_pagerVars => PagerInvariant'
<1> SUFFICES ASSUME PagerInvariant, [PagerNext]_pagerVars PROVE PagerInvariant'
  OBVIOUS
<1>1. PICK k \in Int, s \in Nat :
        /\ IsPage(page, k, s) /\ (k \in Nat \/ (k = -1 /\ totalItems = 0))
        /\ s = 0 => ~requested
  BY DEF PagerInvariant, OnAPage
<1>2. page.size = s
  BY <1>1 DEF IsPage
<1>3. Empty <=> s = 0
  BY <1>2 DEF Empty
<1>4. s # 0 => page.start \div page.size = k
  BY <1>1, NumberOfPage
<1>5. totalItems \in Nat
  BY PaginationAssumption DEF PagerInvariant
<1>6. PagerNext => UNCHANGED totalItems
  BY DEF PagerNext
<1>7. CASE NextPage /\ UNCHANGED totalItems
  <2>1. PICK next : next = CreatePagination(page.start \div page.size + 2, page.size)
    OBVIOUS
  <2>2. Moves(s = 0, next)
    BY <1>3, <1>7, <2>1 DEF NextPage, Moves
  <2>3. ASSUME s # 0 PROVE IsPage(next, k + 1, s) /\ k + 1 \in Nat
    <3>1. next = CreatePagination(k + 2, s) /\ k + 2 \in Int /\ (k + 2) - 1 = k + 1
      BY <1>2, <1>4, <2>1, <2>3
    <3>2. k + 1 \in Nat
      BY <1>1
    <3> QED BY <3>1, <3>2, PagesAreCreated
  <2>4. s # 0 => \E m \in Int : IsPage(next, m, s) /\ (m \in Nat \/ (m = -1 /\ totalItems = 0))
    BY <2>3
  <2> QED BY <1>1, <1>7, <2>2, <2>4, MovesStayOnPages
<1>8. CASE PreviousPage /\ UNCHANGED totalItems
  <2>1. PICK previous, next :
          /\ previous = page.start \div page.size
          /\ next = CreatePagination(IF previous < 1 THEN 1 ELSE previous, page.size)
    OBVIOUS
  <2>2. Moves(s = 0, next)
    BY <1>3, <1>8, <2>1 DEF PreviousPage, Moves
  <2>3. ASSUME s # 0 PROVE \E m \in Nat : IsPage(next, m, s)
    <3>1. PICK number : number = IF k < 1 THEN 1 ELSE k
      OBVIOUS
    <3>2. number \in Int /\ number - 1 \in Nat
      BY <3>1
    <3>3. next = CreatePagination(number, s)
      BY <1>2, <1>4, <2>1, <2>3, <3>1
    <3> QED BY <3>2, <3>3, PagesAreCreated
  <2>4. s # 0 => \E m \in Int : IsPage(next, m, s) /\ (m \in Nat \/ (m = -1 /\ totalItems = 0))
    BY <2>3
  <2> QED BY <1>1, <1>8, <2>2, <2>4, MovesStayOnPages
<1>9. CASE FirstPage /\ UNCHANGED totalItems
  <2>1. PICK next : next = CreatePagination(1, s)
    OBVIOUS
  <2>2. Moves(FALSE, next)
    BY <1>2, <1>9, <2>1 DEF FirstPage
  <2>3. IsPage(next, 0, s)
    <3>1. 1 \in Int /\ 1 - 1 = 0
      OBVIOUS
    <3> QED BY <2>1, <3>1, PagesAreCreated
  <2>4. \E m \in Int : IsPage(next, m, s) /\ (m \in Nat \/ (m = -1 /\ totalItems = 0))
    BY <2>3
  <2> QED BY <1>1, <1>9, <2>2, <2>4, MovesStayOnPages
<1>10. CASE LastPage /\ UNCHANGED totalItems
  <2>1. PICK number, next :
          number = CalculateTotalPages(totalItems, s) /\ next = CreatePagination(number, s)
    OBVIOUS
  <2>2. Moves(s = 0 /\ totalItems > 0, next)
    BY <1>2, <1>3, <1>10, <2>1 DEF LastPage, Moves
  <2>3. ASSUME ~(s = 0 /\ totalItems > 0)
        PROVE  number \in Nat /\ (number = 0 => totalItems = 0)
    <3>1. CASE totalItems = 0
      BY <2>1, <3>1 DEF CalculateTotalPages
    <3>2. CASE totalItems > 0
      <4>1. s \in Nat \ {0}
        BY <2>3, <3>2
      <4> QED BY <1>5, <2>1, <3>2, <4>1, TotalPages
    <3> QED BY <1>5, <3>1, <3>2
  <2>4. ~(s = 0 /\ totalItems > 0)
          => \E m \in Int : IsPage(next, m, s) /\ (m \in Nat \/ (m = -1 /\ totalItems = 0))
    <3>1. SUFFICES ASSUME ~(s = 0 /\ totalItems > 0)
                   PROVE  /\ IsPage(next, number - 1, s) /\ number - 1 \in Int
                          /\ number - 1 \in Nat \/ (number - 1 = -1 /\ totalItems = 0)
      OBVIOUS
    <3>2. number \in Nat /\ (number = 0 => totalItems = 0)
      BY <2>3, <3>1
    <3>3. IsPage(next, number - 1, s) /\ number - 1 \in Int
      BY <2>1, <3>2, PagesAreCreated
    <3> QED BY <3>2, <3>3
  <2> QED BY <1>1, <1>10, <2>2, <2>4, MovesStayOnPages
<1>11. CASE Ask /\ UNCHANGED totalItems
  <2>1. Moves(s = 0, page)
    BY <1>3, <1>11 DEF Ask, Moves
  <2> QED BY <1>1, <1>11, <2>1, MovesStayOnPages
<1>12. CASE ~panicked /\ Create /\ UNCHANGED totalItems
  <2>1. PICK number \in 1 .. MaxPage, size \in 0 .. MaxSize :
          /\ page' = CreatePagination(number, size)
          /\ requested' = FALSE /\ panicked' = panicked
    BY <1>12 DEF Create
  <2>2. number \in Int /\ size \in Nat /\ number - 1 \in Nat
    BY PaginationAssumption
  <2>3. IsPage(page', number - 1, size)
    BY <2>1, <2>2, PagesAreCreated
  <2>4. OnAPage'
    BY <2>1, <2>2, <2>3 DEF OnAPage
  <2> QED BY <1>12, <2>1, <2>4 DEF PagerInvariant
<1>13. CASE ~panicked /\ Request /\ UNCHANGED totalItems
  <2>1. PICK number \in 0 .. MaxPage, size \in 0 .. MaxSize, maxSize \in 0 .. MaxSize :
          /\ page' = FromRequest(number, size, maxSize)
          /\ requested' = TRUE /\ panicked' = panicked
    BY <1>13 DEF Request
  <2>2. number \in Int /\ size \in Int /\ maxSize \in Int
    BY PaginationAssumption
  <2>3. PICK m \in Nat, t \in Nat \ {0} : IsPage(page', m, t)
    BY <2>1, <2>2, RequestsAreForPages
  <2>4. m \in Int /\ t \in Nat /\ t # 0
    OBVIOUS
  <2>5. OnAPage'
    BY <2>3, <2>4 DEF OnAPage
  <2> QED BY <1>13, <2>1, <2>5 DEF PagerInvariant
<1>14. CASE UNCHANGED pagerVars
  BY <1>14 DEF PagerInvariant, OnAPage, pagerVars
<1> QED BY <1>6, <1>7, <1>8, <1>9, <1>10, <1>11, <1>12, <1>13, <1>14 DEF PagerNext

------------------------------------------------------------------------------
(* What the page holds.  `k` pages come before this one.                   *)

(* A page before the last is full and items come after it.                 *)
LEMMA BeforeTheLast ==
  ASSUME NEW k \in Nat, NEW s \in Nat \ {0}, IsPage(page, k, s), totalItems \in 0 .. MaxItems,
         k + 1 < CalculateTotalPages(totalItems, s)
  PROVE  /\ OnPage = k * s .. k * s + s - 1
         /\ After # {}
<1> DEFINE t == CalculateTotalPages(totalItems, s)
<1>1. page.start = k * s /\ page.end = k * s + s /\ k * s \in Nat
  BY NumberOfPage
<1>2. totalItems \in Nat /\ MaxItems \in Nat
  BY PaginationAssumption
<1>3. totalItems > 0
  BY <1>2 DEF CalculateTotalPages
<1>4. t \in Nat /\ (t - 1) * s < totalItems
  BY <1>2, <1>3, TotalPages
<1> HIDE DEF t
<1>5. k + 1 <= t - 1
  BY <1>4 DEF t
<1>6. (k + 1) * s <= (t - 1) * s /\ (t - 1) * s \in Int
  BY <1>4, <1>5, TimesAtMost
<1>7. (k + 1) * s = k * s + s
  BY SMT
<1>8. k * s + s < totalItems
  BY <1>1, <1>2, <1>4, <1>6, <1>7
<1>9. OnPage = k * s .. k * s + s - 1
  BY <1>1, <1>2, <1>8 DEF OnPage
<1>10. k * s + s \in After
  BY <1>1, <1>2, <1>8 DEF After
<1> QED BY <1>9, <1>10

(* The last page holds the rest; a page beyond it holds nothing.           *)
LEMMA FromTheLastOn ==
  ASSUME NEW k \in Nat, NEW s \in Nat \ {0}, IsPage(page, k, s), totalItems \in 0 .. MaxItems,
         k + 1 >= CalculateTotalPages(totalItems, s)
  PROVE  /\ OnPage = k * s .. totalItems - 1
         /\ OnPage # {} => k + 1 = CalculateTotalPages(totalItems, s)
         /\ After = {}
<1> DEFINE t == CalculateTotalPages(totalItems, s)
<1>1. page.start = k * s /\ page.end = k * s + s /\ k * s \in Nat
  BY NumberOfPage
<1>2. totalItems \in Nat /\ MaxItems \in Nat
  BY PaginationAssumption
<1>3. t \in Nat /\ totalItems <= t * s
  BY <1>2, TotalPages
<1>4. t <= k + 1
  BY <1>3
<1> HIDE DEF t
<1>5. t * s <= (k + 1) * s /\ t * s \in Int
  BY <1>3, <1>4, TimesAtMost
<1>6. (k + 1) * s = k * s + s
  BY SMT
<1>7. totalItems <= k * s + s
  BY <1>1, <1>2, <1>3, <1>5, <1>6
<1>8. OnPage = k * s .. totalItems - 1
  BY <1>1, <1>2, <1>7 DEF OnPage
<1>9. After = {}
  BY <1>1, <1>2, <1>7 DEF After
<1>10. ASSUME OnPage # {} PROVE k + 1 = t
  <2>1. k * s < totalItems
    BY <1>1, <1>2, <1>8, <1>10
  <2>2. k * s < t * s
    BY <1>1, <1>2, <1>3, <1>5, <2>1
  <2>3. k < t
    BY <1>3, <2>2, TimesBelow
  <2> QED BY <1>3, <1>4, <2>3
<1> QED BY <1>8, <1>9, <1>10 DEF t

(* Hence the counts of the page are right,                                 *)
LEMMA PageCounts ==
  ASSUME NEW k \in Nat, NEW s \in Nat \ {0}, IsPage(page, k, s), totalItems \in 0 .. MaxItems
  PROVE  /\ OnPage # {} => GetPageItems(page, totalItems) = Cardinality(OnPage)
         /\ IsLastPage(page, totalItems) <=> After = {}
<1> DEFINE t == CalculateTotalPages(totalItems, s)
<1>2. /\ GetPageNumber(page) = k + 1
      /\ page.start = k * s /\ page.size = s /\ k * s \in Nat
  BY NumberOfPage
<1>3. totalItems \in 0 .. MaxItems /\ totalItems \in Nat
  BY PaginationAssumption
<1>4. t \in Nat
  BY <1>3, TotalPages
<1>5. IsLastPage(page, totalItems) <=> k + 1 >= t
  BY <1>2 DEF IsLastPage
<1>6. IsLastPage(page, totalItems) <=> After = {}
  BY <1>3, <1>4, <1>5, BeforeTheLast, FromTheLastOn
<1>7. ASSUME OnPage # {} PROVE GetPageItems(page, totalItems) = Cardinality(OnPage)
  <2>1. CASE k + 1 < t
    <3>1. OnPage = k * s .. k * s + s - 1
      BY <1>3, <2>1, BeforeTheLast
    <3>2. Cardinality(OnPage) = s
      <4>1. Cardinality(k * s .. k * s + s - 1)
              = IF k * s > k * s + s - 1 THEN 0 ELSE (k * s + s - 1) - k * s + 1
        BY <1>2, FS_Interval
      <4> QED BY <3>1, <4>1, <1>2
    <3>3. ~IsLastPage(page, totalItems)
      BY <1>4, <1>5, <2>1
    <3> QED BY <1>2, <3>2, <3>3 DEF GetPageItems
  <2>2. CASE k + 1 >= t
    <3>1. OnPage = k * s .. totalItems - 1 /\ k + 1 = t
      BY <1>3, <1>7, <2>2, FromTheLastOn
    <3>2. k * s < totalItems
      BY <1>2, <1>3, <1>7, <3>1
    <3>3. Cardinality(OnPage) = totalItems - k * s
      <4>1. Cardinality(k * s .. totalItems - 1)
              = IF k * s > totalItems - 1 THEN 0 ELSE (totalItems - 1) - k * s + 1
        BY <1>2, <1>3, FS_Interval
      <4> QED BY <3>1, <3>2, <4>1, <1>2, <1>3
    <3>4. totalItems > 0
      BY <1>2, <1>3, <3>2
    <3>5. t - 1 = k
      BY <3>1, <1>4
    <3>6. totalItems % s \in 0 .. s - 1
      BY <1>3, Quotient
    <3>7. /\ totalItems % s > 0 => totalItems = k * s + (totalItems % s)
          /\ totalItems % s = 0 => totalItems = k * s + s
      BY <1>3, <3>4, <3>5, TotalPages
    <3>8. GetPageItems(page, totalItems) = IF totalItems % s = 0 THEN s ELSE totalItems % s
      BY <1>2, <1>5, <2>2, <3>4 DEF GetPageItems
    <3> HIDE DEF t
    <3> QED BY <1>2, <1>3, <3>3, <3>6, <3>7, <3>8
  <2> QED BY <1>4, <2>1, <2>2
<1> QED BY <1>6, <1>7

(* those of page 0 of no items among them.                                 *)
LEMMA PageZeroCounts ==
  ASSUME NEW s \in Nat \ {0}, IsPage(page, -1, s), totalItems = 0
  PROVE  OnPage = {} /\ After = {} /\ IsLastPage(page, totalItems)
<1>1. -1 \in Int /\ ~(-1 \in Nat)
  OBVIOUS
<1>2. GetPageNumber(page) = 0 /\ page.size = s
  BY <1>1, NumberOfPage
<1>3. IsLastPage(page, totalItems)
  BY <1>2 DEF IsLastPage, CalculateTotalPages
<1>4. MaxItems \in Nat
  BY PaginationAssumption
<1>5. \A n \in 0 .. MaxItems - 1 : ~(n < totalItems)
  BY <1>4
<1> QED BY <1>3, <1>5 DEF OnPage, After

(* and only this one starts below zero.                                    *)
LEMMA PagesCount == PagerInvariant => PagesCountEveryItem
<1> SUFFICES ASSUME PagerInvariant PROVE PagesCountEveryItem
  OBVIOUS
<1>1. PICK k \in Int, s \in Nat :
        IsPage(page, k, s) /\ (k \in Nat \/ (k = -1 /\ totalItems = 0))
  BY DEF PagerInvariant, OnAPage
<1>2. page.start = k * s /\ page.end = k * s + s /\ page.size = s
  BY <1>1 DEF IsPage
<1>3. totalItems \in 0 .. MaxItems
  BY DEF PagerInvariant
<1>4. ASSUME ~Empty
      PROVE  /\ OnPage # {} => GetPageItems(page, totalItems) = Cardinality(OnPage)
             /\ IsLastPage(page, totalItems) <=> After = {}
  <2>1. s \in Nat \ {0}
    BY <1>2, <1>4 DEF Empty
  <2>2. CASE k \in Nat
    BY <1>1, <1>3, <2>1, <2>2, PageCounts
  <2>3. CASE k = -1 /\ totalItems = 0
    BY <1>1, <2>1, <2>3, PageZeroCounts
  <2> QED BY <1>1, <2>2, <2>3
<1>5. ASSUME page.start < 0
      PROVE  totalItems = 0 /\ page.end = 0
  <2>1. k \in Nat => k * s \in Nat
    BY SMT
  <2>2. k = -1 => k * s + s = 0
    BY SMT
  <2> QED BY <1>1, <1>2, <1>5, <2>1, <2>2
<1> QED BY <1>4, <1>5 DEF PagesCountEveryItem, PagerInvariant

------------------------------------------------------------------------------
(* The walk never leaves the pages: the start of the current page is a     *)
(* whole number of pages, negative only for the last page of no items, and *)
(* its size is at least one if a request made it                           *)
(* (pagination_testing.go).                                                *)
THEOREM PagerInvariantHolds == PagerSpec => []PagerInvariant
<1> QED BY InitOnAPage, StepsStayOnPages, PTL DEF PagerSpec

(* Wherever the walk has got to, GetPageItems counts the items on the page *)
(* and IsLastPage is true just when none comes after it, for every number  *)
(* of items, none included, and every size of a page but 0; and no page    *)
(* that a request made divides by zero.                                    *)
THEOREM PagesCounted == PagerSpec => []PagesCountEveryItem
<1> QED BY PagerInvariantHolds, PagesCount, PTL
=============================================================================
