----------------------- MODULE TransactionHelperProofs -----------------------
(***************************************************************************)
(* Proofs about TransactionHelper, for any clients sharing the context,    *)
(* any methods, any script of the test and any number of calls.            *)
(*                                                                         *)
(* The argument is one of exposure: a client is exposed from its reading   *)
(* the mock's slice to tell it something until it is answered.  As long as *)
(* a client was never exposed together with another, what it read is what  *)
(* is there, so what it told is unmet when it calls.  Counting the unmet   *)
(* expectations of a kind, there is exactly one more than the test asked   *)
(* for while a call is pending, and none more otherwise.                   *)
(***************************************************************************)
EXTENDS TransactionHelper, CountingLemmas

InHelper == {"tell", "telling", "told", "calling"}

(* What the place a client is at says of its transaction and its result.   *)
Phase(c) ==
  /\ pc[c] # "idle" => result[c] = None
  /\ pc[c] # "idle" => method[c] \in AllMethods
  /\ pc[c] = "idle" => tx[c] # "open"
  /\ pc[c] = "fn" => tx[c] # "none"
  /\ pc[c] = "calling" => tx[c] # "done"
  /\ pc[c] \in InHelper /\ wants[c] = "begin" => tx[c] = "none" /\ ~fnErr[c]
  /\ pc[c] \in InHelper /\ wants[c] # "begin" =>
       tx[c] # "none" /\ wants[c] = EndOf(method[c], fnErr[c])
  /\ tx[c] # "done" => commits[c] = 0
  /\ tx[c] = "done" /\ ~endedByFn => pc[c] = "idle"

PhasesAgree == \A c \in Clients : Phase(c)

(* Two clients are exposed together only after each was disturbed.         *)
ExposedAlone ==
  \A c, d \in Clients : c # d /\ Exposed(c) /\ Exposed(d) => disturbed[c]

(* An undisturbed client works on the slice as it is ...                   *)
SeenIsCurrent ==
  \A c \in Clients :
    pc[c] \in {"telling", "calling"} /\ ~disturbed[c] => seen[c] = expected

(* ... in which the expectation it told the mock of is still unmet.        *)
UnmetOf(kind) ==
  {n \in DOMAIN expected : made[expected[n]].kind = kind /\ ~made[expected[n]].met}

ToldIsUnmet ==
  \A c \in Clients :
    pc[c] \in {"told", "calling"} /\ ~disturbed[c] => UnmetOf(wants[c]) # {}

(* No expectation is twice in a slice.                                     *)
Distinct(slice) == \A m, n \in DOMAIN slice : slice[m] = slice[n] => m = n

SlicesAreDistinct ==
  /\ Distinct(expected)
  /\ \A c \in Clients : Distinct(seen[c])

AskedFor(kind) == {n \in DOMAIN script : script[n].kind = kind}
Pending(kind) == \E c \in Clients : pc[c] \in {"told", "calling"} /\ wants[c] = kind

(* While no client was ever disturbed and no fn ended a transaction, one   *)
(* expectation more than the test asked for is unmet exactly while a call  *)
(* is pending.                                                             *)
OnePendingMore ==
  (\A c \in Clients : ~disturbed[c]) /\ ~endedByFn =>
    \A kind \in Kinds :
      Cardinality(UnmetOf(kind))
        = Cardinality(AskedFor(kind)) + (IF Pending(kind) THEN 1 ELSE 0)

IInv ==
  /\ TypeOK
  /\ script \in Scripts
  /\ PhasesAgree
  /\ ExposedAlone
  /\ SeenIsCurrent
  /\ ToldIsUnmet
  /\ SlicesAreDistinct
  /\ OnePendingMore
  /\ UndisturbedNeverRejected
  /\ OutcomeIsHonest

------------------------------------------------------------------------------
(* What a call answered from a slice gets and does: rejected, it changes   *)
(* nothing and no expectation of its kind was unmet; answered, it meets    *)
(* one of them.                                                            *)
LEMMA Answering ==
  ASSUME made \in Seq(Expectations), NEW slice \in Seq(DOMAIN made),
         NEW kind \in Kinds
  PROVE  LET call == Call(kind, None, None) IN
         /\ AnswerFrom(slice, call) \in {"rejected", "ok", "error"}
         /\ AnswerFrom(slice, call) = "rejected" =>
              /\ MetBy(slice, call) = made
              /\ \A n \in DOMAIN slice :
                   made[slice[n]].kind = kind => made[slice[n]].met
         /\ AnswerFrom(slice, call) # "rejected" =>
              \E n \in DOMAIN slice :
                /\ made[slice[n]].kind = kind
                /\ ~made[slice[n]].met
                /\ MetBy(slice, call) = [made EXCEPT ![slice[n]].met = TRUE]
<1> DEFINE call == Call(kind, None, None)
           queue == Queue(slice)
           cands == Candidates(queue, InOrder, call)
           first == FirstCandidate(queue, InOrder, call)
<1>1. /\ DOMAIN queue = DOMAIN slice
      /\ DOMAIN slice = 1 .. Len(slice)
      /\ Len(slice) \in Nat
      /\ \A n \in DOMAIN slice : /\ slice[n] \in DOMAIN made
                                 /\ queue[n] = made[slice[n]]
                                 /\ queue[n] \in Expectations
  BY LenProperties, ElementOfSeq DEF Queue
<1>2. ASSUME NEW e \in Expectations PROVE Covers(e, call) <=> e.kind = kind
  BY <1>2 DEF Covers, Call, Expectations, None
<1>3. cands = {n \in DOMAIN slice : made[slice[n]].kind = kind /\ ~made[slice[n]].met}
  <2>1. cands = {n \in Unmet(queue) : Covers(queue[n], call)}
    BY DEF Candidates, InOrder
  <2> QED
    BY <1>1, <1>2, <2>1 DEF Unmet
<1>4. cands # {} => first \in cands
  <2>1. cands \in SUBSET Nat
    BY <1>1, <1>3
  <2>2. first = Min(cands)
    BY DEF FirstCandidate
  <2> HIDE DEF cands, first
  <2> QED
    BY <2>1, <2>2, LeastExists DEF Min
<1>5. AnswerFrom(slice, call) = IF cands = {} THEN "rejected" ELSE queue[first].outcome
  BY DEF AnswerFrom, Answer
<1>6. cands # {} => queue[first].outcome \in {"ok", "error"}
  BY <1>1, <1>3, <1>4 DEF Expectations
<1>7. MetBy(slice, call) = IF AnswerFrom(slice, call) = "rejected" THEN made
                           ELSE [made EXCEPT ![slice[first]].met = TRUE]
  BY DEF MetBy
<1> HIDE DEF call, queue, cands, first
<1>8. AnswerFrom(slice, call) = "rejected" <=> cands = {}
  BY <1>5, <1>6
<1>9. CASE cands = {}
  BY <1>3, <1>5, <1>7, <1>9 DEF call
<1>10. CASE cands # {}
  <2>1. first \in DOMAIN slice /\ made[slice[first]].kind = kind /\ ~made[slice[first]].met
    BY <1>3, <1>4, <1>10
  <2>2. MetBy(slice, call) = [made EXCEPT ![slice[first]].met = TRUE]
    BY <1>7, <1>8, <1>10
  <2>3. AnswerFrom(slice, call) \in {"ok", "error"}
    BY <1>5, <1>6, <1>10
  <2> QED
    BY <2>1, <2>2, <2>3 DEF call
<1> QED
  BY <1>9, <1>10

(* What a call does to the expectations: nothing, or one of its kind that  *)
(* was unmet is met, and nothing else of any of them changes.              *)
LEMMA MeetingOne ==
  ASSUME made \in Seq(Expectations), NEW slice \in Seq(DOMAIN made),
         NEW kind \in Kinds
  PROVE  LET after == MetBy(slice, Call(kind, None, None)) IN
         /\ after \in Seq(Expectations)
         /\ DOMAIN after = DOMAIN made
         /\ \A i \in DOMAIN made : after[i].kind = made[i].kind
         /\ AnswerFrom(slice, Call(kind, None, None)) = "rejected" => after = made
         /\ AnswerFrom(slice, Call(kind, None, None)) # "rejected" =>
              \E n \in DOMAIN slice :
                /\ slice[n] \in DOMAIN made
                /\ made[slice[n]].kind = kind /\ ~made[slice[n]].met
                /\ after[slice[n]].met
                /\ \A i \in DOMAIN made : i # slice[n] => after[i] = made[i]
<1> DEFINE after == MetBy(slice, Call(kind, None, None))
<1>1. CASE AnswerFrom(slice, Call(kind, None, None)) = "rejected"
  <2>1. after = made
    BY <1>1, Answering
  <2> QED
    BY <1>1, <2>1
<1>2. CASE AnswerFrom(slice, Call(kind, None, None)) # "rejected"
  <2>1. PICK n \in DOMAIN slice :
          /\ made[slice[n]].kind = kind
          /\ ~made[slice[n]].met
          /\ after = [made EXCEPT ![slice[n]].met = TRUE]
    BY <1>2, Answering
  <2>2. slice[n] \in DOMAIN made
    BY ElementOfSeq, LenProperties
  <2>3. made[slice[n]] \in Expectations /\ DOMAIN made = 1 .. Len(made) /\ Len(made) \in Nat
    BY <2>2, ElementOfSeq, LenProperties
  <2> DEFINE e == [made[slice[n]] EXCEPT !.met = TRUE]
  <2>4. e \in Expectations /\ e.kind = made[slice[n]].kind /\ e.met
    BY <2>3 DEF Expectations
  <2>5. after = [made EXCEPT ![slice[n]] = e]
    BY <2>1
  <2> HIDE DEF e, after
  <2>6. after \in Seq(Expectations) /\ DOMAIN after = DOMAIN made
    BY <2>2, <2>3, <2>4, <2>5, ExceptSeq
  <2>7. after[slice[n]] = e /\ \A i \in DOMAIN made : i # slice[n] => after[i] = made[i]
    BY <2>2, <2>5
  <2> QED
    BY <1>2, <2>1, <2>2, <2>4, <2>6, <2>7 DEF after
<1> QED
  BY <1>1, <1>2

(* Nothing of OnePendingMore changes in a step that leaves the mock and    *)
(* the pending calls alone.                                                *)
LEMMA QuietStep ==
  ASSUME OnePendingMore, UNCHANGED <<made, expected, script>>,
         \A d \in Clients : disturbed[d] => disturbed'[d],
         endedByFn => endedByFn',
         \A d \in Clients : \/ pc'[d] = pc[d] /\ wants'[d] = wants[d]
                           \/ /\ pc[d] \notin {"told", "calling"}
                              /\ pc'[d] \notin {"told", "calling"}
                           \/ /\ pc[d] = "told" /\ pc'[d] = "calling"
                              /\ wants'[d] = wants[d]
  PROVE  OnePendingMore'
<1>1. ASSUME NEW kind \in Kinds
      PROVE  /\ UnmetOf(kind)' = UnmetOf(kind)
             /\ AskedFor(kind)' = AskedFor(kind)
             /\ Pending(kind)' <=> Pending(kind)
  BY DEF UnmetOf, AskedFor, Pending
<1> QED
  BY <1>1 DEF OnePendingMore

(* Calling the helper changes nothing of the mock.                         *)
LEMMA CallHelperPreserves ==
  ASSUME IInv, NEW c \in Clients, CallHelper(c)
  PROVE  IInv'
<1> USE DEF IInv
<1>1. TypeOK'
  BY TransactionHelperAssumption DEF TypeOK, Kinds, Results, Returns, None, mockVars, callVars, CallHelper
<1>2. PhasesAgree'
  BY TransactionHelperAssumption DEF TypeOK, PhasesAgree, Phase, InHelper, EndOf, Ends, None, mockVars, callVars, CallHelper
<1>3. ExposedAlone'
  BY DEF TypeOK, ExposedAlone, Exposed, mockVars, callVars, CallHelper
<1>4. SeenIsCurrent'
  BY DEF TypeOK, SeenIsCurrent, ExposedAlone, Exposed, mockVars, callVars, CallHelper
<1>5. ToldIsUnmet'
  <2>1. \A kind : UnmetOf(kind)' = UnmetOf(kind)
    BY DEF UnmetOf, mockVars, CallHelper
  <2> QED
    BY <2>1 DEF TypeOK, ToldIsUnmet, CallHelper
<1>6. SlicesAreDistinct'
  BY DEF TypeOK, SlicesAreDistinct, Distinct, mockVars, callVars, CallHelper
<1>7. OnePendingMore'
  BY QuietStep DEF TypeOK, mockVars, callVars, CallHelper
<1>8. UndisturbedNeverRejected'
  BY DEF TypeOK, UndisturbedNeverRejected, mockVars, callVars, CallHelper
<1>9. OutcomeIsHonest'
  BY DEF TypeOK, OutcomeIsHonest, PhasesAgree, Phase, InHelper, EndOf, Returns, None, mockVars, callVars, CallHelper
<1>10. script' \in Scripts
  BY DEF CallHelper
<1> QED
  BY <1>1, <1>2, <1>3, <1>4, <1>5, <1>6, <1>7, <1>8, <1>9, <1>10

(* Reading the slice, to append to it, disturbs whoever is exposed.        *)
LEMMA TellPreserves ==
  ASSUME IInv, NEW c \in Clients, Tell(c)
  PROVE  IInv'
<1> USE DEF IInv
<1>1. TypeOK'
  BY TransactionHelperAssumption DEF TypeOK, mockVars, callVars, Tell
<1>2. PhasesAgree'
  BY DEF TypeOK, PhasesAgree, Phase, InHelper, EndOf, Ends, None, mockVars, callVars, Tell
<1>3. ExposedAlone'
  BY DEF TypeOK, ExposedAlone, Exposed, mockVars, callVars, Tell
<1>4. SeenIsCurrent'
  BY DEF TypeOK, SeenIsCurrent, ExposedAlone, Exposed, mockVars, callVars, Tell
<1>5. ToldIsUnmet'
  BY DEF TypeOK, ToldIsUnmet, UnmetOf, mockVars, callVars, Tell
<1>6. SlicesAreDistinct'
  BY DEF TypeOK, SlicesAreDistinct, Distinct, mockVars, callVars, Tell
<1>7. OnePendingMore'
  BY QuietStep DEF TypeOK, mockVars, callVars, Tell
<1>8. UndisturbedNeverRejected'
  BY DEF TypeOK, UndisturbedNeverRejected, mockVars, callVars, Tell
<1>9. OutcomeIsHonest'
  BY DEF TypeOK, OutcomeIsHonest, PhasesAgree, Phase, InHelper, EndOf, Returns, None, mockVars, callVars, Tell
<1>10. script' \in Scripts
  BY DEF Tell
<1> QED
  BY <1>1, <1>2, <1>3, <1>4, <1>5, <1>6, <1>7, <1>8, <1>9, <1>10

(* Calling reads the slice as it is.                                       *)
LEMMA CallMockPreserves ==
  ASSUME IInv, NEW c \in Clients, CallMock(c)
  PROVE  IInv'
<1> USE DEF IInv
<1>1. TypeOK'
  BY TransactionHelperAssumption DEF TypeOK, mockVars, callVars, CallMock
<1>2. PhasesAgree'
  BY DEF TypeOK, PhasesAgree, Phase, InHelper, EndOf, Ends, None, mockVars, callVars, CallMock
<1>3. ExposedAlone'
  BY DEF TypeOK, ExposedAlone, Exposed, mockVars, callVars, CallMock
<1>4. SeenIsCurrent'
  BY DEF TypeOK, SeenIsCurrent, ExposedAlone, Exposed, mockVars, callVars, CallMock
<1>5. ToldIsUnmet'
  BY DEF TypeOK, ToldIsUnmet, UnmetOf, mockVars, callVars, CallMock
<1>6. SlicesAreDistinct'
  BY DEF TypeOK, SlicesAreDistinct, Distinct, mockVars, callVars, CallMock
<1>7. OnePendingMore'
  BY QuietStep DEF TypeOK, mockVars, callVars, CallMock
<1>8. UndisturbedNeverRejected'
  BY DEF TypeOK, UndisturbedNeverRejected, mockVars, callVars, CallMock
<1>9. OutcomeIsHonest'
  BY DEF TypeOK, OutcomeIsHonest, PhasesAgree, Phase, InHelper, EndOf, Returns, None, mockVars, callVars, CallMock
<1>10. script' \in Scripts
  BY DEF CallMock
<1> QED
  BY <1>1, <1>2, <1>3, <1>4, <1>5, <1>6, <1>7, <1>8, <1>9, <1>10

(* A refused end comes after an fn that ended its transaction.             *)
LEMMA EndRefusedPreserves ==
  ASSUME IInv, NEW c \in Clients, EndRefused(c)
  PROVE  IInv'
<1> USE DEF IInv
<1>1. TypeOK'
  BY TransactionHelperAssumption DEF TypeOK, Kinds, Results, Returns, None, mockVars, callVars, EndRefused
<1>2. PhasesAgree'
  BY DEF TypeOK, PhasesAgree, Phase, InHelper, EndOf, Ends, None, mockVars, callVars, EndRefused
<1>3. ExposedAlone'
  BY DEF TypeOK, ExposedAlone, Exposed, mockVars, callVars, EndRefused
<1>4. SeenIsCurrent'
  BY DEF TypeOK, SeenIsCurrent, ExposedAlone, Exposed, mockVars, callVars, EndRefused
<1>5. ToldIsUnmet'
  BY DEF TypeOK, ToldIsUnmet, UnmetOf, mockVars, callVars, EndRefused
<1>6. SlicesAreDistinct'
  BY DEF TypeOK, SlicesAreDistinct, Distinct, mockVars, callVars, EndRefused
<1>7. OnePendingMore'
  BY DEF OnePendingMore, PhasesAgree, Phase, EndRefused
<1>8. UndisturbedNeverRejected'
  BY DEF TypeOK, UndisturbedNeverRejected, mockVars, callVars, EndRefused
<1>9. OutcomeIsHonest'
  BY DEF TypeOK, OutcomeIsHonest, PhasesAgree, Phase, InHelper, EndOf, Returns, Ends, Kinds, AllMethods, None, mockVars, callVars, EndRefused
<1>10. script' \in Scripts
  BY DEF EndRefused
<1> QED
  BY <1>1, <1>2, <1>3, <1>4, <1>5, <1>6, <1>7, <1>8, <1>9, <1>10

(* What fn returns decides the end.                                        *)
LEMMA FnReturnsPreserves ==
  ASSUME IInv, NEW c \in Clients, NEW err \in BOOLEAN, FnReturns(c, err)
  PROVE  IInv'
<1> USE DEF IInv
<1>1. TypeOK'
  BY DEF TypeOK, Kinds, Ends, EndOf, mockVars, callVars, FnReturns
<1>2. PhasesAgree'
  BY DEF TypeOK, PhasesAgree, Phase, InHelper, EndOf, Ends, None, mockVars, callVars, FnReturns
<1>3. ExposedAlone'
  BY DEF TypeOK, ExposedAlone, Exposed, mockVars, callVars, FnReturns
<1>4. SeenIsCurrent'
  BY DEF TypeOK, SeenIsCurrent, ExposedAlone, Exposed, mockVars, callVars, FnReturns
<1>5. ToldIsUnmet'
  BY DEF TypeOK, ToldIsUnmet, UnmetOf, mockVars, callVars, FnReturns
<1>6. SlicesAreDistinct'
  BY DEF TypeOK, SlicesAreDistinct, Distinct, mockVars, callVars, FnReturns
<1>7. OnePendingMore'
  BY QuietStep DEF TypeOK, mockVars, callVars, FnReturns
<1>8. UndisturbedNeverRejected'
  BY DEF TypeOK, UndisturbedNeverRejected, mockVars, callVars, FnReturns
<1>9. OutcomeIsHonest'
  BY DEF TypeOK, OutcomeIsHonest, PhasesAgree, Phase, InHelper, EndOf, Returns, None, mockVars, callVars, FnReturns
<1>10. script' \in Scripts
  BY DEF FnReturns
<1> QED
  BY <1>1, <1>2, <1>3, <1>4, <1>5, <1>6, <1>7, <1>8, <1>9, <1>10

(* A client that is gone is in no phase.                                   *)
LEMMA FnPanicsPreserves ==
  ASSUME IInv, NEW c \in Clients, FnPanics(c)
  PROVE  IInv'
<1> USE DEF IInv
<1>1. TypeOK'
  BY TransactionHelperAssumption DEF TypeOK, mockVars, callVars, FnPanics
<1>2. PhasesAgree'
  BY DEF TypeOK, PhasesAgree, Phase, InHelper, EndOf, Ends, None, mockVars, callVars, FnPanics
<1>3. ExposedAlone'
  BY DEF TypeOK, ExposedAlone, Exposed, mockVars, callVars, FnPanics
<1>4. SeenIsCurrent'
  BY DEF TypeOK, SeenIsCurrent, ExposedAlone, Exposed, mockVars, callVars, FnPanics
<1>5. ToldIsUnmet'
  BY DEF TypeOK, ToldIsUnmet, UnmetOf, mockVars, callVars, FnPanics
<1>6. SlicesAreDistinct'
  BY DEF TypeOK, SlicesAreDistinct, Distinct, mockVars, callVars, FnPanics
<1>7. OnePendingMore'
  BY QuietStep DEF TypeOK, mockVars, callVars, FnPanics
<1>8. UndisturbedNeverRejected'
  BY DEF TypeOK, UndisturbedNeverRejected, mockVars, callVars, FnPanics
<1>9. OutcomeIsHonest'
  BY DEF TypeOK, OutcomeIsHonest, PhasesAgree, Phase, InHelper, EndOf, Returns, None, mockVars, callVars, FnPanics
<1>10. script' \in Scripts
  BY DEF FnPanics
<1> QED
  BY <1>1, <1>2, <1>3, <1>4, <1>5, <1>6, <1>7, <1>8, <1>9, <1>10

(* The new expectation is the last of the slice the client had read, and   *)
(* what others wrote there since is lost: they were disturbed.             *)
LEMMA ToldPreserves ==
  ASSUME IInv, NEW c \in Clients, Told(c)
  PROVE  IInv'
<1> USE DEF IInv
<1> DEFINE told == Expect(wants[c], None, None, "ok")
           new == Len(made) + 1
           last == Len(seen[c]) + 1
<1>1. /\ told \in Expectations
      /\ told.kind = wants[c] /\ ~told.met
  BY DEF Expect, Expectations, TypeOK, None
<1>2. /\ made' \in Seq(Expectations)
      /\ Len(made') = new
      /\ Len(made) \in Nat
      /\ DOMAIN made = 1 .. Len(made)
      /\ DOMAIN made' = 1 .. new
      /\ made'[new] = told
      /\ \A i \in DOMAIN made : made'[i] = made[i]
  <2>1. made \in Seq(Expectations) /\ made' = Append(made, told)
    BY DEF TypeOK, Told
  <2> HIDE DEF told
  <2> QED
    BY <1>1, <2>1, AppendProperties, LenProperties
<1>3. /\ seen[c] \in Seq(DOMAIN made)
      /\ Len(seen[c]) \in Nat
      /\ DOMAIN seen[c] = 1 .. Len(seen[c])
      /\ \A n \in DOMAIN seen[c] : seen[c][n] \in DOMAIN made
  BY LenProperties, ElementOfSeq DEF TypeOK
<1>4. /\ expected' \in Seq(DOMAIN made')
      /\ DOMAIN expected' = 1 .. last
      /\ expected'[last] = new
      /\ \A n \in DOMAIN seen[c] : expected'[n] = seen[c][n]
  <2>1. seen[c] \in Seq(DOMAIN made') /\ new \in DOMAIN made'
    BY <1>2, <1>3, SeqMonotonic
  <2>2. expected' = Append(seen[c], new)
    BY <1>2 DEF Told
  <2> QED
    BY <1>3, <2>1, <2>2, AppendProperties, LenProperties
<1> HIDE DEF told, new, last
<1>5. ASSUME NEW d \in Clients, d # c, Exposed(d) PROVE disturbed[d]
  BY <1>5 DEF ExposedAlone, Exposed, Told
<1>6. TypeOK'
  <2>1. \A d \in Clients : seen[d] \in Seq(DOMAIN made')
    BY <1>2, SeqMonotonic DEF TypeOK, new
  <2>2. seen' \in [Clients -> Seq(DOMAIN made')]
    BY <2>1 DEF TypeOK, Told
  <2>3. pc' \in [Clients -> {"idle", "tell", "telling", "told", "calling", "fn", "gone"}]
    BY DEF TypeOK, Told
  <2> QED
    BY <1>2, <1>4, <2>2, <2>3 DEF TypeOK, callVars, Told
<1>7. PhasesAgree'
  BY DEF TypeOK, PhasesAgree, Phase, InHelper, EndOf, callVars, Told
<1>8. ExposedAlone'
  BY DEF TypeOK, ExposedAlone, Exposed, Told
<1>9. SeenIsCurrent'
  BY <1>5 DEF TypeOK, SeenIsCurrent, Exposed, Told
<1>10. ToldIsUnmet'
  <2>1. last \in UnmetOf(wants[c])'
    BY <1>1, <1>2, <1>3, <1>4 DEF UnmetOf, last, Told
  <2>2. ASSUME NEW d \in Clients, d # c, pc'[d] \in {"told", "calling"}
        PROVE  disturbed'[d]
    BY <1>5, <2>2 DEF TypeOK, Exposed, Told
  <2> QED
    BY <2>1, <2>2 DEF TypeOK, ToldIsUnmet, Told
<1>11. SlicesAreDistinct'
  <2>1. Distinct(seen[c])
    BY DEF SlicesAreDistinct
  <2>2. Distinct(expected)'
    <3> SUFFICES ASSUME NEW m \in DOMAIN expected', NEW n \in DOMAIN expected',
                        expected'[m] = expected'[n]
                 PROVE  m = n
      BY DEF Distinct
    <3>1. \A k \in DOMAIN expected' : k \in DOMAIN seen[c] \/ k = last
      BY <1>3, <1>4 DEF last
    <3>2. \A k \in DOMAIN seen[c] : expected'[k] # new /\ expected'[k] = seen[c][k]
      BY <1>2, <1>3, <1>4 DEF new
    <3> QED
      BY <1>4, <2>1, <3>1, <3>2 DEF Distinct
  <2>3. ASSUME NEW d \in Clients PROVE Distinct(seen[d])'
    <3>1. CASE d = c
      BY <3>1 DEF TypeOK, Distinct, Told
    <3>2. CASE d # c
      BY <3>2 DEF TypeOK, SlicesAreDistinct, Distinct, Told
    <3> QED
      BY <3>1, <3>2
  <2> QED
    BY <2>2, <2>3 DEF SlicesAreDistinct
<1>12. OnePendingMore'
  <2> SUFFICES ASSUME \A d \in Clients : ~disturbed[d], ~endedByFn, NEW kind \in Kinds
               PROVE  Cardinality(UnmetOf(kind)')
                        = Cardinality(AskedFor(kind)) + (IF Pending(kind)' THEN 1 ELSE 0)
    BY DEF OnePendingMore, AskedFor, Told
  <2>1. seen[c] = expected
    BY DEF SeenIsCurrent, Told
  <2>2. ~Pending(kind)
    BY <1>5 DEF Pending, Exposed, Told
  <2>3. Pending(kind)' <=> kind = wants[c]
    BY <1>5 DEF TypeOK, Pending, Exposed, Told
  <2>4. /\ Cardinality(UnmetOf(kind)) = Cardinality(AskedFor(kind))
        /\ IsFiniteSet(UnmetOf(kind))
        /\ Cardinality(UnmetOf(kind)) \in Nat
    <3>1. IsFiniteSet(UnmetOf(kind)) /\ Cardinality(UnmetOf(kind)) \in Nat
      BY PositionsFinite DEF UnmetOf, TypeOK
    <3>2. Cardinality(AskedFor(kind)) \in Nat
      BY PositionsFinite, TransactionHelperAssumption DEF AskedFor
    <3>3. Cardinality(UnmetOf(kind)) = Cardinality(AskedFor(kind)) + 0
      BY <2>2 DEF OnePendingMore
    <3> QED
      BY <3>1, <3>2, <3>3
  <2>5. ASSUME NEW n \in DOMAIN expected
        PROVE  n \in UnmetOf(kind)' <=> n \in UnmetOf(kind)
    BY <1>2, <1>3, <1>4, <2>1 DEF UnmetOf, last
  <2>6. DOMAIN expected' = DOMAIN expected \cup {last} /\ last \notin DOMAIN expected
    BY <1>3, <1>4, <2>1 DEF last
  <2>7. last \in UnmetOf(kind)' <=> kind = wants[c]
    BY <1>1, <1>2, <1>4, <2>6 DEF UnmetOf
  <2>8. UnmetOf(kind)' \subseteq DOMAIN expected' /\ UnmetOf(kind) \subseteq DOMAIN expected
    BY DEF UnmetOf
  <2>9. CASE kind = wants[c]
    <3>1. UnmetOf(kind)' = UnmetOf(kind) \cup {last} /\ last \notin UnmetOf(kind)
      BY <2>5, <2>6, <2>7, <2>8, <2>9
    <3> QED
      BY <2>3, <2>4, <2>9, <3>1, FS_AddElement
  <2>10. CASE kind # wants[c]
    <3>1. UnmetOf(kind)' = UnmetOf(kind)
      BY <2>5, <2>6, <2>7, <2>8, <2>10
    <3> QED
      BY <2>3, <2>4, <2>10, <3>1
  <2> QED
    BY <2>9, <2>10
<1>13. UndisturbedNeverRejected'
  BY DEF UndisturbedNeverRejected, Told
<1>14. OutcomeIsHonest'
  BY DEF TypeOK, OutcomeIsHonest, callVars, Told
<1>15. script' \in Scripts
  BY DEF Told
<1> QED
  BY <1>6, <1>7, <1>8, <1>9, <1>10, <1>11, <1>12, <1>13, <1>14, <1>15

(* An undisturbed client is answered by an expectation of its kind, which  *)
(* is the one more that was unmet.                                         *)
LEMMA AnsweredPreserves ==
  ASSUME IInv, NEW c \in Clients, Answered(c)
  PROVE  IInv'
<1> USE DEF IInv
<1> DEFINE answer == AnswerFrom(seen[c], Call(wants[c], None, None))
           begun == wants[c] = "begin" /\ answer = "ok"
<1>1. made \in Seq(Expectations) /\ seen[c] \in Seq(DOMAIN made) /\ wants[c] \in Kinds
  BY DEF TypeOK
<1>2. /\ answer \in {"rejected", "ok", "error"}
      /\ answer = "rejected" =>
           \A n \in DOMAIN seen[c] : made[seen[c][n]].kind = wants[c] => made[seen[c][n]].met
  BY <1>1, Answering
<1>3. /\ made' \in Seq(Expectations)
      /\ DOMAIN made' = DOMAIN made
      /\ \A i \in DOMAIN made : made'[i].kind = made[i].kind
      /\ answer = "rejected" => made' = made
      /\ answer # "rejected" =>
           \E n \in DOMAIN seen[c] :
             /\ seen[c][n] \in DOMAIN made
             /\ made[seen[c][n]].kind = wants[c] /\ ~made[seen[c][n]].met
             /\ made'[seen[c][n]].met
             /\ \A i \in DOMAIN made : i # seen[c][n] => made'[i] = made[i]
  BY <1>1, MeetingOne DEF Answered
<1>4. /\ pc[c] = "calling"
      /\ rejected' = [rejected EXCEPT ![c] = @ \/ answer = "rejected"]
      /\ pc' = [pc EXCEPT ![c] = IF begun THEN "fn" ELSE "idle"]
      /\ tx' = [tx EXCEPT ![c] = IF begun THEN "open"
                                 ELSE IF wants[c] \in Ends THEN "done" ELSE @]
      /\ result' = [result EXCEPT ![c] = IF begun THEN @
                                         ELSE IF wants[c] = "begin" THEN "begin_error"
                                         ELSE Returns(c, answer)]
      /\ commits' = [commits EXCEPT ![c] =
                       IF wants[c] = "commit" /\ answer = "ok" THEN @ + 1 ELSE @]
      /\ seen' = [seen EXCEPT ![c] = <<>>]
      /\ UNCHANGED <<expected, wants, disturbed, endedByFn, method, fnErr, calls, script>>
  BY DEF Answered
<1> HIDE DEF answer
<1>5. ASSUME NEW d \in Clients, d # c, Exposed(d) PROVE disturbed[d]
  BY <1>4, <1>5 DEF ExposedAlone, Exposed
<1>6. tx[c] # "done" /\ commits[c] = 0
  BY <1>4 DEF PhasesAgree, Phase
<1>7. TypeOK'
  <2>1. pc' \in [Clients -> {"idle", "tell", "telling", "told", "calling", "fn", "gone"}]
    BY <1>4 DEF TypeOK
  <2>2. tx' \in [Clients -> {"none", "open", "done"}]
    BY <1>4 DEF TypeOK
  <2>3. result' \in [Clients -> Results]
    BY <1>4 DEF TypeOK, Results, Returns
  <2>4. commits' \in [Clients -> 0 .. 1]
    BY <1>4, <1>6 DEF TypeOK
  <2>5. rejected' \in [Clients -> BOOLEAN]
    BY <1>4 DEF TypeOK
  <2>6. seen' \in [Clients -> Seq(DOMAIN made')]
    BY <1>3, <1>4 DEF TypeOK
  <2> QED
    BY <1>3, <1>4, <2>1, <2>2, <2>3, <2>4, <2>5, <2>6 DEF TypeOK
<1>8. PhasesAgree'
  BY <1>1, <1>4 DEF TypeOK, PhasesAgree, Phase, InHelper, EndOf, Ends, Kinds
<1>9. ExposedAlone'
  BY <1>4 DEF TypeOK, ExposedAlone, Exposed
<1>10. SeenIsCurrent'
  BY <1>4, <1>5 DEF TypeOK, SeenIsCurrent, Exposed
<1>11. ToldIsUnmet'
  BY <1>4, <1>5 DEF TypeOK, ToldIsUnmet, Exposed
<1>12. SlicesAreDistinct'
  <2>1. Distinct(expected)'
    BY <1>4 DEF SlicesAreDistinct, Distinct
  <2>2. ASSUME NEW d \in Clients PROVE Distinct(seen[d])'
    <3>1. CASE d = c
      BY <1>4, <3>1 DEF TypeOK, Distinct
    <3>2. CASE d # c
      BY <1>4, <3>2 DEF TypeOK, SlicesAreDistinct, Distinct
    <3> QED
      BY <3>1, <3>2
  <2> QED
    BY <2>1, <2>2 DEF SlicesAreDistinct
<1>13. ~disturbed[c] => seen[c] = expected /\ answer # "rejected"
  <2> SUFFICES ASSUME ~disturbed[c] PROVE seen[c] = expected /\ answer # "rejected"
    OBVIOUS
  <2>1. seen[c] = expected
    BY <1>4 DEF SeenIsCurrent
  <2>2. PICK n \in DOMAIN expected :
          made[expected[n]].kind = wants[c] /\ ~made[expected[n]].met
    BY <1>4 DEF ToldIsUnmet, UnmetOf
  <2> QED
    BY <1>2, <2>1, <2>2
<1>14. OnePendingMore'
  <2> SUFFICES ASSUME \A d \in Clients : ~disturbed[d], ~endedByFn, NEW kind \in Kinds
               PROVE  Cardinality(UnmetOf(kind)')
                        = Cardinality(AskedFor(kind)) + (IF Pending(kind)' THEN 1 ELSE 0)
    BY <1>4 DEF OnePendingMore, AskedFor
  <2>1. PICK n \in DOMAIN expected :
          /\ expected[n] \in DOMAIN made
          /\ made[expected[n]].kind = wants[c] /\ ~made[expected[n]].met
          /\ made'[expected[n]].met
          /\ \A i \in DOMAIN made : i # expected[n] => made'[i] = made[i]
    BY <1>3, <1>13
  <2>2. Pending(kind) <=> kind = wants[c]
    BY <1>4, <1>5 DEF Pending, Exposed
  <2>3. ~Pending(kind)'
    BY <1>4, <1>5 DEF TypeOK, Pending, Exposed
  <2>4. /\ IsFiniteSet(UnmetOf(kind)) /\ Cardinality(UnmetOf(kind)) \in Nat
        /\ IsFiniteSet(AskedFor(kind)) /\ Cardinality(AskedFor(kind)) \in Nat
        /\ Cardinality(UnmetOf(kind))
             = Cardinality(AskedFor(kind)) + (IF Pending(kind) THEN 1 ELSE 0)
    BY PositionsFinite, TransactionHelperAssumption DEF OnePendingMore, UnmetOf, AskedFor, TypeOK
  <2>5. ASSUME NEW m \in DOMAIN expected, m # n
        PROVE  m \in UnmetOf(kind)' <=> m \in UnmetOf(kind)
    <3>1. expected[m] \in DOMAIN made /\ expected[m] # expected[n]
      BY <2>5, ElementOfSeq, LenProperties DEF TypeOK, SlicesAreDistinct, Distinct
    <3> QED
      BY <1>4, <2>1, <3>1 DEF UnmetOf
  <2>6. n \notin UnmetOf(kind)' /\ (n \in UnmetOf(kind) <=> kind = wants[c])
    BY <1>4, <2>1 DEF UnmetOf
  <2>7. UnmetOf(kind)' \subseteq DOMAIN expected /\ UnmetOf(kind) \subseteq DOMAIN expected
    BY <1>4 DEF UnmetOf
  <2>8. CASE kind = wants[c]
    <3>1. UnmetOf(kind)' = UnmetOf(kind) \ {n} /\ n \in UnmetOf(kind)
      BY <2>5, <2>6, <2>7, <2>8
    <3>2. Cardinality(UnmetOf(kind)') = Cardinality(UnmetOf(kind)) - 1
      BY <2>4, <3>1, FS_RemoveElement
    <3>3. Cardinality(UnmetOf(kind)) = Cardinality(AskedFor(kind)) + 1
      BY <2>2, <2>4, <2>8
    <3>4. (IF Pending(kind)' THEN 1 ELSE 0) = 0
      BY <2>3
    <3> QED
      BY <2>4, <3>2, <3>3, <3>4
  <2>9. CASE kind # wants[c]
    <3>1. UnmetOf(kind)' = UnmetOf(kind)
      BY <2>5, <2>6, <2>7, <2>9
    <3> QED
      BY <2>2, <2>3, <2>4, <2>9, <3>1
  <2> QED
    BY <2>8, <2>9
<1>15. UndisturbedNeverRejected'
  BY <1>4, <1>13 DEF TypeOK, UndisturbedNeverRejected
<1>16. OutcomeIsHonest'
  BY <1>1, <1>2, <1>4, <1>6
  DEF TypeOK, OutcomeIsHonest, PhasesAgree, Phase, InHelper, EndOf, Returns, Ends, Kinds, AllMethods, None
<1>17. script' \in Scripts
  BY <1>4
<1> QED
  BY <1>7, <1>8, <1>9, <1>10, <1>11, <1>12, <1>14, <1>15, <1>16, <1>17

(* An fn that ends its transaction itself disturbs whoever is exposed.     *)
LEMMA FnEndsPreserves ==
  ASSUME IInv, NEW c \in Clients, NEW end \in Ends, FnEnds(c, end)
  PROVE  IInv'
<1> USE DEF IInv
<1>1. /\ made' \in Seq(Expectations)
      /\ DOMAIN made' = DOMAIN made
  <2>1. end \in Kinds
    BY DEF Kinds
  <2> QED
    BY <2>1, MeetingOne DEF TypeOK, FnEnds
<1>2. /\ pc[c] = "fn" /\ tx[c] = "open" /\ endedByFn'
      /\ tx' = [tx EXCEPT ![c] = "done"]
      /\ commits' = commits \/ commits' = [commits EXCEPT ![c] = @ + 1]
      /\ disturbed' = [d \in Clients |-> disturbed[d] \/ Exposed(d)]
      /\ UNCHANGED <<expected, pc, seen, wants, rejected, callVars, script>>
  <2>1. [commits EXCEPT ![c] = commits[c]] = commits
    BY DEF TypeOK
  <2> QED
    BY <2>1 DEF FnEnds
<1>3. commits[c] = 0
  BY <1>2 DEF PhasesAgree, Phase
<1>4. TypeOK'
  BY <1>1, <1>2, <1>3 DEF TypeOK, callVars, FnEnds
<1>5. PhasesAgree'
  BY <1>2 DEF TypeOK, PhasesAgree, Phase, InHelper, EndOf, callVars
<1>6. ExposedAlone' /\ SeenIsCurrent' /\ ToldIsUnmet'
  <2>1. \A d \in Clients : Exposed(d) => disturbed'[d]
    BY <1>2
  <2> QED
    BY <1>2, <2>1 DEF ExposedAlone, SeenIsCurrent, ToldIsUnmet, Exposed
<1>7. SlicesAreDistinct'
  BY <1>2 DEF SlicesAreDistinct, Distinct
<1>8. OnePendingMore'
  BY <1>2 DEF OnePendingMore
<1>9. UndisturbedNeverRejected'
  BY <1>2 DEF TypeOK, UndisturbedNeverRejected
<1>10. OutcomeIsHonest'
  BY <1>2 DEF TypeOK, OutcomeIsHonest, callVars
<1>11. script' \in Scripts
  BY <1>2
<1> QED
  BY <1>4, <1>5, <1>6, <1>7, <1>8, <1>9, <1>10, <1>11

------------------------------------------------------------------------------
(* The mock starts with what the test told it, and nobody in the helper.   *)
LEMMA InitHolds ==
  ASSUME Init
  PROVE  IInv
<1>1. /\ script \in Seq([kind : Kinds, outcome : {"ok", "error"}])
      /\ Len(script) \in Nat /\ DOMAIN script = 1 .. Len(script)
  BY TransactionHelperAssumption, LenProperties DEF Init
<1>2. ASSUME NEW n \in DOMAIN script
      PROVE  /\ script[n].kind \in Kinds
             /\ made[n].kind = script[n].kind /\ ~made[n].met
             /\ made[n] \in Expectations
  <2>1. script[n] \in [kind : Kinds, outcome : {"ok", "error"}]
    BY <1>1, ElementOfSeq
  <2> QED
    BY <2>1 DEF Init, Expect, Expectations, None
<1>3. made \in Seq(Expectations) /\ DOMAIN made = DOMAIN script
  BY <1>1, <1>2, IsASeq DEF Init
<1>4. expected \in Seq(DOMAIN made) /\ \A n \in DOMAIN expected : expected[n] = n
  BY <1>1, <1>3, IsASeq DEF Init
<1>5. TypeOK
  <2>1. seen \in [Clients -> Seq(DOMAIN made)]
    BY DEF Init
  <2>2. calls \in 0 .. MaxCalls
    BY TransactionHelperAssumption DEF Init
  <2>3. /\ pc \in [Clients -> {"idle", "tell", "telling", "told", "calling", "fn", "gone"}]
        /\ wants \in [Clients -> Kinds]
        /\ method \in [Clients -> AllMethods \cup {None}]
        /\ fnErr \in [Clients -> BOOLEAN]
        /\ tx \in [Clients -> {"none", "open", "done"}]
    BY DEF Init, Kinds
  <2>4. /\ result \in [Clients -> Results]
        /\ commits \in [Clients -> 0 .. 1]
    BY DEF Init, Results
  <2>5. rejected \in [Clients -> BOOLEAN] /\ disturbed \in [Clients -> BOOLEAN]
    BY DEF Init
  <2>6. endedByFn \in BOOLEAN
    BY DEF Init
  <2> QED
    BY <1>3, <1>4, <2>1, <2>2, <2>3, <2>4, <2>5, <2>6 DEF TypeOK
<1>6. PhasesAgree /\ ExposedAlone /\ SeenIsCurrent /\ ToldIsUnmet
  BY DEF Init, PhasesAgree, Phase, InHelper, ExposedAlone, Exposed, SeenIsCurrent, ToldIsUnmet
<1>7. SlicesAreDistinct
  <2>1. \A d \in Clients : seen[d] = <<>>
    BY DEF Init
  <2> QED
    BY <1>4, <2>1 DEF SlicesAreDistinct, Distinct
<1>8. OnePendingMore
  <2> SUFFICES ASSUME NEW kind \in Kinds
               PROVE  Cardinality(UnmetOf(kind))
                        = Cardinality(AskedFor(kind)) + (IF Pending(kind) THEN 1 ELSE 0)
    BY DEF OnePendingMore
  <2>1. DOMAIN expected = DOMAIN script
    BY DEF Init
  <2>2. UnmetOf(kind) = AskedFor(kind)
    BY <1>2, <1>4, <2>1 DEF UnmetOf, AskedFor
  <2>3. ~Pending(kind)
    BY DEF Pending, Init
  <2>4. Cardinality(AskedFor(kind)) \in Nat
    BY <1>1, PositionsFinite DEF AskedFor
  <2> QED
    BY <2>2, <2>3, <2>4
<1>9. UndisturbedNeverRejected /\ OutcomeIsHonest
  BY DEF Init, UndisturbedNeverRejected, OutcomeIsHonest, None
<1> QED
  BY <1>5, <1>6, <1>7, <1>8, <1>9 DEF IInv, Init

(* Nothing changes in a stuttering step.                                   *)
LEMMA StutterPreserves ==
  ASSUME IInv, UNCHANGED vars
  PROVE  IInv'
<1>1. UNCHANGED <<made, expected, pc, seen, wants, method, fnErr, tx, result, commits,
                  rejected, disturbed, endedByFn, calls, script>>
  BY DEF vars, mockVars, callVars
<1> USE DEF IInv
<1>2. TypeOK' /\ script' \in Scripts
  BY <1>1 DEF TypeOK
<1>3. PhasesAgree' /\ ExposedAlone' /\ UndisturbedNeverRejected'
  BY <1>1 DEF PhasesAgree, Phase, ExposedAlone, Exposed, UndisturbedNeverRejected
<1>4. SeenIsCurrent' /\ ToldIsUnmet' /\ SlicesAreDistinct'
  BY <1>1 DEF SeenIsCurrent, ToldIsUnmet, UnmetOf, SlicesAreDistinct, Distinct
<1>5. OnePendingMore'
  BY <1>1, QuietStep
<1>6. OutcomeIsHonest'
  BY <1>1 DEF OutcomeIsHonest
<1> QED
  BY <1>2, <1>3, <1>4, <1>5, <1>6 DEF IInv

(* The invariant holds in every behaviour, for any clients, any script of  *)
(* the test and any number of calls.                                       *)
THEOREM InvariantHolds == Spec => []IInv
<1>1. Init => IInv
  BY InitHolds
<1>2. IInv /\ [Next]_vars => IInv'
  <2> SUFFICES ASSUME IInv, [Next]_vars PROVE IInv'
    OBVIOUS
  <2>1. CASE UNCHANGED vars
    BY <2>1, StutterPreserves
  <2>2. ASSUME NEW c \in Clients, Step(c) PROVE IInv'
    <3>1. CASE CallHelper(c)
      BY <3>1, CallHelperPreserves
    <3>2. CASE Tell(c)
      BY <3>2, TellPreserves
    <3>3. CASE Told(c)
      BY <3>3, ToldPreserves
    <3>4. CASE CallMock(c)
      BY <3>4, CallMockPreserves
    <3>5. CASE EndRefused(c)
      BY <3>5, EndRefusedPreserves
    <3>6. CASE Answered(c)
      BY <3>6, AnsweredPreserves
    <3>7. CASE \E end \in Ends : FnEnds(c, end)
      BY <3>7, FnEndsPreserves
    <3>8. CASE \E err \in BOOLEAN : FnReturns(c, err)
      BY <3>8, FnReturnsPreserves
    <3>9. CASE FnPanics(c)
      BY <3>9, FnPanicsPreserves
    <3> QED
      BY <2>2, <3>1, <3>2, <3>3, <3>4, <3>5, <3>6, <3>7, <3>8, <3>9 DEF Step
  <2> QED
    BY <2>1, <2>2 DEF Next
<1> QED
  BY <1>1, <1>2, PTL DEF Spec

(* Every variable keeps its type, and a call of the helper has at most one *)
(* commit accepted: database/sql never lets it ask for a second.           *)
THEOREM TypeCorrect == Spec => []TypeOK
<1>1. IInv => TypeOK
  BY DEF IInv
<1> QED
  BY <1>1, InvariantHolds, PTL

(* A client that no other disturbs between telling the mock and being      *)
(* answered is never rejected, however the other clients' transactions lie *)
(* around those moments and whatever they left or took.                    *)
THEOREM NeverRejectedUndisturbed == Spec => []UndisturbedNeverRejected
<1>1. IInv => UndisturbedNeverRejected
  BY DEF IInv
<1> QED
  BY <1>1, InvariantHolds, PTL

(* Between calls, as many Begins, Commits and Rollbacks are unmet as the   *)
(* test asked for itself: VerifyExpectations sees the test's own script,   *)
(* not what the helper added.                                              *)
THEOREM MockLeftAsFound == Spec => []LeavesTheMockAsFound
<1>1. ASSUME IInv PROVE LeavesTheMockAsFound
  <2> SUFFICES ASSUME \A c \in Clients : ~disturbed[c] /\ pc[c] \in {"idle", "fn", "gone"},
                      ~endedByFn, NEW kind \in Kinds
               PROVE  Balanced(kind)
    BY DEF LeavesTheMockAsFound
  <2>1. ~Pending(kind)
    BY DEF Pending
  <2>2. Cardinality(AskedFor(kind)) \in Nat
    BY <1>1, PositionsFinite, TransactionHelperAssumption DEF IInv, AskedFor
  <2>3. Cardinality(UnmetOf(kind)) = Cardinality(AskedFor(kind))
    BY <1>1, <2>1, <2>2 DEF IInv, OnePendingMore
  <2> QED
    BY <2>3 DEF Balanced, UnmetOf, AskedFor
<1> QED
  BY <1>1, InvariantHolds, PTL

(* nil is returned only for a transaction committed exactly once, or by    *)
(* WithRollbackOnly; what ExecuteInTransaction or WithRollbackOnly reports *)
(* as failed was not committed unless fn did it itself.                    *)
THEOREM HonestOutcome == Spec => []OutcomeIsHonest
<1>1. IInv => OutcomeIsHonest
  BY DEF IInv
<1> QED
  BY <1>1, InvariantHolds, PTL

(* A helper that has returned, with whatever error, left no transaction    *)
(* open.                                                                   *)
THEOREM EndedWhenReturned == Spec => []ReturnsWithTransactionEnded
<1>1. IInv => ReturnsWithTransactionEnded
  BY DEF IInv, PhasesAgree, Phase, ReturnsWithTransactionEnded
<1> QED
  BY <1>1, InvariantHolds, PTL
==============================================================================
