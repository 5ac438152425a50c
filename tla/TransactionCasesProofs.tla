----------------------- MODULE TransactionCasesProofs -----------------------
(***************************************************************************)
(* Proofs about TransactionCases, for any layers in any order, any number  *)
(* of tries, any script and any ends.                                      *)
(*                                                                         *)
(* Until something times out the calls that run are a chain from the first *)
(* one down: each is awaited by one of the layer above, and a layer has at *)
(* most one.  So a nil travels up the chain and ends it, the calls of a    *)
(* layer are as many as those above it times the tries, and an attempt     *)
(* begins when all before it have begun, with the first Begin that is      *)
(* left.  After a timeout only the first four conjuncts of IInv hold.      *)
(***************************************************************************)
EXTENDS TransactionCases, CountingLemmas

Errs == {None, "nil", "error", "timeout", "no_error"}
CallRecords ==
  [layer : Nat \ {0}, at : {"called", "waiting", "working", "returned"}, callee : Nat,
   tries : Nat, err : Errs, begin : Nat]
QueueItems ==
  [kind : {"begin", "commit", "rollback"}, op : {None}, table : {None},
   outcome : {"ok", "error"}, met : BOOLEAN]

TypeOK ==
  /\ layers \in Seq(Layers)
  /\ retries \in Nat
  /\ expects \in {"nothing", "error", "text"}
  /\ queue \in Seq(QueueItems)
  /\ calls \in Seq(CallRecords)
  /\ verdict \in {None, "pass", "fail", "panic"}

Waiting(f) == At(f, "waiting")

(* What a call is and has become.                                          *)
CallOK(f) ==
  /\ calls[f].err = None <=> Running(f)
  /\ calls[f].layer <= Len(layers) + 1
  /\ calls[f].layer = 1 <=> f = 1
  /\ At(f, "working") => IsService(f)
  /\ At(f, "called") => calls[f].tries = 0
  /\ Waiting(f) =>
       /\ ~IsService(f)
       /\ calls[f].callee \in DOMAIN calls
       /\ f < calls[f].callee
       /\ calls[calls[f].callee].layer = calls[f].layer + 1
       /\ IF Is(f, "retry") THEN calls[f].tries < retries ELSE calls[f].tries = 0

CallsOK ==
  /\ Len(calls) >= 1
  /\ \A f \in DOMAIN calls : CallOK(f)

NilMeansCommitted == \A f \in DOMAIN calls : calls[f].err = "nil" => Committed # {}
EndsAfterReturn == verdict # None => At(1, "returned")

(* A call that runs, but the first, has a call that waits for it.          *)
Awaited ==
  \A g \in DOMAIN calls :
    g # 1 /\ Running(g) => \E f \in DOMAIN calls : Waiting(f) /\ calls[f].callee = g

(* A layer has at most one call that runs, its last.                       *)
OnePerLayer ==
  \A f, g \in DOMAIN calls :
    Running(f) /\ calls[f].layer = calls[g].layer => g <= f /\ (Running(g) => f = g)

(* Where a nil came from: it is on its way up, or has been handed on.      *)
NilTravels ==
  \A g \in DOMAIN calls :
    g # 1 /\ calls[g].err = "nil" =>
      \E f \in DOMAIN calls :
        /\ f < g /\ calls[f].callee = g /\ calls[g].layer = calls[f].layer + 1
        /\ Waiting(f) \/ calls[f].err = "nil"

(* A layer that returned nil once is not tried again.                      *)
NilIsLast ==
  \A f, g \in DOMAIN calls :
    calls[f].err = "nil" /\ calls[f].layer = calls[g].layer /\ f # g =>
      ~Running(g) /\ calls[g].err # "nil"

(* How often call f, if it runs, has called the layer below.               *)
Kids(f) == IF Waiting(f) THEN calls[f].tries + 1 ELSE 0

Counted(n) ==
  /\ \A f \in CallsOf(n) : Running(f) =>
       Cardinality(CallsOf(n + 1)) = (Cardinality(CallsOf(n)) - 1) * TriesOf(n) + Kids(f)
  /\ (\A f \in CallsOf(n) : ~Running(f)) =>
       Cardinality(CallsOf(n + 1)) = Cardinality(CallsOf(n)) * TriesOf(n)

TriesCount == Committed = {} => \A n \in DOMAIN layers : Counted(n)

(* The Begins of the script are met in order, one by each attempt.         *)
MetBegins == {n \in Begins : queue[n].met}
Begun == {f \in Attempts : ~At(f, "called")}
BeginsInOrder ==
  /\ \A m, n \in Begins : m < n /\ queue[n].met => queue[m].met
  /\ \/ Cardinality(MetBegins) = Cardinality(Begun)
     \/ MetBegins = Begins /\ Cardinality(Begins) <= Cardinality(Begun)
  /\ \A f \in Begun : Nth(f) <= Cardinality(Begins) =>
           /\ calls[f].begin \in Begins
           /\ Cardinality({n \in Begins : n <= calls[f].begin}) = Nth(f)

Chain ==
  /\ Awaited /\ OnePerLayer /\ NilTravels /\ NilIsLast /\ TriesCount /\ BeginsInOrder

IInv ==
  /\ TypeOK /\ CallsOK /\ NilMeansCommitted /\ EndsAfterReturn
  /\ ~TimedOut => Chain

------------------------------------------------------------------------------
(* What the actions do to the calls.  Each is a step of one call that runs:*)
(* it leaves the others as they are.                                       *)
StepOf(f) ==
  /\ f \in DOMAIN calls /\ Running(f)
  /\ UNCHANGED <<layers, retries, expects, verdict>>
  /\ \A g \in DOMAIN calls :
       /\ g \in DOMAIN calls'
       /\ calls'[g].layer = calls[g].layer
       /\ g # f => calls'[g] = calls[g]

CallStep(f) ==
  /\ StepOf(f) /\ ~IsService(f)
  /\ Len(calls') = Len(calls) + 1
  /\ calls'[Len(calls) + 1] = Called(calls[f].layer + 1)
  /\ calls'[f].at = "waiting" /\ calls'[f].callee = Len(calls) + 1
  /\ calls'[f].err = None
  /\ \/ At(f, "called") /\ calls'[f].tries = 0 /\ (Is(f, "retry") => retries # 0)
     \/ /\ Waiting(f) /\ HasResult(f) /\ Is(f, "retry")
        /\ calls[calls[f].callee].err # "nil"
        /\ calls'[f].tries = calls[f].tries + 1 /\ calls'[f].tries < retries
  /\ UNCHANGED queue

ReturnStep(f) ==
  /\ StepOf(f) /\ ~IsService(f)
  /\ Len(calls') = Len(calls)
  /\ calls'[f].at = "returned" /\ calls'[f].callee = calls[f].callee
  /\ \/ At(f, "called") /\ Is(f, "retry") /\ retries = 0 /\ calls'[f].err = "no_error"
     \/ /\ Waiting(f) /\ HasResult(f)
        /\ calls'[f].err = calls[calls[f].callee].err
        /\ Is(f, "retry") => calls'[f].err = "nil" \/ calls[f].tries + 1 >= retries
     \/ Waiting(f) /\ Is(f, "timeout") /\ calls'[f].err = "timeout"
  /\ UNCHANGED queue

ServiceStep(f) ==
  /\ StepOf(f) /\ IsService(f)
  /\ Len(calls') = Len(calls) /\ calls'[f].callee = calls[f].callee
  /\ \/ calls'[f].at = "working" /\ calls'[f].err = None
     \/ calls'[f].at = "returned" /\ calls'[f].err \in {"nil", "error"}

LEMMA CallsBelowStep ==
  ASSUME TypeOK, CallsOK, NEW f \in DOMAIN calls, ~IsService(f), Running(f),
         NEW t \in Nat,
         CallsBelow(f, [calls[f] EXCEPT !.tries = t]),
         UNCHANGED <<layers, retries, expects, verdict>>
  PROVE  /\ calls' \in Seq(CallRecords)
         /\ StepOf(f)
         /\ Len(calls') = Len(calls) + 1
         /\ calls'[Len(calls) + 1] = Called(calls[f].layer + 1)
         /\ calls'[f].at = "waiting" /\ calls'[f].callee = Len(calls) + 1
         /\ calls'[f].err = None /\ calls'[f].tries = t
<1>1. calls \in Seq(CallRecords) /\ DOMAIN calls = 1 .. Len(calls) /\ Len(calls) \in Nat
      /\ calls[f] \in CallRecords
  BY LenProperties, ElementOfSeq DEF TypeOK
<1> DEFINE new == [[calls[f] EXCEPT !.tries = t]
                     EXCEPT !.at = "waiting", !.callee = Len(calls) + 1]
           added == Called(calls[f].layer + 1)
           kept == [calls EXCEPT ![f] = new]
<1>2. /\ new \in CallRecords
      /\ new.layer = calls[f].layer /\ new.at = "waiting" /\ new.tries = t
      /\ new.callee = Len(calls) + 1 /\ new.err = calls[f].err
  <2> DEFINE base == [calls[f] EXCEPT !.tries = t]
  <2>1. base \in CallRecords /\ base.layer = calls[f].layer /\ base.err = calls[f].err /\ base.tries = t
    BY <1>1 DEF CallRecords
  <2>2. new = [base EXCEPT !.at = "waiting", !.callee = Len(calls) + 1]
    OBVIOUS
  <2>3. Len(calls) + 1 \in Nat
    BY <1>1
  <2> HIDE DEF base, new
  <2> QED
    BY <2>1, <2>2, <2>3 DEF CallRecords
<1>3. calls[f].err = None
  BY DEF CallsOK, CallOK
<1>4. added \in CallRecords
  BY <1>1 DEF CallRecords, Called, Errs
<1>5. calls' = Append(kept, added)
  BY DEF CallsBelow
<1> HIDE DEF new, added, kept
<1>6. /\ kept \in Seq(CallRecords) /\ Len(kept) = Len(calls)
      /\ \A g \in 1 .. Len(calls) : kept[g] = IF g = f THEN new ELSE calls[g]
  BY <1>1, <1>2, ExceptSeq DEF kept
<1>7. /\ calls' \in Seq(CallRecords) /\ Len(calls') = Len(calls) + 1
      /\ calls'[Len(calls) + 1] = added
      /\ \A g \in 1 .. Len(calls) : calls'[g] = kept[g]
  BY <1>1, <1>4, <1>5, <1>6, AppendProperties
<1>8. DOMAIN calls' = 1 .. Len(calls) + 1
  BY <1>7, LenProperties
<1>9. StepOf(f)
  BY <1>1, <1>2, <1>6, <1>7, <1>8 DEF StepOf
<1> QED
  BY <1>1, <1>2, <1>3, <1>6, <1>7, <1>9 DEF added

LEMMA ChangeStep ==
  ASSUME TypeOK, NEW f \in DOMAIN calls, Running(f), NEW new \in CallRecords,
         new.layer = calls[f].layer, calls' = [calls EXCEPT ![f] = new],
         UNCHANGED <<layers, retries, expects, verdict>>
  PROVE  /\ calls' \in Seq(CallRecords)
         /\ StepOf(f)
         /\ Len(calls') = Len(calls)
         /\ calls'[f] = new
<1>1. calls \in Seq(CallRecords) /\ DOMAIN calls = 1 .. Len(calls) /\ Len(calls) \in Nat
  BY LenProperties DEF TypeOK
<1>2. /\ calls' \in Seq(CallRecords) /\ Len(calls') = Len(calls)
      /\ \A g \in 1 .. Len(calls) : calls'[g] = IF g = f THEN new ELSE calls[g]
  BY <1>1, ExceptSeq
<1>3. DOMAIN calls' = 1 .. Len(calls)
  BY <1>2, LenProperties
<1> QED
  BY <1>1, <1>2, <1>3 DEF StepOf

(* What a call of the mock does to its expectations.                       *)
LEMMA MockCall ==
  ASSUME TypeOK, NEW kind \in {"begin", "commit", "rollback"}, Met(kind)
  PROVE  LET left == {n \in DOMAIN queue : queue[n].kind = kind /\ ~queue[n].met}
             taken == FirstCandidate(queue, InOrder, Call(kind, None, None)) IN
         /\ queue' \in Seq(QueueItems)
         /\ DOMAIN queue' = DOMAIN queue
         /\ \A n \in DOMAIN queue : queue'[n].kind = queue[n].kind
         /\ Asks(kind) \in {"ok", "error", "rejected"}
         /\ Asks(kind) = "rejected" => left = {} /\ queue' = queue
         /\ Asks(kind) # "rejected" =>
              /\ taken \in left
              /\ \A n \in left : taken <= n
              /\ queue'[taken].met
              /\ \A n \in DOMAIN queue : n # taken => queue'[n] = queue[n]
<1> DEFINE call == Call(kind, None, None)
           left == {n \in DOMAIN queue : queue[n].kind = kind /\ ~queue[n].met}
           cands == Candidates(queue, InOrder, call)
           taken == FirstCandidate(queue, InOrder, call)
<1>1. queue \in Seq(QueueItems) /\ DOMAIN queue = 1 .. Len(queue) /\ Len(queue) \in Nat
      /\ \A n \in DOMAIN queue : queue[n] \in QueueItems
  BY LenProperties, ElementOfSeq DEF TypeOK
<1>2. \A e \in QueueItems : Covers(e, call) <=> e.kind = kind
  BY DEF Covers, Call, QueueItems, None
<1>3. cands = left
  <2>1. cands = {n \in Unmet(queue) : Covers(queue[n], call)}
    BY DEF Candidates, InOrder
  <2> QED
    BY <1>1, <1>2, <2>1 DEF Unmet
<1>4. left # {} => taken \in left /\ \A n \in left : taken <= n
  <2>1. left \in SUBSET Nat
    BY <1>1
  <2>2. taken = Min(left)
    BY <1>3 DEF FirstCandidate
  <2> HIDE DEF left, taken
  <2> QED
    BY <2>1, <2>2, LeastExists DEF Min
<1>5. Asks(kind) = IF left = {} THEN "rejected" ELSE queue[taken].outcome
  BY <1>3 DEF Asks, Answer
<1>6. queue' = [n \in DOMAIN queue |->
                  IF left # {} /\ n = taken THEN [queue[n] EXCEPT !.met = TRUE] ELSE queue[n]]
  <2>1. queue' = After(queue, InOrder, call)
    BY DEF Met
  <2> QED
    BY <1>3, <2>1 DEF After
<1>7. left # {} => queue[taken].outcome \in {"ok", "error"}
  BY <1>1, <1>4 DEF QueueItems
<1>8. \A e \in QueueItems :
        LET m == [e EXCEPT !.met = TRUE] IN m \in QueueItems /\ m.kind = e.kind /\ m.met
  BY DEF QueueItems
<1> HIDE DEF call, cands, taken
<1>9. \A n \in DOMAIN queue : queue'[n] \in QueueItems /\ queue'[n].kind = queue[n].kind
  BY <1>1, <1>6, <1>8
<1>10. queue' \in Seq(QueueItems) /\ DOMAIN queue' = DOMAIN queue
  BY <1>1, <1>6, <1>9, IsASeq
<1>11. left = {} => queue' = queue
  BY <1>1, <1>6
<1>12. left # {} => queue'[taken].met /\ \A n \in DOMAIN queue : n # taken => queue'[n] = queue[n]
  BY <1>1, <1>4, <1>6, <1>8
<1> QED
  BY <1>4, <1>5, <1>7, <1>9, <1>10, <1>11, <1>12 DEF taken, call

BeginStep(f) ==
  /\ ServiceStep(f) /\ At(f, "called") /\ Met("begin")
  /\ calls'[f].err # "nil"
  /\ calls'[f].begin = IF Asks("begin") = "rejected" THEN 0
                       ELSE FirstCandidate(queue, InOrder, Call("begin", None, None))

EndStep(f) ==
  /\ ServiceStep(f) /\ At(f, "working")
  /\ \E kind \in {"commit", "rollback"} : Met(kind)
  /\ calls'[f].begin = calls[f].begin

Stepped(f) == CallStep(f) \/ ReturnStep(f) \/ BeginStep(f) \/ EndStep(f)

LEMMA LayerSteps ==
  ASSUME TypeOK, CallsOK, NEW f \in DOMAIN calls, Layer(f)
  PROVE  /\ calls' \in Seq(CallRecords)
         /\ CallStep(f) \/ ReturnStep(f)
<1>1. calls \in Seq(CallRecords) /\ calls[f] \in CallRecords
  BY LenProperties, ElementOfSeq DEF TypeOK
<1>2. calls[f].tries \in Nat /\ retries \in Nat
  BY <1>1 DEF CallRecords, TypeOK
<1> DEFINE Returned(err) == Returning(calls[f], err)
<1>3. ASSUME NEW err \in Errs, NEW t \in Nat,
             Running(f), ~IsService(f),
             Returns(f, [calls[f] EXCEPT !.tries = t], err),
             UNCHANGED queue, UnchangedCase
      PROVE  /\ calls' \in Seq(CallRecords)
             /\ StepOf(f) /\ Len(calls') = Len(calls)
             /\ calls'[f].at = "returned" /\ calls'[f].err = err
             /\ calls'[f].callee = calls[f].callee
  <2> DEFINE base == [calls[f] EXCEPT !.tries = t]
             new == Returning(base, err)
  <2>1. base \in CallRecords /\ base.layer = calls[f].layer /\ base.callee = calls[f].callee
    BY <1>1 DEF CallRecords
  <2> HIDE DEF base
  <2>2. /\ new \in CallRecords /\ new.layer = calls[f].layer /\ new.callee = calls[f].callee
        /\ new.at = "returned" /\ new.err = err
    BY <1>3, <2>1 DEF CallRecords, Returning
  <2>3. calls' = [calls EXCEPT ![f] = new]
    BY <1>3 DEF Returns, base
  <2> HIDE DEF new
  <2> QED
    BY <1>3, <2>2, <2>3, ChangeStep DEF UnchangedCase
<1>4. calls[f] = [calls[f] EXCEPT !.tries = calls[f].tries]
  BY <1>1 DEF CallRecords
<1>5. CASE Enter(f)
  <2>1. ~IsService(f) /\ Running(f) /\ At(f, "called") /\ UNCHANGED queue /\ UnchangedCase
        /\ calls[f].tries = 0
    BY <1>5 DEF Enter, Running, At, CallsOK, CallOK
  <2>2. CASE Is(f, "retry") /\ retries = 0
    <3>1. Returns(f, [calls[f] EXCEPT !.tries = calls[f].tries], "no_error")
      BY <1>4, <1>5, <2>2 DEF Enter
    <3> QED
      BY <1>2, <1>3, <2>1, <2>2, <3>1 DEF ReturnStep, Errs
  <2>3. CASE ~(Is(f, "retry") /\ retries = 0)
    <3>1. CallsBelow(f, [calls[f] EXCEPT !.tries = calls[f].tries])
      BY <1>4, <1>5, <2>3 DEF Enter
    <3> QED
      BY <1>2, <2>1, <2>3, <3>1, CallsBelowStep DEF CallStep, UnchangedCase
  <2> QED
    BY <2>2, <2>3
<1>6. CASE Receive(f)
  <2> DEFINE err == calls[calls[f].callee].err
  <2>1. /\ Waiting(f) /\ HasResult(f) /\ Running(f) /\ UNCHANGED queue /\ UnchangedCase
        /\ ~IsService(f) /\ calls[f].callee \in DOMAIN calls
    BY <1>6 DEF Receive, Waiting, At, Running, CallsOK, CallOK
  <2>2. err \in Errs
    <3>1. calls[calls[f].callee] \in CallRecords
      BY <1>1, <2>1, LenProperties, ElementOfSeq
    <3> QED
      BY <3>1 DEF CallRecords
  <2>3. [calls[f] EXCEPT !.tries = @ + 1] = [calls[f] EXCEPT !.tries = calls[f].tries + 1]
        /\ [calls[f] EXCEPT !.tries = @ + 1].tries = calls[f].tries + 1
        /\ calls[f].tries + 1 \in Nat
    BY <1>1, <1>2 DEF CallRecords
  <2>4. CASE Is(f, "retry") /\ TriesAgain(err, calls[f].tries + 1)
    <3>1. CallsBelow(f, [calls[f] EXCEPT !.tries = calls[f].tries + 1])
      BY <1>6, <2>3, <2>4 DEF Receive
    <3>2. calls' \in Seq(CallRecords) /\ StepOf(f)
          /\ Len(calls') = Len(calls) + 1
          /\ calls'[Len(calls) + 1] = Called(calls[f].layer + 1)
          /\ calls'[f].at = "waiting" /\ calls'[f].callee = Len(calls) + 1
          /\ calls'[f].err = None /\ calls'[f].tries = calls[f].tries + 1
      BY <2>1, <2>3, <3>1, CallsBelowStep DEF UnchangedCase
    <3> QED
      BY <2>1, <2>4, <3>2 DEF CallStep, TriesAgain
  <2>5. CASE ~(Is(f, "retry") /\ TriesAgain(err, calls[f].tries + 1))
    <3>1. Returns(f, [calls[f] EXCEPT !.tries = calls[f].tries + 1], err)
      BY <1>6, <2>3, <2>5 DEF Receive
    <3>2. calls' \in Seq(CallRecords) /\ StepOf(f) /\ Len(calls') = Len(calls)
          /\ calls'[f].at = "returned" /\ calls'[f].err = err
          /\ calls'[f].callee = calls[f].callee
      BY <1>3, <2>1, <2>2, <2>3, <3>1
    <3>3. Is(f, "retry") => err = "nil" \/ calls[f].tries + 1 >= retries
      BY <1>2, <2>5 DEF TriesAgain
    <3> QED
      BY <2>1, <3>2, <3>3 DEF ReturnStep
  <2> QED
    BY <2>4, <2>5
<1>7. CASE TimeOut(f)
  <2>1. Waiting(f) /\ Is(f, "timeout") /\ Running(f) /\ UNCHANGED queue /\ UnchangedCase
        /\ ~IsService(f)
    BY <1>7 DEF TimeOut, Waiting, Is, At, Running
  <2>2. Returns(f, [calls[f] EXCEPT !.tries = calls[f].tries], "timeout")
    BY <1>4, <1>7 DEF TimeOut
  <2> QED
    BY <1>2, <1>3, <2>1, <2>2 DEF ReturnStep, Errs
<1> QED
  BY <1>5, <1>6, <1>7 DEF Layer

LEMMA ServiceSteps ==
  ASSUME TypeOK, CallsOK, NEW f \in DOMAIN calls, Service(f)
  PROVE  /\ calls' \in Seq(CallRecords)
         /\ BeginStep(f) \/ EndStep(f)
<1>1. calls \in Seq(CallRecords) /\ calls[f] \in CallRecords
  BY LenProperties, ElementOfSeq DEF TypeOK
<1>2. CASE Begin(f)
  <2> DEFINE answer == Asks("begin")
             taken == IF answer = "rejected" THEN 0
                      ELSE FirstCandidate(queue, InOrder, Call("begin", None, None))
             begun == [calls[f] EXCEPT !.begin = taken]
             new == IF answer = "ok" THEN [calls[f] EXCEPT !.at = "working", !.begin = taken]
                    ELSE Returning(begun, "error")
  <2>1. /\ At(f, "called") /\ IsService(f) /\ Running(f) /\ Met("begin") /\ UnchangedCase
        /\ calls' = [calls EXCEPT ![f] = new]
        /\ calls[f].err = None
    BY <1>2 DEF Begin, At, Running, CallsOK, CallOK
  <2>2. taken \in Nat
    <3>1. DOMAIN queue \subseteq Nat
      BY LenProperties DEF TypeOK
    <3> QED
      BY <2>1, <3>1, MockCall
  <2> HIDE DEF taken, answer
  <2>3. /\ begun \in CallRecords /\ begun.layer = calls[f].layer /\ begun.begin = taken
        /\ begun.callee = calls[f].callee
    BY <1>1, <2>2 DEF CallRecords
  <2>4. /\ new \in CallRecords /\ new.layer = calls[f].layer /\ new.begin = taken
        /\ new.callee = calls[f].callee
        /\ \/ new.at = "working" /\ new.err = None
           \/ new.at = "returned" /\ new.err = "error"
    <3>1. CASE answer = "ok"
      BY <1>1, <2>1, <2>2, <3>1 DEF CallRecords
    <3>2. CASE answer # "ok"
      <4>1. new = Returning(begun, "error")
        BY <3>2
      <4> HIDE DEF begun, new
      <4> QED
        BY <2>3, <4>1 DEF CallRecords, Returning, Errs
    <3> QED
      BY <3>1, <3>2
  <2> HIDE DEF new
  <2>5. calls' \in Seq(CallRecords) /\ StepOf(f) /\ Len(calls') = Len(calls) /\ calls'[f] = new
    BY <2>1, <2>4, ChangeStep DEF UnchangedCase
  <2>6. ServiceStep(f) /\ calls'[f].err # "nil"
    BY <2>1, <2>4, <2>5 DEF ServiceStep, None
  <2> QED
    BY <2>1, <2>4, <2>5, <2>6 DEF BeginStep, taken, answer
<1>3. ASSUME NEW kind \in {"commit", "rollback"}, End(f, kind)
      PROVE  calls' \in Seq(CallRecords) /\ EndStep(f)
  <2> DEFINE err == IF kind = "commit" /\ Asks(kind) = "ok" THEN "nil" ELSE "error"
             new == Returning(calls[f], err)
  <2>1. /\ At(f, "working") /\ IsService(f) /\ Running(f) /\ Met(kind) /\ UnchangedCase
        /\ calls' = [calls EXCEPT ![f] = new]
    BY <1>3 DEF End, Returns, At, Running, CallsOK, CallOK
  <2>2. err \in {"nil", "error"}
    OBVIOUS
  <2> HIDE DEF err
  <2>3. /\ new \in CallRecords /\ new.layer = calls[f].layer /\ new.begin = calls[f].begin
        /\ new.callee = calls[f].callee
        /\ new.at = "returned" /\ new.err = err
    BY <1>1, <2>2 DEF CallRecords, Returning, Errs
  <2> HIDE DEF new
  <2>4. calls' \in Seq(CallRecords) /\ StepOf(f) /\ Len(calls') = Len(calls) /\ calls'[f] = new
    BY <2>1, <2>3, ChangeStep DEF UnchangedCase
  <2> QED
    BY <2>1, <2>2, <2>3, <2>4 DEF EndStep, ServiceStep
<1> QED
  BY <1>2, <1>3 DEF Service

(* Every step is the end of the test or a step of one running call, and    *)
(* keeps the types.                                                        *)
LEMMA Steps ==
  ASSUME TypeOK, CallsOK, Next
  PROVE  /\ TypeOK'
         /\ EndTest \/ \E f \in DOMAIN calls : Stepped(f)
<1>1. CASE EndTest
  <2>1. Verdict(calls[1].err) \in {"pass", "fail", "panic"}
    BY DEF Verdict, TypeOK
  <2> QED
    BY <1>1, <2>1 DEF EndTest, TypeOK
<1>2. ASSUME NEW f \in DOMAIN calls, Layer(f)
      PROVE  TypeOK' /\ Stepped(f)
  <2>1. calls' \in Seq(CallRecords) /\ (CallStep(f) \/ ReturnStep(f))
    BY <1>2, LayerSteps
  <2>2. UNCHANGED <<layers, retries, expects, verdict, queue>>
    BY <2>1 DEF CallStep, ReturnStep, StepOf
  <2> QED
    BY <2>1, <2>2 DEF TypeOK, Stepped
<1>3. ASSUME NEW f \in DOMAIN calls, Service(f)
      PROVE  TypeOK' /\ Stepped(f)
  <2>1. calls' \in Seq(CallRecords) /\ (BeginStep(f) \/ EndStep(f))
    BY <1>3, ServiceSteps
  <2>2. UNCHANGED <<layers, retries, expects, verdict>>
    BY <2>1 DEF BeginStep, EndStep, ServiceStep, StepOf
  <2>3. queue' \in Seq(QueueItems)
    BY <2>1, MockCall DEF BeginStep, EndStep
  <2> QED
    BY <2>1, <2>2, <2>3 DEF TypeOK, Stepped
<1> QED
  BY <1>1, <1>2, <1>3 DEF Next

------------------------------------------------------------------------------
Basics == TypeOK /\ CallsOK /\ NilMeansCommitted /\ EndsAfterReturn

(* The numbers of the calls, and the fields of one.                        *)
LEMMA CallFacts ==
  ASSUME TypeOK
  PROVE  /\ DOMAIN calls = 1 .. Len(calls) /\ Len(calls) \in Nat
         /\ \A f \in DOMAIN calls : /\ f \in Nat /\ calls[f].layer \in Nat \ {0}
                                    /\ calls[f].tries \in Nat /\ calls[f].err \in Errs
                                    /\ calls[f].at \in {"called", "waiting", "working", "returned"}
         /\ Len(layers) \in Nat /\ retries \in Nat /\ DOMAIN layers = 1 .. Len(layers)
<1>1. calls \in Seq(CallRecords) /\ layers \in Seq(Layers) /\ retries \in Nat
  BY DEF TypeOK
<1>2. \A f \in DOMAIN calls : calls[f] \in CallRecords
  BY <1>1, LenProperties, ElementOfSeq
<1> QED
  BY <1>1, <1>2, LenProperties DEF CallRecords

(* How the calls are numbered after a step.                                *)
LEMMA NewNumbers ==
  ASSUME TypeOK, TypeOK', NEW f \in DOMAIN calls, Stepped(f)
  PROVE  /\ StepOf(f)
         /\ \/ CallStep(f) /\ DOMAIN calls' = DOMAIN calls \cup {Len(calls) + 1}
            \/ ~CallStep(f) /\ DOMAIN calls' = DOMAIN calls
         /\ Len(calls) + 1 \notin DOMAIN calls
<1>1. DOMAIN calls = 1 .. Len(calls) /\ Len(calls) \in Nat
      /\ DOMAIN calls' = 1 .. Len(calls')
  BY LenProperties DEF TypeOK
<1>2. StepOf(f) /\ (CallStep(f) \/ Len(calls') = Len(calls))
  BY DEF Stepped, CallStep, ReturnStep, BeginStep, EndStep, ServiceStep
<1>3. CallStep(f) => Len(calls') = Len(calls) + 1
  BY DEF CallStep
<1>4. 1 .. Len(calls) + 1 = (1 .. Len(calls)) \cup {Len(calls) + 1}
      /\ Len(calls) + 1 \notin 1 .. Len(calls)
  BY <1>1
<1>5. CallStep(f) => DOMAIN calls' = DOMAIN calls \cup {Len(calls) + 1}
  BY <1>1, <1>3, <1>4
<1>6. ~CallStep(f) => DOMAIN calls' = DOMAIN calls
  BY <1>1, <1>2
<1> QED
  BY <1>1, <1>2, <1>4, <1>5, <1>6

LEMMA KeepsCallsOK ==
  ASSUME TypeOK, TypeOK', CallsOK, NEW f \in DOMAIN calls, Stepped(f)
  PROVE  CallsOK'
<1>1. StepOf(f) /\ layers' = layers /\ retries' = retries
  BY NewNumbers DEF StepOf
<1>2. Len(calls') >= 1
  <2>1. Len(calls) \in Nat /\ Len(calls) >= 1
    BY CallFacts DEF CallsOK
  <2> QED
    BY <2>1 DEF Stepped, CallStep, ReturnStep, BeginStep, EndStep, ServiceStep
<1>3. ASSUME NEW g \in DOMAIN calls, g # f
      PROVE  CallOK(g)'
  <2>1. CallOK(g) /\ calls'[g] = calls[g]
    BY <1>1, <1>3 DEF CallsOK, StepOf
  <2>2. calls[g].callee \in DOMAIN calls =>
          /\ calls[g].callee \in DOMAIN calls'
          /\ calls'[calls[g].callee].layer = calls[calls[g].callee].layer
    BY <1>1 DEF StepOf
  <2> QED
    BY <1>1, <2>1, <2>2 DEF CallOK, Running, At, Waiting, IsService, Is
<1>4. CallOK(f)'
  <2>1. CallOK(f) /\ calls'[f].layer = calls[f].layer /\ f \in Nat
    BY <1>1, CallFacts DEF CallsOK, StepOf
  <2>2. CASE CallStep(f)
    <3> DEFINE new == Len(calls) + 1
    <3>0. new \in DOMAIN calls' /\ f < new
      BY <2>2, NewNumbers, CallFacts
    <3>1. /\ calls'[f].at = "waiting" /\ calls'[f].err = None /\ ~IsService(f)
          /\ calls'[f].callee = new /\ calls'[new].layer = calls[f].layer + 1
          /\ new \in DOMAIN calls' /\ f < new
      BY <2>2, <3>0 DEF CallStep, Called
    <3>2. IF Is(f, "retry") THEN calls'[f].tries < retries ELSE calls'[f].tries = 0
      BY <2>2, CallFacts DEF CallStep
    <3> QED
      BY <1>1, <2>1, <3>1, <3>2 DEF CallOK, Running, At, Waiting, IsService, Is
  <2>3. CASE ReturnStep(f)
    <3>1. calls'[f].err # None
      <4>1. ASSUME Waiting(f), HasResult(f) PROVE calls[calls[f].callee].err # None
        <5>1. calls[f].callee \in DOMAIN calls
          BY <2>1, <4>1 DEF CallOK
        <5> QED
          BY <4>1, <5>1 DEF CallsOK, CallOK, HasResult, At, Running
      <4> QED
        BY <2>3, <4>1 DEF ReturnStep, None
    <3>2. calls'[f].at = "returned"
      BY <2>3 DEF ReturnStep
    <3> QED
      BY <1>1, <2>1, <3>1, <3>2 DEF CallOK, Running, At, Waiting, IsService, Is
  <2>4. CASE ServiceStep(f)
    <3>1. /\ calls'[f].at \in {"working", "returned"}
          /\ calls'[f].err = None <=> calls'[f].at = "working"
          /\ IsService(f)
      BY <2>4 DEF ServiceStep, None
    <3> QED
      BY <1>1, <2>1, <3>1 DEF CallOK, Running, At, Waiting, IsService, Is
  <2> QED
    BY <2>2, <2>3, <2>4 DEF Stepped, BeginStep, EndStep
<1>5. ASSUME CallStep(f), NEW new, new = Len(calls) + 1 PROVE CallOK(new)'
  <2>1. /\ calls'[new] = Called(calls[f].layer + 1) /\ ~IsService(f)
        /\ new # 1 /\ calls[f].layer \in Nat \ {0} /\ Len(layers) \in Nat
    BY <1>5, CallFacts DEF CallStep, CallsOK
  <2>2. /\ calls'[new].layer = calls[f].layer + 1 /\ calls'[new].at = "called"
        /\ calls'[new].err = None /\ calls'[new].tries = 0
    BY <2>1 DEF Called
  <2>3. calls'[new].layer <= Len(layers) + 1 /\ calls'[new].layer # 1
    BY <2>1, <2>2 DEF IsService
  <2> QED
    BY <1>1, <2>1, <2>2, <2>3 DEF CallOK, Running, At, Waiting
<1> QED
  BY <1>2, <1>3, <1>4, <1>5, NewNumbers DEF CallsOK

(* What has returned stays as it is: a commit, and a timeout.              *)
LEMMA KeepsReturned ==
  ASSUME TypeOK, TypeOK', CallsOK, NEW f \in DOMAIN calls, Stepped(f)
  PROVE  /\ \A g \in Committed : g \in Committed'
         /\ TimedOut => TimedOut'
         /\ At(1, "returned") => At(1, "returned")'
         /\ \A g \in DOMAIN calls : IsService(g)' = IsService(g)
<1>1. StepOf(f) /\ layers' = layers
  BY NewNumbers DEF StepOf
<1>2. \A g \in DOMAIN calls : /\ g \in DOMAIN calls' /\ calls'[g].layer = calls[g].layer
                              /\ calls[g].err # None => calls'[g] = calls[g]
                              /\ calls[g].at = "returned" => calls'[g] = calls[g]
  BY <1>1 DEF StepOf, CallsOK, CallOK, Running, At
<1>3. 1 \in DOMAIN calls
  BY CallFacts DEF CallsOK
<1>4. \A g \in DOMAIN calls : IsService(g)' = IsService(g)
  BY <1>1, <1>2 DEF IsService
<1>5. \A g \in Committed : g \in Committed'
  BY <1>2, <1>4 DEF Committed, Attempts, None
<1>6. ASSUME NEW g \in DOMAIN calls, Is(g, "timeout") /\ calls[g].err = "timeout"
      PROVE  Is(g, "timeout")' /\ calls'[g].err = "timeout" /\ g \in DOMAIN calls'
  BY <1>1, <1>2, <1>6 DEF Is, IsService, None
<1>7. TimedOut => TimedOut'
  BY <1>6 DEF TimedOut
<1> QED
  BY <1>2, <1>3, <1>4, <1>5, <1>7 DEF At

LEMMA KeepsBasics ==
  ASSUME Basics, TypeOK', NEW f \in DOMAIN calls, Stepped(f)
  PROVE  Basics'
<1> USE DEF Basics
<1>1. CallsOK' /\ StepOf(f)
  BY KeepsCallsOK, NewNumbers
<1>0. \A g \in DOMAIN calls' : g \in DOMAIN calls \/ (CallStep(f) /\ g = Len(calls) + 1)
  BY NewNumbers
<1>2. NilMeansCommitted'
  <2> SUFFICES ASSUME NEW g \in DOMAIN calls', calls'[g].err = "nil"
               PROVE  Committed' # {}
    BY DEF NilMeansCommitted
  <2>1. CASE g \in DOMAIN calls /\ calls[g].err = "nil"
    BY <2>1, KeepsReturned DEF NilMeansCommitted
  <2>2. CASE ~(g \in DOMAIN calls /\ calls[g].err = "nil")
    <3>1. g = f \/ (CallStep(f) /\ g = Len(calls) + 1)
      BY <1>0, <1>1, <2>2 DEF StepOf
    <3>2. ~CallStep(f)
      BY <3>1 DEF CallStep, Called, None
    <3>3. CASE ReturnStep(f)
      <4>1. Waiting(f) /\ calls[calls[f].callee].err = "nil"
        BY <3>1, <3>2, <3>3 DEF ReturnStep
      <4>2. calls[f].callee \in DOMAIN calls
        BY <4>1 DEF CallsOK, CallOK
      <4> QED
        BY <4>1, <4>2, KeepsReturned DEF NilMeansCommitted
    <3>4. CASE ServiceStep(f)
      <4>1. IsService(f)' /\ f \in DOMAIN calls'
        BY <3>4, KeepsReturned, <1>1 DEF ServiceStep, StepOf
      <4> QED
        BY <3>1, <3>2, <4>1 DEF Committed, Attempts
    <3> QED
      BY <3>2, <3>3, <3>4 DEF Stepped, BeginStep, EndStep
  <2> QED
    BY <2>1, <2>2
<1>3. EndsAfterReturn'
  BY <1>1, KeepsReturned DEF EndsAfterReturn, StepOf
<1> QED
  BY <1>1, <1>2, <1>3

------------------------------------------------------------------------------
(* While nothing has timed out.                                            *)

(* A step that calls nothing is one of a call nothing below it still runs  *)
(* for; a layer hands a nil on.                                            *)
Advances(f) ==
  /\ StepOf(f) /\ DOMAIN calls' = DOMAIN calls
  /\ calls'[f].at \in {"working", "returned"}
  /\ calls'[f].err = None <=> calls'[f].at = "working"
  /\ calls'[f].callee = calls[f].callee
  /\ Waiting(f) => /\ HasResult(f)
                   /\ calls[calls[f].callee].err = "nil" => calls'[f].err = "nil"

LEMMA UntimedSteps ==
  ASSUME Basics, Basics', NEW f \in DOMAIN calls, Stepped(f), ~TimedOut'
  PROVE  CallStep(f) \/ Advances(f)
<1> USE DEF Basics
<1>1. StepOf(f) /\ (~CallStep(f) => DOMAIN calls' = DOMAIN calls) /\ f \in DOMAIN calls'
  BY NewNumbers DEF StepOf
<1>2. CallOK(f) /\ CallOK(f)'
  BY <1>1 DEF CallsOK
<1>3. CASE ServiceStep(f) /\ ~CallStep(f)
  <2>1. ~Waiting(f)
    BY <1>2, <1>3 DEF CallOK, ServiceStep
  <2>2. /\ calls'[f].at \in {"working", "returned"}
        /\ calls'[f].err = None <=> calls'[f].at = "working"
    BY <1>3 DEF ServiceStep, None
  <2> QED
    BY <1>1, <1>3, <2>1, <2>2 DEF Advances, ServiceStep
<1>4. CASE ReturnStep(f) /\ ~CallStep(f)
  <2>1. calls'[f].at = "returned" /\ calls'[f].err # None
    BY <1>2, <1>4 DEF ReturnStep, CallOK, Running, At
  <2>2. ~(Is(f, "timeout") /\ calls'[f].err = "timeout")
    <3>1. Is(f, "timeout") => Is(f, "timeout")'
      BY <1>1 DEF StepOf, Is, IsService
    <3> QED
      BY <1>1, <3>1 DEF TimedOut
  <2>3. ~(Waiting(f) /\ At(f, "called"))
    BY DEF Waiting, At
  <2>4. Waiting(f) => /\ HasResult(f)
                      /\ calls[calls[f].callee].err = "nil" => calls'[f].err = "nil"
    BY <1>4, <2>2, <2>3 DEF ReturnStep
  <2> QED
    BY <1>1, <1>4, <2>1, <2>4 DEF Advances, ReturnStep
<1> QED
  BY <1>3, <1>4 DEF Stepped, BeginStep, EndStep

(* What calls when nothing timed out: no call of the layer below runs, or  *)
(* has returned nil.                                                       *)
LEMMA NothingBelow ==
  ASSUME Basics, Chain, NEW f \in DOMAIN calls, CallStep(f)
  PROVE  \A h \in DOMAIN calls :
           calls[h].layer = calls[f].layer + 1 => ~Running(h) /\ calls[h].err # "nil"
<1> USE DEF Basics
<1> SUFFICES ASSUME NEW h \in DOMAIN calls, calls[h].layer = calls[f].layer + 1
             PROVE  ~Running(h) /\ calls[h].err # "nil"
  OBVIOUS
<1>1. Running(f) /\ CallOK(f) /\ CallOK(h) /\ calls[f].err = None
  BY DEF CallsOK, CallOK, CallStep, StepOf
<1>2. h # 1
  <2>1. calls[f].layer \in Nat \ {0}
    BY CallFacts
  <2> QED
    BY <1>1, <2>1 DEF CallOK
<1>3. Waiting(f) => HasResult(f) /\ calls[calls[f].callee].err # "nil"
  <2>1. ~(Waiting(f) /\ At(f, "called"))
    BY DEF Waiting, At
  <2> QED
    BY <2>1 DEF CallStep
<1>4. ~Running(h)
  <2> SUFFICES ASSUME Running(h) PROVE FALSE
    OBVIOUS
  <2>1. PICK e \in DOMAIN calls : Waiting(e) /\ calls[e].callee = h
    BY <1>2 DEF Chain, Awaited
  <2>2. calls[h].layer = calls[e].layer + 1 /\ Running(e)
    BY <2>1 DEF CallsOK, CallOK, Waiting, Running, At
  <2>3. calls[e].layer = calls[f].layer
    BY <2>2, CallFacts
  <2>4. e = f
    BY <1>1, <2>2, <2>3 DEF Chain, OnePerLayer
  <2> QED
    BY <1>3, <2>1, <2>4 DEF HasResult, At, Running
<1>5. calls[h].err # "nil"
  <2> SUFFICES ASSUME calls[h].err = "nil" PROVE FALSE
    OBVIOUS
  <2>1. PICK e \in DOMAIN calls :
          /\ calls[e].callee = h /\ calls[h].layer = calls[e].layer + 1
          /\ Waiting(e) \/ calls[e].err = "nil"
    BY <1>2 DEF Chain, NilTravels
  <2>2. calls[e].layer = calls[f].layer
    BY <2>1, CallFacts
  <2>3. CASE Waiting(e)
    <3>1. Running(e)
      BY <2>3 DEF Waiting, Running, At
    <3>2. e = f
      BY <1>1, <2>2, <3>1 DEF Chain, OnePerLayer
    <3> QED
      BY <1>3, <2>1, <2>3, <3>2
  <2>4. CASE calls[e].err = "nil"
    <3>1. e # f
      BY <1>1, <2>4 DEF None
    <3> QED
      BY <1>1, <2>2, <2>4, <3>1 DEF Chain, NilIsLast
  <2> QED
    BY <2>1, <2>3, <2>4
<1> QED
  BY <1>4, <1>5

LEMMA CallStepKeepsOrder ==
  ASSUME Basics, Basics', Chain, NEW f \in DOMAIN calls, CallStep(f)
  PROVE  (Awaited /\ OnePerLayer /\ NilTravels /\ NilIsLast)'
<1> USE DEF Basics
<1>0. PICK new \in Nat : new = Len(calls) + 1
  BY CallFacts
<1>1. /\ StepOf(f) /\ DOMAIN calls' = DOMAIN calls \cup {new} /\ new \notin DOMAIN calls
      /\ \A g \in DOMAIN calls : g < new /\ g \in Nat
      /\ new \in Nat
  <2>1. StepOf(f) /\ DOMAIN calls' = DOMAIN calls \cup {new} /\ new \notin DOMAIN calls
    BY <1>0, NewNumbers DEF Stepped
  <2> QED
    BY <1>0, <2>1, CallFacts
<1>2. /\ calls'[f].at = "waiting" /\ calls'[f].err = None /\ calls'[f].callee = new
      /\ calls'[new].layer = calls[f].layer + 1
      /\ calls'[new].at = "called" /\ calls'[new].err = None
      /\ Waiting(f) => HasResult(f) /\ calls[calls[f].callee].err # "nil"
      /\ Running(f) /\ calls[f].err = None
  BY <1>0 DEF CallStep, Called, StepOf, CallsOK, CallOK, Waiting, At
<1>3. \A h \in DOMAIN calls :
        calls[h].layer = calls[f].layer + 1 => ~Running(h) /\ calls[h].err # "nil"
  BY NothingBelow
<1>4. \A g \in DOMAIN calls :
        /\ g \in DOMAIN calls' /\ calls'[g].layer = calls[g].layer
        /\ Running(g)' <=> Running(g)
        /\ calls'[g].err = calls[g].err
        /\ g # f => calls'[g] = calls[g]
  <2> SUFFICES ASSUME NEW g \in DOMAIN calls
               PROVE  /\ g \in DOMAIN calls' /\ calls'[g].layer = calls[g].layer
                      /\ Running(g)' <=> Running(g)
                      /\ calls'[g].err = calls[g].err
                      /\ g # f => calls'[g] = calls[g]
    OBVIOUS
  <2>1. CASE g = f
    BY <1>1, <1>2, <2>1 DEF StepOf, Running, At
  <2>2. CASE g # f
    BY <1>1, <2>2 DEF StepOf, Running, At
  <2> QED
    BY <2>1, <2>2
<1>5. Running(new)' /\ Waiting(f)' /\ f # new
  BY <1>1, <1>2 DEF Running, At, Waiting
<1>6. Awaited'
  <2> SUFFICES ASSUME NEW g \in DOMAIN calls', g # 1, Running(g)'
               PROVE  \E h \in DOMAIN calls' : Waiting(h)' /\ calls'[h].callee = g
    BY DEF Awaited
  <2>1. CASE g = new
    BY <1>2, <1>4, <1>5, <2>1
  <2>2. CASE g \in DOMAIN calls
    <3>1. PICK h \in DOMAIN calls : Waiting(h) /\ calls[h].callee = g
      BY <1>4, <2>2 DEF Chain, Awaited
    <3>2. h # f
      BY <1>2, <1>4, <2>2, <3>1 DEF HasResult, Running, At
    <3> QED
      BY <1>4, <3>1, <3>2 DEF Waiting, At
  <2> QED
    BY <1>1, <2>1, <2>2
<1>7. OnePerLayer'
  <2> SUFFICES ASSUME NEW g \in DOMAIN calls', NEW h \in DOMAIN calls',
                      Running(g)', calls'[g].layer = calls'[h].layer
               PROVE  h <= g /\ (Running(h)' => g = h)
    BY DEF OnePerLayer
  <2>1. CASE g \in DOMAIN calls /\ h \in DOMAIN calls
    BY <1>4, <2>1 DEF Chain, OnePerLayer
  <2>2. CASE g = new /\ h \in DOMAIN calls
    BY <1>1, <1>2, <1>3, <1>4, <2>2
  <2>3. CASE g \in DOMAIN calls /\ h = new
    BY <1>2, <1>3, <1>4, <2>3
  <2>4. CASE g = new /\ h = new
    BY <1>1, <2>4
  <2> QED
    BY <1>1, <2>1, <2>2, <2>3, <2>4
<1>8. NilTravels'
  <2> SUFFICES ASSUME NEW g \in DOMAIN calls', g # 1, calls'[g].err = "nil"
               PROVE  \E h \in DOMAIN calls' :
                        /\ h < g /\ calls'[h].callee = g
                        /\ calls'[g].layer = calls'[h].layer + 1
                        /\ Waiting(h)' \/ calls'[h].err = "nil"
    BY DEF NilTravels
  <2>1. g \in DOMAIN calls /\ calls[g].err = "nil"
    BY <1>1, <1>2, <1>4 DEF None
  <2>2. PICK h \in DOMAIN calls :
          /\ h < g /\ calls[h].callee = g /\ calls[g].layer = calls[h].layer + 1
          /\ Waiting(h) \/ calls[h].err = "nil"
    BY <2>1 DEF Chain, NilTravels
  <2>3. h # f
    BY <1>2, <2>1, <2>2 DEF None
  <2> QED
    BY <1>4, <2>1, <2>2, <2>3 DEF Waiting, At
<1>9. NilIsLast'
  <2> SUFFICES ASSUME NEW g \in DOMAIN calls', NEW h \in DOMAIN calls',
                      calls'[g].err = "nil", calls'[g].layer = calls'[h].layer, g # h
               PROVE  ~Running(h)' /\ calls'[h].err # "nil"
    BY DEF NilIsLast
  <2>1. g \in DOMAIN calls /\ calls[g].err = "nil"
    BY <1>1, <1>2, <1>4 DEF None
  <2>2. h \in DOMAIN calls
    BY <1>1, <1>2, <1>3, <1>4, <2>1
  <2> QED
    BY <1>4, <2>1, <2>2 DEF Chain, NilIsLast
<1> QED
  BY <1>6, <1>7, <1>8, <1>9

LEMMA AdvanceKeepsOrder ==
  ASSUME Basics, Basics', Chain, NEW f \in DOMAIN calls, Advances(f)
  PROVE  (Awaited /\ OnePerLayer /\ NilTravels /\ NilIsLast)'
<1> USE DEF Basics
<1>1. /\ DOMAIN calls' = DOMAIN calls
      /\ Running(f) /\ calls[f].err = None /\ ~Waiting(f)'
      /\ Waiting(f) => /\ HasResult(f)
                       /\ calls[calls[f].callee].err = "nil" => calls'[f].err = "nil"
      /\ Running(f)' => calls'[f].err = None
  BY DEF Advances, StepOf, CallsOK, CallOK, Waiting, At, Running
<1>2. \A g \in DOMAIN calls :
        /\ calls'[g].layer = calls[g].layer
        /\ Running(g)' => Running(g)
        /\ g # f => calls'[g] = calls[g] /\ Running(g)' = Running(g) /\ Waiting(g)' = Waiting(g)
  BY <1>1 DEF Advances, StepOf, Running, At, Waiting
<1>3. Awaited'
  <2> SUFFICES ASSUME NEW g \in DOMAIN calls, g # 1, Running(g)'
               PROVE  \E h \in DOMAIN calls : Waiting(h)' /\ calls'[h].callee = g
    BY <1>1 DEF Awaited
  <2>1. PICK h \in DOMAIN calls : Waiting(h) /\ calls[h].callee = g
    BY <1>2 DEF Chain, Awaited
  <2>2. h # f
    BY <1>1, <1>2, <2>1 DEF HasResult, Running, At
  <2> QED
    BY <1>2, <2>1, <2>2
<1>4. OnePerLayer'
  BY <1>1, <1>2 DEF Chain, OnePerLayer
<1>5. NilTravels'
  <2> SUFFICES ASSUME NEW g \in DOMAIN calls, g # 1, calls'[g].err = "nil"
               PROVE  \E h \in DOMAIN calls :
                        /\ h < g /\ calls'[h].callee = g
                        /\ calls'[g].layer = calls'[h].layer + 1
                        /\ Waiting(h)' \/ calls'[h].err = "nil"
    BY <1>1 DEF NilTravels
  <2>1. CASE g = f
    <3>1. PICK h \in DOMAIN calls : Waiting(h) /\ calls[h].callee = g
      BY <1>1, <2>1 DEF Chain, Awaited
    <3>2. h < g /\ calls[g].layer = calls[h].layer + 1 /\ h # g
      BY <3>1, CallFacts DEF CallsOK, CallOK
    <3> QED
      BY <1>2, <2>1, <3>1, <3>2
  <2>2. CASE g # f
    <3>1. PICK h \in DOMAIN calls :
            /\ h < g /\ calls[h].callee = g /\ calls[g].layer = calls[h].layer + 1
            /\ Waiting(h) \/ calls[h].err = "nil"
      BY <1>2, <2>2 DEF Chain, NilTravels
    <3>2. CASE h = f
      <4>1. Waiting(f) /\ calls[f].callee = g /\ calls[g].err = "nil"
        BY <1>1, <1>2, <2>2, <3>1, <3>2 DEF None
      <4>2. calls'[f].err = "nil"
        BY <1>1, <4>1
      <4>3. calls'[f].callee = g
        BY <4>1 DEF Advances
      <4> QED
        BY <1>2, <3>1, <3>2, <4>2, <4>3
    <3>3. CASE h # f
      BY <1>2, <3>1, <3>3
    <3> QED
      BY <3>2, <3>3
  <2> QED
    BY <2>1, <2>2
<1>6. NilIsLast'
  <2> SUFFICES ASSUME NEW g \in DOMAIN calls, NEW h \in DOMAIN calls,
                      calls'[g].err = "nil", calls'[g].layer = calls'[h].layer, g # h
               PROVE  ~Running(h)' /\ calls'[h].err # "nil"
    BY <1>1 DEF NilIsLast
  <2>1. CASE g = f
    <3>1. ~Running(h)
      BY <1>1, <1>2, <2>1 DEF Chain, OnePerLayer
    <3>2. calls[h].err # "nil"
      BY <1>1, <1>2, <2>1 DEF Chain, NilIsLast
    <3> QED
      BY <1>2, <2>1, <3>1, <3>2
  <2>2. CASE g # f
    <3>1. ~Running(h) /\ calls[h].err # "nil"
      BY <1>2, <2>2 DEF Chain, NilIsLast
    <3> QED
      BY <1>1, <1>2, <3>1
  <2> QED
    BY <2>1, <2>2
<1> QED
  BY <1>3, <1>4, <1>5, <1>6

LEMMA CountsAreNumbers ==
  ASSUME TypeOK, NEW n \in DOMAIN layers
  PROVE  /\ \A m : IsFiniteSet(CallsOf(m)) /\ Cardinality(CallsOf(m)) \in Nat
         /\ TriesOf(n) \in Nat
         /\ \A f \in DOMAIN calls : Kids(f) \in Nat
<1>1. ASSUME NEW m PROVE IsFiniteSet(CallsOf(m)) /\ Cardinality(CallsOf(m)) \in Nat
  <2>1. CallsOf(m) \in SUBSET DOMAIN calls /\ calls \in Seq(CallRecords)
    BY DEF CallsOf, TypeOK
  <2> QED
    BY <2>1, PositionsFinite
<1>2. TriesOf(n) \in Nat
  BY DEF TypeOK, TriesOf
<1>3. \A f \in DOMAIN calls : Kids(f) \in Nat
  BY CallFacts DEF Kids
<1> QED
  BY <1>1, <1>2, <1>3

(* A new call of the layer below is one try more of its caller.            *)
LEMMA CallStepCounts ==
  ASSUME Basics, Basics', Chain, NEW f \in DOMAIN calls, CallStep(f)
  PROVE  TriesCount'
<1> USE DEF Basics
<1> SUFFICES ASSUME Committed' = {}, NEW n \in DOMAIN layers'
             PROVE  Counted(n)'
  BY DEF TriesCount
<1>0. PICK new \in Nat : new = Len(calls) + 1
  BY CallFacts
<1>1. PICK layer \in Nat : layer = calls[f].layer
  BY CallFacts
<1>2. /\ StepOf(f) /\ DOMAIN calls' = DOMAIN calls \cup {new} /\ new \notin DOMAIN calls
      /\ layers' = layers /\ retries' = retries /\ Running(f)
      /\ calls'[f].at = "waiting" /\ calls'[new].layer = layer + 1 /\ calls'[new].at = "called"
  BY <1>0, <1>1, NewNumbers DEF Stepped, StepOf, CallStep, Called
<1>3. n \in DOMAIN layers /\ n \in Nat /\ TriesOf(n)' = TriesOf(n)
  BY <1>2, CallFacts DEF TriesOf
<1>4. Counted(n)
  <2>1. Committed = {}
    BY KeepsReturned DEF Stepped
  <2> QED
    BY <1>3, <2>1 DEF Chain, TriesCount
<1>5. \A g \in DOMAIN calls :
        /\ calls'[g].layer = calls[g].layer
        /\ g # f => calls'[g] = calls[g]
  BY <1>2 DEF StepOf
<1>6. \A m \in Nat : CallsOf(m)' = IF m = layer + 1 THEN CallsOf(m) \cup {new} ELSE CallsOf(m)
  BY <1>2, <1>5 DEF CallsOf
<1>7. new \notin CallsOf(layer + 1)
  BY <1>2 DEF CallsOf
<1>8. /\ \A m : IsFiniteSet(CallsOf(m)) /\ Cardinality(CallsOf(m)) \in Nat
      /\ TriesOf(n) \in Nat
      /\ \A g \in DOMAIN calls : Kids(g) \in Nat
  BY <1>3, CountsAreNumbers
<1>9. \A m \in Nat : m = layer + 1 => Cardinality(CallsOf(m)') = Cardinality(CallsOf(m)) + 1
  BY <1>6, <1>7, <1>8, FS_AddElement
<1>10. Kids(f)' = Kids(f) + 1
  <2>1. Kids(f)' = calls'[f].tries + 1
    BY <1>2 DEF Kids, Waiting, At
  <2>2. CASE At(f, "called")
    BY <2>1, <2>2 DEF CallStep, Kids, Waiting, At
  <2>3. CASE ~At(f, "called")
    BY <2>1, <2>3, CallFacts DEF CallStep, Kids
  <2> QED
    BY <2>2, <2>3
<1>11. CASE n = layer
  <2>1. CallsOf(n)' = CallsOf(n) /\ Cardinality(CallsOf(n + 1)') = Cardinality(CallsOf(n + 1)) + 1
    BY <1>1, <1>3, <1>6, <1>9, <1>11
  <2>2. f \in CallsOf(n) /\ Running(f)' /\ f \in CallsOf(n)'
    BY <1>1, <1>2, <1>11, <2>1 DEF CallsOf, Running, At
  <2>3. Cardinality(CallsOf(n + 1)) = (Cardinality(CallsOf(n)) - 1) * TriesOf(n) + Kids(f)
    BY <1>2, <1>4, <2>2 DEF Counted
  <2>4. Cardinality(CallsOf(n + 1)') = (Cardinality(CallsOf(n)') - 1) * TriesOf(n)' + Kids(f)'
    <3> DEFINE done == (Cardinality(CallsOf(n)) - 1) * TriesOf(n)
    <3>1. done \in Int
      BY <1>8
    <3>2. (Cardinality(CallsOf(n)') - 1) * TriesOf(n)' = done
      BY <1>3, <2>1
    <3> HIDE DEF done
    <3>3. Cardinality(CallsOf(n + 1)') = Cardinality(CallsOf(n + 1)) + 1
          /\ Cardinality(CallsOf(n + 1)) = done + Kids(f)
      BY <2>1, <2>3 DEF done
    <3> QED
      BY <1>8, <1>10, <3>1, <3>2, <3>3
  <2>5. \A g \in CallsOf(n)' : Running(g)' => g = f
    <3> SUFFICES ASSUME NEW g \in CallsOf(n)', Running(g)' PROVE g = f
      OBVIOUS
    <3>1. g \in DOMAIN calls /\ calls[g].layer = calls[f].layer
      BY <1>1, <1>11, <2>1 DEF CallsOf
    <3>2. g # f => Running(g)
      BY <1>5, <3>1 DEF Running, At
    <3> QED
      BY <1>2, <3>1, <3>2 DEF Chain, OnePerLayer
  <2> QED
    BY <2>2, <2>4, <2>5 DEF Counted
<1>12. CASE n = layer + 1
  <2>1. CallsOf(n + 1)' = CallsOf(n + 1) /\ Cardinality(CallsOf(n)') = Cardinality(CallsOf(n)) + 1
    BY <1>3, <1>6, <1>9, <1>12
  <2>2. \A g \in CallsOf(n) : ~Running(g)
    BY <1>1, <1>12, NothingBelow DEF CallsOf
  <2>3. Cardinality(CallsOf(n + 1)) = Cardinality(CallsOf(n)) * TriesOf(n)
    BY <1>4, <2>2 DEF Counted
  <2>4. /\ Running(new)' /\ Kids(new)' = 0 /\ new \in CallsOf(n)'
    BY <1>2, <1>12 DEF Running, At, Kids, Waiting, CallsOf
  <2>5. \A g \in CallsOf(n)' : Running(g)' => g = new
    <3>1. \A g \in CallsOf(n) : g # f /\ g \in DOMAIN calls
      BY <1>2, <2>2 DEF CallsOf
    <3>2. \A g \in CallsOf(n) : ~Running(g)'
      BY <1>5, <2>2, <3>1 DEF Running, At
    <3> QED
      BY <1>3, <1>6, <1>12, <3>2
  <2>6. Cardinality(CallsOf(n + 1)') = (Cardinality(CallsOf(n)') - 1) * TriesOf(n)' + Kids(new)'
    <3>1. Cardinality(CallsOf(n)') - 1 = Cardinality(CallsOf(n))
      BY <1>8, <2>1
    <3>2. (Cardinality(CallsOf(n)') - 1) * TriesOf(n)' = Cardinality(CallsOf(n + 1))
      BY <1>3, <2>3, <3>1
    <3> QED
      BY <1>8, <2>1, <2>4, <3>2
  <2> QED
    BY <2>4, <2>5, <2>6 DEF Counted
<1>13. CASE n # layer /\ n # layer + 1
  <2>1. CallsOf(n)' = CallsOf(n) /\ CallsOf(n + 1)' = CallsOf(n + 1)
    BY <1>1, <1>3, <1>6, <1>13
  <2>2. \A g \in CallsOf(n) : calls'[g] = calls[g]
    BY <1>1, <1>5, <1>13 DEF CallsOf
  <2>3. \A g \in CallsOf(n) : Kids(g)' = Kids(g) /\ (Running(g)' = Running(g))
    BY <2>2 DEF Kids, Running, At, Waiting
  <2> QED
    BY <1>3, <1>4, <2>1, <2>3 DEF Counted
<1> QED
  BY <1>11, <1>12, <1>13

(* A layer returns an error only after its last try.                       *)
LEMMA AdvanceCounts ==
  ASSUME Basics, Basics', Chain, NEW f \in DOMAIN calls, Advances(f),
         ReturnStep(f) \/ ServiceStep(f), ~TimedOut'
  PROVE  TriesCount'
<1> USE DEF Basics
<1> SUFFICES ASSUME Committed' = {}, NEW n \in DOMAIN layers'
             PROVE  Counted(n)'
  BY DEF TriesCount
<1>1. /\ StepOf(f) /\ DOMAIN calls' = DOMAIN calls
      /\ layers' = layers /\ retries' = retries /\ Running(f)
      /\ CallOK(f)
  BY DEF Advances, StepOf, CallsOK
<1>2. n \in DOMAIN layers /\ n \in Nat /\ TriesOf(n)' = TriesOf(n)
      /\ n <= Len(layers)
  BY <1>1, CallFacts DEF TriesOf
<1>3. Committed = {}
  <2>1. \A g \in Committed : g \in Committed'
    <3>1. \A g \in DOMAIN calls : calls'[g].layer = calls[g].layer
                                  /\ (calls[g].err = "nil" => calls'[g] = calls[g])
      BY <1>1 DEF StepOf, CallsOK, CallOK, None
    <3> QED
      BY <1>1, <3>1 DEF Committed, Attempts, IsService
  <2> QED
    BY <2>1
<1>4. Counted(n)
  BY <1>2, <1>3 DEF Chain, TriesCount
<1>5. \A g \in DOMAIN calls :
        /\ calls'[g].layer = calls[g].layer
        /\ g # f => calls'[g] = calls[g]
  BY <1>1 DEF StepOf
<1>6. \A m : CallsOf(m)' = CallsOf(m)
  BY <1>1, <1>5 DEF CallsOf
<1>7. CASE calls[f].layer # n
  <2>1. \A g \in CallsOf(n) : calls'[g] = calls[g]
    BY <1>5, <1>7 DEF CallsOf
  <2>2. \A g \in CallsOf(n) : Kids(g)' = Kids(g) /\ (Running(g)' = Running(g))
    BY <2>1 DEF Kids, Running, At, Waiting
  <2> QED
    BY <1>2, <1>4, <1>6, <2>2 DEF Counted
<1>8. CASE calls[f].layer = n
  <2>1. ~IsService(f) /\ ReturnStep(f)
    BY <1>2, <1>8, CallFacts DEF IsService, ServiceStep
  <2>2. calls'[f].at = "returned" /\ Is(f, "retry") = (layers[n] = "retry")
    BY <1>8, <2>1 DEF ReturnStep, Is
  <2>3. /\ \A m : Cardinality(CallsOf(m)) \in Nat
        /\ TriesOf(n) \in Nat /\ Kids(f) \in Nat
    BY <1>2, CountsAreNumbers
  <2>4. Kids(f) = TriesOf(n)
    <3>1. CASE At(f, "called")
      <4>1. ~Waiting(f)
        BY <3>1 DEF Waiting, At
      <4> QED
        BY <2>1, <2>2, <4>1 DEF ReturnStep, Kids, TriesOf
    <3>2. CASE ~At(f, "called")
      <4>1. Waiting(f)
        BY <2>1, <3>2 DEF ReturnStep
      <4>2. IF Is(f, "retry") THEN calls[f].tries < retries ELSE calls[f].tries = 0
        BY <1>1, <4>1 DEF CallOK
      <4>3. calls'[f].err # "nil"
        BY <1>1 DEF NilMeansCommitted
      <4>4. ~(Is(f, "timeout") /\ calls'[f].err = "timeout")
        <5>1. Is(f, "timeout") => Is(f, "timeout")'
          BY <1>1, <1>5 DEF Is, IsService
        <5> QED
          BY <1>1, <5>1 DEF TimedOut
      <4>5. Is(f, "retry") => calls[f].tries + 1 >= retries
        BY <2>1, <3>2, <4>3, <4>4 DEF ReturnStep
      <4>6. calls[f].tries + 1 = IF Is(f, "retry") THEN retries ELSE 1
        BY <4>2, <4>5, CallFacts
      <4> QED
        BY <2>2, <4>1, <4>6 DEF Kids, TriesOf
    <3> QED
      BY <3>1, <3>2
  <2>5. f \in CallsOf(n)
    BY <1>8 DEF CallsOf
  <2>6. Cardinality(CallsOf(n + 1)) = (Cardinality(CallsOf(n)) - 1) * TriesOf(n) + TriesOf(n)
    BY <1>1, <1>4, <2>4, <2>5 DEF Counted
  <2>7. Cardinality(CallsOf(n + 1)) = Cardinality(CallsOf(n)) * TriesOf(n)
    <3>1. \A c, t \in Nat : (c - 1) * t + t = c * t
      OBVIOUS
    <3> QED
      BY <2>3, <2>6, <3>1
  <2>8. \A g \in CallsOf(n) : ~Running(g)'
    <3> SUFFICES ASSUME NEW g \in CallsOf(n) PROVE ~Running(g)'
      OBVIOUS
    <3>1. CASE g = f
      BY <2>2, <3>1 DEF Running, At
    <3>2. CASE g # f
      <4>1. g \in DOMAIN calls /\ calls[g].layer = calls[f].layer
        BY <1>8 DEF CallsOf
      <4>2. ~Running(g)
        BY <1>1, <3>2, <4>1 DEF Chain, OnePerLayer
      <4> QED
        BY <1>5, <3>2, <4>1, <4>2 DEF Running, At
    <3> QED
      BY <3>1, <3>2
  <2> QED
    BY <1>2, <1>6, <2>7, <2>8 DEF Counted
<1> QED
  BY <1>7, <1>8

(* The numbers BeginsInOrder counts with.                                  *)
LEMMA BeginsAreNumbers ==
  ASSUME TypeOK
  PROVE  /\ Begins \in SUBSET Nat /\ IsFiniteSet(Begins) /\ Cardinality(Begins) \in Nat
         /\ IsFiniteSet(MetBegins) /\ Cardinality(MetBegins) \in Nat
         /\ Attempts \in SUBSET DOMAIN calls
         /\ IsFiniteSet(Begun) /\ Cardinality(Begun) \in Nat
         /\ \A f : Nth(f) \in Nat
<1>1. queue \in Seq(QueueItems) /\ calls \in Seq(CallRecords)
  BY DEF TypeOK
<1>2. /\ Begins \in SUBSET DOMAIN queue /\ MetBegins \in SUBSET DOMAIN queue
      /\ Attempts \in SUBSET DOMAIN calls /\ Begun \in SUBSET DOMAIN calls
      /\ DOMAIN queue \in SUBSET Nat
  BY <1>1, LenProperties DEF Begins, MetBegins, Attempts, Begun
<1>3. IsFiniteSet(Begins) /\ Cardinality(Begins) \in Nat
  BY <1>1, <1>2, PositionsFinite
<1>4. IsFiniteSet(MetBegins) /\ Cardinality(MetBegins) \in Nat
  BY <1>1, <1>2, PositionsFinite
<1>5. IsFiniteSet(Begun) /\ Cardinality(Begun) \in Nat
  BY <1>1, <1>2, PositionsFinite
<1>6. ASSUME NEW f PROVE Nth(f) \in Nat
  <2>1. {g \in Attempts : g <= f} \in SUBSET DOMAIN calls
    BY <1>2
  <2> QED
    BY <1>1, <2>1, PositionsFinite DEF Nth
<1> QED
  BY <1>2, <1>3, <1>4, <1>5, <1>6

(* What BeginsInOrder looks at does not change.                            *)
QuietBegins ==
  /\ Begins' = Begins
  /\ \A n \in Begins : queue'[n].met = queue[n].met
  /\ Begun' = Begun
  /\ \A g \in Begun : Nth(g)' = Nth(g) /\ calls'[g].begin = calls[g].begin

LEMMA QuietKeepsBegins ==
  ASSUME BeginsInOrder, QuietBegins
  PROVE  BeginsInOrder'
<1>1. MetBegins' = MetBegins
  BY DEF MetBegins, QuietBegins
<1> QED
  BY <1>1 DEF BeginsInOrder, QuietBegins

LEMMA CallStepIsQuiet ==
  ASSUME Basics, Basics', NEW f \in DOMAIN calls, CallStep(f)
  PROVE  QuietBegins
<1> USE DEF Basics
<1>0. PICK new \in Nat : new = Len(calls) + 1
  BY CallFacts
<1>1. /\ StepOf(f) /\ DOMAIN calls' = DOMAIN calls \cup {new} /\ new \notin DOMAIN calls
      /\ ~IsService(f) /\ calls'[new].at = "called" /\ queue' = queue
  BY <1>0, NewNumbers DEF Stepped, CallStep, Called
<1>2. /\ \A g \in DOMAIN calls : IsService(g)' = IsService(g)
      /\ \A g \in DOMAIN calls : g \in Nat /\ g < new
      /\ \A g \in DOMAIN calls : g # f => calls'[g] = calls[g]
  BY <1>0, <1>1, KeepsReturned, CallFacts DEF Stepped, StepOf
<1>3. \A g \in DOMAIN calls : IsService(g) => calls'[g] = calls[g]
  BY <1>1, <1>2
<1>4. \A g \in DOMAIN calls : g \in Attempts' <=> g \in Attempts
  BY <1>1, <1>2 DEF Attempts
<1>5. Begun' = Begun
  <2>1. \A g \in DOMAIN calls : g \in Begun' <=> g \in Begun
    BY <1>1, <1>3, <1>4 DEF Begun, Attempts, At
  <2>2. new \notin Begun'
    BY <1>1 DEF Begun, At
  <2> QED
    BY <1>1, <2>1, <2>2 DEF Begun, Attempts
<1>6. ASSUME NEW g \in Begun PROVE Nth(g)' = Nth(g) /\ calls'[g].begin = calls[g].begin
  <2>1. g \in DOMAIN calls /\ IsService(g)
    BY DEF Begun, Attempts
  <2>2. {h \in Attempts' : h <= g} = {h \in Attempts : h <= g}
    <3>1. ASSUME NEW h PROVE (h \in Attempts' /\ h <= g) <=> (h \in Attempts /\ h <= g)
      <4>1. CASE h \in DOMAIN calls
        BY <1>4, <4>1
      <4>2. CASE h = new
        BY <1>1, <1>2, <2>1, <4>2 DEF Attempts
      <4>3. CASE h \notin DOMAIN calls /\ h # new
        BY <1>1, <4>3 DEF Attempts
      <4> QED
        BY <4>1, <4>2, <4>3
    <3> QED
      BY <3>1
  <2> QED
    BY <1>3, <2>1, <2>2 DEF Nth
<1> QED
  BY <1>1, <1>5, <1>6 DEF QuietBegins, Begins

(* In the other steps no call is added.                                    *)
LEMMA SameAttempts ==
  ASSUME Basics, Basics', NEW f \in DOMAIN calls, Stepped(f), DOMAIN calls' = DOMAIN calls
  PROVE  Attempts' = Attempts /\ \A g : Nth(g)' = Nth(g)
<1>1. \A g \in DOMAIN calls : IsService(g)' = IsService(g)
  BY KeepsReturned DEF Basics
<1>2. Attempts' = Attempts
  BY <1>1 DEF Attempts
<1> QED
  BY <1>2 DEF Nth

LEMMA ReturnStepIsQuiet ==
  ASSUME Basics, Basics', NEW f \in DOMAIN calls, ReturnStep(f) \/ EndStep(f),
         DOMAIN calls' = DOMAIN calls
  PROVE  QuietBegins
<1> USE DEF Basics
<1>1. StepOf(f) /\ Attempts' = Attempts /\ \A g : Nth(g)' = Nth(g)
  BY SameAttempts DEF Stepped, ReturnStep, EndStep, ServiceStep
<1>2. \A g \in Attempts :
        /\ g \in DOMAIN calls
        /\ calls'[g].begin = calls[g].begin
        /\ At(g, "called")' <=> At(g, "called")
  <2> SUFFICES ASSUME NEW g \in Attempts
               PROVE  /\ g \in DOMAIN calls
                      /\ calls'[g].begin = calls[g].begin
                      /\ At(g, "called")' <=> At(g, "called")
    OBVIOUS
  <2>1. g \in DOMAIN calls /\ IsService(g)
    BY DEF Attempts
  <2>2. CASE g # f
    BY <1>1, <2>1, <2>2 DEF StepOf, At
  <2>3. CASE g = f
    <3>1. EndStep(f)
      BY <2>1, <2>3 DEF ReturnStep
    <3> QED
      BY <2>1, <2>3, <3>1 DEF EndStep, ServiceStep, At
  <2> QED
    BY <2>2, <2>3
<1>3. Begun' = Begun
  BY <1>1, <1>2 DEF Begun
<1>4. Begins' = Begins /\ \A n \in Begins : queue'[n].met = queue[n].met
  <2>1. CASE ReturnStep(f)
    BY <2>1 DEF ReturnStep, Begins
  <2>2. CASE EndStep(f)
    <3>1. PICK kind \in {"commit", "rollback"} : Met(kind)
      BY <2>2 DEF EndStep
    <3>2. /\ DOMAIN queue' = DOMAIN queue
          /\ \A n \in DOMAIN queue : queue'[n].kind = queue[n].kind
          /\ \A n \in DOMAIN queue : queue[n].kind # kind => queue'[n] = queue[n]
      BY <3>1, MockCall
    <3> QED
      BY <3>2 DEF Begins
  <2> QED
    BY <2>1, <2>2
<1> QED
  BY <1>1, <1>2, <1>3, <1>4 DEF QuietBegins, Begun

(* The attempt that begins is the last and the only one that has not yet,  *)
(* and the first Begin that is left is its.                                *)
LEMMA BeginStepInOrder ==
  ASSUME Basics, Basics', Chain, NEW f \in DOMAIN calls, BeginStep(f),
         DOMAIN calls' = DOMAIN calls
  PROVE  BeginsInOrder'
<1> USE DEF Basics
<1>1. /\ StepOf(f) /\ Attempts' = Attempts /\ \A g : Nth(g)' = Nth(g)
      /\ At(f, "called") /\ f \in Attempts /\ Running(f)
      /\ calls'[f].at # "called"
  BY SameAttempts DEF Stepped, BeginStep, ServiceStep, StepOf, Attempts
<1>2. /\ Begins \in SUBSET Nat /\ IsFiniteSet(Begins) /\ Cardinality(Begins) \in Nat
      /\ IsFiniteSet(MetBegins) /\ Cardinality(MetBegins) \in Nat
      /\ Attempts \in SUBSET DOMAIN calls
      /\ IsFiniteSet(Begun) /\ Cardinality(Begun) \in Nat
      /\ \A g : Nth(g) \in Nat
  BY BeginsAreNumbers
<1>3. f \notin Begun /\ Begun' = Begun \cup {f}
  <2>1. \A g \in Attempts : g # f => calls'[g] = calls[g]
    BY <1>1, <1>2 DEF StepOf
  <2> QED
    BY <1>1, <2>1 DEF Begun, At
<1>4. Cardinality(Begun') = Cardinality(Begun) + 1
  BY <1>2, <1>3, FS_AddElement
<1>5. \A g \in Attempts : g <= f /\ (g # f => g \in Begun)
  <2> SUFFICES ASSUME NEW g \in Attempts PROVE g <= f /\ (g # f => g \in Begun)
    OBVIOUS
  <2>1. calls[g].layer = calls[f].layer
    <3>1. IsService(g) /\ IsService(f) /\ CallOK(g) /\ CallOK(f)
      BY <1>1, <1>2 DEF Attempts, CallsOK
    <3> QED
      BY <1>2, <3>1, CallFacts DEF CallOK, IsService
  <2>2. g <= f /\ (g # f => ~Running(g))
    BY <1>1, <1>2, <2>1 DEF Chain, OnePerLayer
  <2> QED
    BY <2>2 DEF Begun, Running, At
<1>6. Nth(f) = Cardinality(Begun) + 1
  <2>1. {g \in Attempts : g <= f} = Begun \cup {f}
    BY <1>1, <1>5 DEF Begun
  <2> QED
    BY <1>3, <1>4, <2>1 DEF Nth
<1> DEFINE taken == FirstCandidate(queue, InOrder, Call("begin", None, None))
           left == {n \in DOMAIN queue : queue[n].kind = "begin" /\ ~queue[n].met}
<1>7. /\ DOMAIN queue' = DOMAIN queue
      /\ \A n \in DOMAIN queue : queue'[n].kind = queue[n].kind
      /\ Asks("begin") = "rejected" => left = {} /\ queue' = queue
      /\ Asks("begin") # "rejected" =>
           /\ taken \in left
           /\ \A n \in left : taken <= n
           /\ queue'[taken].met
           /\ \A n \in DOMAIN queue : n # taken => queue'[n] = queue[n]
  BY MockCall DEF BeginStep
<1>8. calls'[f].begin = IF Asks("begin") = "rejected" THEN 0 ELSE taken
  BY DEF BeginStep
<1>9. left = Begins \ MetBegins
  BY DEF Begins, MetBegins
<1>10. Begins' = Begins
  BY <1>7 DEF Begins
<1>11. \A g \in Begun : Nth(g)' = Nth(g) /\ calls'[g].begin = calls[g].begin
  <2>1. \A g \in Begun : g # f /\ g \in DOMAIN calls
    BY <1>1, <1>2 DEF Begun
  <2> QED
    BY <1>1, <2>1 DEF StepOf
<1>12. BeginsInOrder
  BY DEF Chain
<1> HIDE DEF taken, left
<1>13. CASE Asks("begin") = "rejected"
  <2>1. MetBegins = Begins /\ queue' = queue
    BY <1>7, <1>9, <1>13 DEF MetBegins
  <2>2. MetBegins' = MetBegins
    BY <1>10, <2>1 DEF MetBegins
  <2>3. Cardinality(Begins) <= Cardinality(Begun)
    BY <1>2, <1>12, <2>1 DEF BeginsInOrder
  <2>4. Cardinality(Begins) < Nth(f) /\ Cardinality(Begins) < Cardinality(Begun')
    BY <1>2, <1>4, <1>6, <2>3
  <2>5. \A g \in Begun' : Nth(g)' <= Cardinality(Begins)' =>
          /\ calls'[g].begin \in Begins'
          /\ Cardinality({n \in Begins' : n <= calls'[g].begin}) = Nth(g)'
    <3> SUFFICES ASSUME NEW g \in Begun', Nth(g)' <= Cardinality(Begins)'
                 PROVE  /\ calls'[g].begin \in Begins'
                        /\ Cardinality({n \in Begins' : n <= calls'[g].begin}) = Nth(g)'
      OBVIOUS
    <3>1. g # f
      BY <1>1, <1>2, <1>10, <2>4
    <3>2. g \in Begun
      BY <1>3, <3>1
    <3> QED
      BY <1>10, <1>11, <1>12, <3>2 DEF BeginsInOrder
  <2>6. \A m, n \in Begins' : m < n /\ queue'[n].met => queue'[m].met
    BY <1>10, <1>12, <2>1 DEF BeginsInOrder
  <2>7. MetBegins' = Begins' /\ Cardinality(Begins)' <= Cardinality(Begun)'
    BY <1>2, <1>4, <1>10, <2>1, <2>2, <2>4
  <2> QED
    BY <2>5, <2>6, <2>7 DEF BeginsInOrder
<1>14. CASE Asks("begin") # "rejected"
  <2>1. /\ taken \in Begins /\ taken \in Nat /\ taken \notin MetBegins
        /\ \A n \in Begins : n < taken => n \in MetBegins
    <3>1. taken \in left /\ \A n \in left : taken <= n
      BY <1>7, <1>14
    <3>2. taken \in Begins /\ taken \in Nat /\ taken \notin MetBegins
      BY <1>2, <1>9, <3>1
    <3>3. ASSUME NEW n \in Begins, n < taken PROVE n \in MetBegins
      <4>1. n \in Nat
        BY <1>2
      <4>2. n \notin left
        BY <3>1, <3>2, <3>3, <4>1
      <4> QED
        BY <1>9, <4>2
    <3> QED
      BY <3>2, <3>3
  <2>2. \A n \in Begins : queue'[n].met <=> queue[n].met \/ n = taken
    <3>1. \A n \in Begins : n \in DOMAIN queue
      BY DEF Begins
    <3> QED
      BY <1>7, <1>14, <3>1
  <2>3. MetBegins' = MetBegins \cup {taken}
    BY <1>10, <2>1, <2>2 DEF MetBegins
  <2>4. Cardinality(MetBegins') = Cardinality(MetBegins) + 1
    BY <1>2, <2>1, <2>3, FS_AddElement
  <2>5. Cardinality(MetBegins) = Cardinality(Begun)
    BY <1>12, <2>1 DEF BeginsInOrder
  <2>6. Cardinality(MetBegins') = Cardinality(Begun')
    BY <1>4, <2>4, <2>5
  <2>7. \A m \in Begins : m \in MetBegins => m < taken
    <3> SUFFICES ASSUME NEW m \in Begins, m \in MetBegins PROVE m < taken
      OBVIOUS
    <3>1. m \in Nat /\ m # taken /\ queue[m].met /\ ~queue[taken].met
      BY <1>2, <2>1 DEF MetBegins
    <3>2. taken < m => queue[taken].met
      BY <1>12, <2>1, <3>1 DEF BeginsInOrder
    <3> QED
      BY <2>1, <3>1, <3>2
  <2>8. {n \in Begins : n <= taken} = MetBegins'
    <3>1. MetBegins \subseteq Begins
      BY DEF MetBegins
    <3>2. ASSUME NEW n \in Begins PROVE n <= taken <=> n \in MetBegins \/ n = taken
      <4>1. n \in Nat
        BY <1>2
      <4> QED
        BY <2>1, <2>7, <4>1
    <3> QED
      BY <2>1, <2>3, <3>1, <3>2
  <2>9. \A m, n \in Begins' : m < n /\ queue'[n].met => queue'[m].met
    <3> SUFFICES ASSUME NEW m \in Begins, NEW n \in Begins, m < n, queue'[n].met
                 PROVE  queue'[m].met
      BY <1>10
    <3>1. CASE n = taken
      BY <2>1, <2>2, <3>1 DEF MetBegins
    <3>2. CASE n # taken
      BY <1>12, <2>2, <3>2 DEF BeginsInOrder
    <3> QED
      BY <3>1, <3>2
  <2>10. \A g \in Begun' : Nth(g)' <= Cardinality(Begins)' =>
           /\ calls'[g].begin \in Begins'
           /\ Cardinality({n \in Begins' : n <= calls'[g].begin}) = Nth(g)'
    <3> SUFFICES ASSUME NEW g \in Begun', Nth(g)' <= Cardinality(Begins)'
                 PROVE  /\ calls'[g].begin \in Begins'
                        /\ Cardinality({n \in Begins' : n <= calls'[g].begin}) = Nth(g)'
      OBVIOUS
    <3>1. CASE g = f
      <4>1. calls'[g].begin = taken /\ Nth(g)' = Nth(f)
        BY <1>1, <1>8, <1>14, <3>1
      <4>2. Cardinality({n \in Begins : n <= taken}) = Nth(f)
        BY <1>4, <1>6, <2>6, <2>8
      <4> QED
        BY <1>10, <2>1, <4>1, <4>2
    <3>2. CASE g # f
      <4>1. g \in Begun
        BY <1>3, <3>2
      <4> QED
        BY <1>10, <1>11, <1>12, <4>1 DEF BeginsInOrder
    <3> QED
      BY <3>1, <3>2
  <2> QED
    BY <2>6, <2>9, <2>10 DEF BeginsInOrder
<1> QED
  BY <1>13, <1>14

------------------------------------------------------------------------------
LEMMA InitBasics ==
  ASSUME Init
  PROVE  /\ Basics /\ calls = <<Called(1)>> /\ DOMAIN calls = {1} /\ Running(1)
         /\ calls[1].layer = 1 /\ calls[1].err = None /\ At(1, "called")
         /\ \A n \in DOMAIN queue : ~queue[n].met
<1>1. layers \in Seq(Layers) /\ retries \in Nat
  BY TransactionCasesAssumption DEF Init
<1>2. queue \in Seq(QueueItems) /\ \A n \in DOMAIN queue : ~queue[n].met
  <2>1. PICK script \in Scripts, ends \in Ends : queue = SetupMock(script, ends)
    BY DEF Init
  <2> DEFINE Fresh == {e \in QueueItems : ~e.met}
             told == Told(script)
             added == [n \in DOMAIN ends |-> Expect(ends[n], None, None, "ok")]
             Clauses == [kind : {"begin", "commit", "rollback"}, outcome : {"ok", "error"}]
  <2>2. script \in Seq(Clauses) /\ ends \in Seq({"commit", "rollback"})
    BY TransactionCasesAssumption
  <2>3. told \in Seq(Fresh)
    <3>1. \A n \in 1 .. Len(script) :
            /\ script[n].kind \in {"begin", "commit", "rollback"}
            /\ script[n].outcome \in {"ok", "error"}
      <4>1. \A n \in 1 .. Len(script) : script[n] \in Clauses
        BY <2>2, ElementOfSeq
      <4> QED
        BY <4>1
    <3>2. \A n \in 1 .. Len(script) :
            Expect(script[n].kind, None, None, script[n].outcome) \in Fresh
      BY <3>1 DEF Expect, QueueItems
    <3>3. Len(script) \in Nat /\ DOMAIN script = 1 .. Len(script)
      BY <2>2, LenProperties
    <3> QED
      BY <3>2, <3>3, IsASeq DEF Told
  <2>4. added \in Seq(Fresh)
    <3>1. \A n \in 1 .. Len(ends) : ends[n] \in {"commit", "rollback"}
      BY <2>2, ElementOfSeq
    <3>2. \A n \in 1 .. Len(ends) : Expect(ends[n], None, None, "ok") \in Fresh
      BY <3>1 DEF Expect, QueueItems
    <3>3. Len(ends) \in Nat /\ DOMAIN ends = 1 .. Len(ends)
      BY <2>2, LenProperties
    <3> QED
      BY <3>2, <3>3, IsASeq
  <2>5. queue = told \o added
    BY <2>1 DEF SetupMock
  <2> HIDE DEF told, added
  <2>6. queue \in Seq(Fresh)
    BY <2>3, <2>4, <2>5, ConcatProperties
  <2>7. \A n \in DOMAIN queue : queue[n] \in Fresh
    BY <2>6, LenProperties, ElementOfSeq
  <2>8. queue \in Seq(QueueItems)
    BY <2>6, SeqMonotonic
  <2> QED
    BY <2>7, <2>8
<1>3. Called(1) \in CallRecords
  BY DEF Called, CallRecords, Errs
<1>4. calls = <<Called(1)>>
  BY DEF Init
<1>5. calls \in Seq(CallRecords) /\ Len(calls) = 1 /\ DOMAIN calls = {1} /\ calls[1] = Called(1)
  BY <1>3, <1>4
<1>6. /\ calls[1].layer = 1 /\ calls[1].at = "called" /\ calls[1].err = None
      /\ calls[1].tries = 0
  BY <1>5 DEF Called
<1>7. Len(layers) \in Nat
  BY <1>1, LenProperties
<1>8. TypeOK /\ EndsAfterReturn
  BY <1>1, <1>2, <1>5 DEF TypeOK, EndsAfterReturn, Init
<1>9. CallsOK
  BY <1>5, <1>6, <1>7 DEF CallsOK, CallOK, Running, At, Waiting
<1>10. NilMeansCommitted
  BY <1>5, <1>6 DEF NilMeansCommitted, None
<1> QED
  BY <1>2, <1>4, <1>5, <1>6, <1>8, <1>9, <1>10 DEF Basics, Running, At

LEMMA InitChain ==
  ASSUME Init
  PROVE  Chain
<1>1. /\ TypeOK /\ DOMAIN calls = {1} /\ Running(1) /\ At(1, "called")
      /\ calls[1].layer = 1 /\ calls[1].err = None
      /\ \A n \in DOMAIN queue : ~queue[n].met
  BY InitBasics DEF Basics
<1>2. Awaited /\ OnePerLayer /\ NilTravels /\ NilIsLast
  BY <1>1 DEF Awaited, OnePerLayer, NilTravels, NilIsLast
<1>3. TriesCount
  <2> SUFFICES ASSUME NEW n \in DOMAIN layers PROVE Counted(n)
    BY DEF TriesCount
  <2>1. n \in Nat /\ n >= 1 /\ TriesOf(n) \in Nat
    BY <1>1, CallFacts, CountsAreNumbers
  <2>2. CallsOf(n + 1) = {} /\ Cardinality(CallsOf(n + 1)) = 0
    BY <1>1, <2>1, FS_EmptySet DEF CallsOf
  <2>3. CASE n = 1
    <3>1. CallsOf(n) = {1} /\ Cardinality(CallsOf(n)) = 1
      <4>1. CallsOf(n) = {1}
        BY <1>1, <2>3 DEF CallsOf
      <4> QED
        BY <4>1, FS_Singleton
    <3>2. Kids(1) = 0
      BY <1>1 DEF Kids, Waiting, At
    <3>3. (Cardinality(CallsOf(n)) - 1) * TriesOf(n) + Kids(1) = 0
      BY <2>1, <3>1, <3>2
    <3> QED
      BY <1>1, <2>2, <3>1, <3>3 DEF Counted
  <2>4. CASE n # 1
    <3>1. CallsOf(n) = {} /\ Cardinality(CallsOf(n)) = 0
      BY <1>1, <2>4, FS_EmptySet DEF CallsOf
    <3> QED
      BY <2>1, <2>2, <3>1 DEF Counted
  <2> QED
    BY <2>3, <2>4
<1>4. BeginsInOrder
  <2>1. Begun = {} /\ MetBegins = {}
    BY <1>1 DEF Begun, MetBegins, Attempts, Begins
  <2> QED
    BY <1>1, <2>1 DEF BeginsInOrder, Begins
<1> QED
  BY <1>2, <1>3, <1>4 DEF Chain

LEMMA InitIInv == Init => IInv
  BY InitBasics, InitChain DEF IInv, Basics

LEMMA NextIInv == IInv /\ [Next]_vars => IInv'
<1> SUFFICES ASSUME IInv, [Next]_vars PROVE IInv'
  OBVIOUS
<1>1. Basics
  BY DEF IInv, Basics
<1>2. CASE UNCHANGED vars
  <2>1. UNCHANGED <<layers, retries, expects, queue, calls, verdict>>
    BY <1>2 DEF vars
  <2>2. Basics'
    BY <1>1, <2>1 DEF Basics, TypeOK, CallsOK, CallOK, Running, At, Waiting, IsService, Is,
       NilMeansCommitted, Committed, Attempts, EndsAfterReturn
  <2>3. TimedOut' = TimedOut
    BY <2>1 DEF TimedOut, Is, IsService
  <2>4. Chain => Chain'
    BY <2>1 DEF Chain, Awaited, OnePerLayer, NilTravels, NilIsLast, TriesCount, Counted, CallsOf,
       TriesOf, Kids, Committed, BeginsInOrder, MetBegins, Begins, Begun, Attempts, Nth, Running,
       At, Waiting, IsService
  <2> QED
    BY <2>2, <2>3, <2>4 DEF IInv, Basics
<1>3. CASE EndTest
  <2>1. UNCHANGED <<layers, retries, expects, queue, calls>> /\ At(1, "returned")
    BY <1>3 DEF EndTest
  <2>2. TypeOK'
    BY <1>1, <1>3, Steps DEF Basics, Next, EndTest, Alive, None
  <2>3. CallsOK' /\ NilMeansCommitted' /\ EndsAfterReturn'
    BY <1>1, <2>1 DEF Basics, CallsOK, CallOK, Running, At, Waiting, IsService, Is,
       NilMeansCommitted, Committed, Attempts, EndsAfterReturn
  <2>4. TimedOut' = TimedOut
    BY <2>1 DEF TimedOut, Is, IsService
  <2>5. Chain => Chain'
    BY <2>1 DEF Chain, Awaited, OnePerLayer, NilTravels, NilIsLast, TriesCount, Counted, CallsOf,
       TriesOf, Kids, Committed, BeginsInOrder, MetBegins, Begins, Begun, Attempts, Nth, Running,
       At, Waiting, IsService
  <2> QED
    BY <2>2, <2>3, <2>4, <2>5 DEF IInv
<1>4. CASE Next /\ ~EndTest
  <2>1. TypeOK' /\ \E f \in DOMAIN calls : Stepped(f)
    BY <1>1, <1>4, Steps DEF Basics
  <2>2. PICK f \in DOMAIN calls : Stepped(f)
    BY <2>1
  <2>3. Basics' /\ (TimedOut => TimedOut')
    BY <1>1, <2>1, <2>2, KeepsBasics, KeepsReturned DEF Basics
  <2>4. ASSUME ~TimedOut' PROVE Chain'
    <3>1. Chain
      BY <2>3, <2>4 DEF IInv
    <3>2. CASE CallStep(f)
      <4>1. (Awaited /\ OnePerLayer /\ NilTravels /\ NilIsLast)'
        BY <1>1, <2>3, <3>1, <3>2, CallStepKeepsOrder
      <4>2. TriesCount'
        BY <1>1, <2>3, <3>1, <3>2, CallStepCounts
      <4>3. BeginsInOrder'
        BY <1>1, <2>3, <3>1, <3>2, CallStepIsQuiet, QuietKeepsBegins DEF Chain
      <4> QED
        BY <4>1, <4>2, <4>3 DEF Chain
    <3>3. CASE Advances(f) /\ ~CallStep(f)
      <4>1. (Awaited /\ OnePerLayer /\ NilTravels /\ NilIsLast)'
        BY <1>1, <2>3, <3>1, <3>3, AdvanceKeepsOrder
      <4>2. ReturnStep(f) \/ ServiceStep(f)
        BY <2>2, <3>3 DEF Stepped, BeginStep, EndStep
      <4>3. TriesCount'
        BY <1>1, <2>3, <2>4, <3>1, <3>3, <4>2, AdvanceCounts
      <4>4. DOMAIN calls' = DOMAIN calls
        BY <3>3 DEF Advances
      <4>5. BeginsInOrder'
        <5>1. CASE ReturnStep(f) \/ EndStep(f)
          BY <1>1, <2>3, <3>1, <4>4, <5>1, ReturnStepIsQuiet, QuietKeepsBegins DEF Chain
        <5>2. CASE BeginStep(f)
          BY <1>1, <2>3, <3>1, <4>4, <5>2, BeginStepInOrder
        <5> QED
          BY <2>2, <3>3, <5>1, <5>2 DEF Stepped
      <4> QED
        BY <4>1, <4>3, <4>5 DEF Chain
    <3> QED
      BY <1>1, <2>2, <2>3, <2>4, <3>2, <3>3, UntimedSteps
  <2> QED
    BY <2>3, <2>4 DEF IInv, Basics
<1> QED
  BY <1>2, <1>3, <1>4

------------------------------------------------------------------------------
(* IInv is an invariant of every case: whatever its layers, its script and *)
(* its number of tries, and however the service and the clock go.          *)
THEOREM InvariantHolds == Spec => []IInv
<1>1. Init => IInv
  BY InitIInv
<1>2. IInv /\ [Next]_vars => IInv'
  BY NextIInv
<1> QED
  BY <1>1, <1>2, PTL DEF Spec

(* While nothing timed out, a call that runs is one the first call waits   *)
(* for, so that nothing runs any more when that has returned.              *)
LEMMA RunsUnderTheFirst ==
  ASSUME IInv, ~TimedOut, NEW g \in DOMAIN calls, Running(g)
  PROVE  Running(1)
<1> DEFINE R == {f \in DOMAIN calls : Running(f)}
<1>1. TypeOK /\ CallsOK /\ Awaited
  BY DEF IInv, Chain
<1>2. R \in SUBSET Nat /\ R # {}
  BY <1>1, CallFacts
<1>3. PICK f \in R : \A h \in R : f <= h
  BY <1>2, LeastExists
<1>4. f = 1
  <2> SUFFICES ASSUME f # 1 PROVE FALSE
    OBVIOUS
  <2>1. PICK e \in DOMAIN calls : Waiting(e) /\ calls[e].callee = f
    BY <1>1, <1>3 DEF Awaited
  <2>2. e < f /\ Running(e)
    BY <1>1, <2>1 DEF CallsOK, CallOK, Waiting, Running, At
  <2> QED
    BY <1>2, <1>3, <2>2
<1> QED
  BY <1>3, <1>4

(* ... and a nil that a call returned has travelled up to the first.       *)
LEMMA NilReachesTheFirst ==
  ASSUME IInv, ~TimedOut, ~Running(1), NEW g \in DOMAIN calls, calls[g].err = "nil"
  PROVE  calls[1].err = "nil"
<1> DEFINE N == {f \in DOMAIN calls : calls[f].err = "nil"}
<1>1. TypeOK /\ NilTravels
  BY DEF IInv, Chain
<1>2. N \in SUBSET Nat /\ N # {}
  BY <1>1, CallFacts
<1>3. PICK f \in N : \A h \in N : f <= h
  BY <1>2, LeastExists
<1>4. f = 1
  <2> SUFFICES ASSUME f # 1 PROVE FALSE
    OBVIOUS
  <2>1. PICK e \in DOMAIN calls : e < f /\ (Waiting(e) \/ calls[e].err = "nil")
    BY <1>1, <1>3 DEF NilTravels
  <2>2. ~Waiting(e)
    BY RunsUnderTheFirst DEF Waiting, Running, At
  <2>3. e \in N
    BY <2>1, <2>2
  <2> QED
    BY <1>2, <1>3, <2>1, <2>3
<1> QED
  BY <1>3, <1>4

(* What a case returns is what became of its transaction, and an error has *)
(* come after as many tries as the layers may make, unless one timed out.  *)
THEOREM ErrorsHonest == Spec => []ErrorsAreHonest
<1>1. IInv => ErrorsAreHonest
  <2> SUFFICES ASSUME IInv, At(1, "returned") PROVE
        IF calls[1].err = "nil" THEN Committed # {}
        ELSE \/ TimedOut
             \/ /\ Committed = {}
                /\ Cardinality(CallsOf(1)) = 1
                /\ \A n \in DOMAIN layers :
                     Cardinality(CallsOf(n + 1)) = Cardinality(CallsOf(n)) * TriesOf(n)
    BY DEF ErrorsAreHonest
  <2>1. /\ 1 \in DOMAIN calls /\ \A f \in DOMAIN calls : calls[f].layer = 1 <=> f = 1
        /\ NilMeansCommitted /\ ~Running(1)
    BY CallFacts DEF IInv, CallsOK, CallOK, Running
  <2>2. CASE calls[1].err = "nil"
    BY <2>1, <2>2 DEF NilMeansCommitted
  <2>3. CASE calls[1].err # "nil" /\ ~TimedOut
    <3>1. Committed = {}
      BY <2>1, <2>3, NilReachesTheFirst DEF Committed, Attempts
    <3>2. Cardinality(CallsOf(1)) = 1
      <4>1. CallsOf(1) = {1}
        BY <2>1 DEF CallsOf
      <4> QED
        BY <4>1, FS_Singleton
    <3>3. \A f \in DOMAIN calls : ~Running(f)
      BY <2>1, <2>3, RunsUnderTheFirst
    <3>4. ASSUME NEW n \in DOMAIN layers
          PROVE  Cardinality(CallsOf(n + 1)) = Cardinality(CallsOf(n)) * TriesOf(n)
      <4>1. Counted(n)
        BY <2>3, <3>1 DEF IInv, Chain, TriesCount
      <4>2. \A f \in CallsOf(n) : ~Running(f)
        BY <3>3 DEF CallsOf
      <4> QED
        BY <4>1, <4>2 DEF Counted
    <3> QED
      BY <2>3, <3>1, <3>2, <3>4
  <2> QED
    BY <2>2, <2>3
<1> QED
  BY <1>1, InvariantHolds, PTL

(* A set of positions no two of which differ has at most one.              *)
LEMMA AtMostOne ==
  ASSUME NEW S, \A x, y \in S : x = y
  PROVE  Cardinality(S) <= 1
<1>1. CASE S = {}
  BY <1>1, FS_EmptySet
<1>2. CASE S # {}
  <2>1. PICK x \in S : TRUE
    BY <1>2
  <2>2. S = {x}
    BY <2>1
  <2> QED
    BY <2>2, FS_Singleton
<1> QED
  BY <1>1, <1>2

(* Without a timeout the attempts come one at a time, each begins with the *)
(* Begin the script has for it, and at most one of them commits.           *)
THEOREM AttemptsScripted == Spec => []AttemptsFollowTheScript
<1>1. IInv => AttemptsFollowTheScript
  <2> SUFFICES ASSUME IInv, ~TimedOut
               PROVE  /\ Cardinality({f \in Attempts : Running(f)}) <= 1
                      /\ Cardinality(Committed) <= 1
                      /\ \A f \in Attempts :
                           ~At(f, "called") /\ Nth(f) <= Cardinality(Begins) =>
                             /\ calls[f].begin \in Begins
                             /\ Cardinality({n \in Begins : n <= calls[f].begin}) = Nth(f)
    BY DEF AttemptsFollowTheScript
  <2>1. TypeOK /\ CallsOK /\ Chain
    BY DEF IInv
  <2>2. \A f, g \in Attempts : f \in DOMAIN calls /\ calls[f].layer = calls[g].layer
    <3> SUFFICES ASSUME NEW f \in Attempts, NEW g \in Attempts
                 PROVE  f \in DOMAIN calls /\ calls[f].layer = calls[g].layer
      OBVIOUS
    <3>1. f \in DOMAIN calls /\ g \in DOMAIN calls /\ IsService(f) /\ IsService(g)
      BY DEF Attempts
    <3> QED
      BY <2>1, <3>1, CallFacts DEF CallsOK, CallOK, IsService
  <2>3. \A f, g \in {h \in Attempts : Running(h)} : f = g
    BY <2>1, <2>2 DEF Chain, OnePerLayer
  <2>4. \A f, g \in Committed : f = g
    BY <2>1, <2>2 DEF Chain, NilIsLast, Committed
  <2>5. \A f \in Attempts :
          ~At(f, "called") /\ Nth(f) <= Cardinality(Begins) =>
            /\ calls[f].begin \in Begins
            /\ Cardinality({n \in Begins : n <= calls[f].begin}) = Nth(f)
    BY <2>1 DEF Chain, BeginsInOrder, Begun
  <2> QED
    BY <2>3, <2>4, <2>5, AtMostOne
<1> QED
  BY <1>1, InvariantHolds, PTL

(* Nothing of a case that did not time out goes on once its test has ended.*)
THEOREM NothingOutlives == Spec => NothingOutlivesTheTest
<1>1. IInv /\ [Next]_vars => [verdict # None /\ calls' # calls => TimedOut]_vars
  <2> SUFFICES ASSUME IInv, Next, verdict # None, calls' # calls, ~TimedOut
               PROVE  FALSE
    OBVIOUS
  <2>1. ~Running(1)
    BY DEF IInv, EndsAfterReturn, Running, At
  <2>2. PICK f \in DOMAIN calls : Stepped(f)
    BY Steps DEF IInv, EndTest
  <2>3. Running(f)
    BY <2>2 DEF Stepped, CallStep, ReturnStep, BeginStep, EndStep, ServiceStep, StepOf
  <2> QED
    BY <2>1, <2>3, RunsUnderTheFirst
<1> QED
  BY <1>1, InvariantHolds, PTL DEF Spec, NothingOutlivesTheTest
=============================================================================
