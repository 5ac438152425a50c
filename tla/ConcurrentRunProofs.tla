-------------------------- MODULE ConcurrentRunProofs --------------------------
(***************************************************************************)
(* Proofs about ConcurrentRun, for every number of routines.               *)
(*                                                                         *)
(* The inductive invariant IInv adds to TypeOK what the code relies on     *)
(* without saying it: which goroutines the wait group counts, that closing *)
(* follows counting, that what was sent on errorChan, drained or not, is   *)
(* one entry for each routine that has failed and reported, and that the   *)
(* result channel is used at most once.                                    *)
(***************************************************************************)
EXTENDS ConcurrentRun, FiniteSetTheorems, SequenceTheorems, TLAPS

Running  == {i \in IDs : waiter[i] \in {"fresh", "selecting", "reporting", "exiting"}}
Finished == {i \in IDs : waiter[i] \in {"exiting", "exited"}}

Reported == errors \o errorChan     \* everything ever sent on errorChan

StartedInOrder ==
  /\ \A i \in IDs : waiter[i] = "unborn" <=> i >= started
  /\ main # "starting" => started = NumRoutines

WaitGroupCounts == wg = Cardinality(Running)

ClosedLast ==
  /\ closed <=> main \in {"draining", "returned"}
  /\ closed => Running = {}
  /\ main = "returned" => errorChan = <<>>

DeadlineHonest ==
  /\ ctx = "open" => main # "returned"
  /\ ctx = "cancelled" => main = "returned"
  /\ \A i \in IDs : verdict[i] = "timeout" => ctx = "expired"

VerdictsFollow ==
  \A i \in IDs :
    /\ verdict[i] = "none" <=> waiter[i] \in {"unborn", "fresh", "selecting"}
    /\ waiter[i] = "reporting" => verdict[i] \in {"err", "timeout"}

RoomToReport == Len(errorChan) <= Cardinality(Finished)

ReportedRight ==
  \A n \in 1 .. Len(Reported) :
    /\ Reported[n].id \in Finished
    /\ Reported[n].kind = verdict[Reported[n].id]
    /\ Reported[n].kind # "ok"

ReportedOnce ==
  \A m, n \in 1 .. Len(Reported) : Reported[m].id = Reported[n].id => m = n

ReportedAll ==
  \A i \in Finished :
    verdict[i] # "ok" => \E n \in 1 .. Len(Reported) : Reported[n].id = i

ResultUsedOnce ==
  \A i \in IDs :
    /\ waiter[i] \in {"unborn", "fresh"} => worker[i] = "unborn"
    /\ worker[i] = "sending" => returned[i] \in Results
    /\ worker[i] # "exited" => resultChan[i] = <<>>
    /\ Len(resultChan[i]) <= 1
    /\ verdict[i] \in {"ok", "err"} => worker[i] = "exited" /\ resultChan[i] = <<>>

IInv ==
  /\ TypeOK
  /\ StartedInOrder
  /\ WaitGroupCounts
  /\ ClosedLast
  /\ DeadlineHonest
  /\ VerdictsFollow
  /\ RoomToReport
  /\ ReportedRight
  /\ ReportedOnce
  /\ ReportedAll
  /\ ResultUsedOnce

------------------------------------------------------------------------------
(* There are finitely many routines, so what is counted can be counted.    *)
LEMMA IDsFinite == IsFiniteSet(IDs) /\ Cardinality(IDs) = NumRoutines
<1>1. IsFiniteSet(0 .. NumRoutines - 1)
      /\ Cardinality(0 .. NumRoutines - 1) =
           IF 0 > NumRoutines - 1 THEN 0 ELSE NumRoutines - 1 - 0 + 1
  BY NumRoutinesAssumption, FS_Interval
<1> QED
  BY <1>1, NumRoutinesAssumption DEF IDs

(* Any set of routines can be counted and is no larger than all of them.   *)
LEMMA CountsAreNaturals ==
  ASSUME NEW S \in SUBSET IDs
  PROVE  IsFiniteSet(S) /\ Cardinality(S) \in Nat /\ Cardinality(S) <= NumRoutines
BY IDsFinite, FS_Subset, FS_CardinalityType

(* One more send appends to everything sent.                               *)
LEMMA SendAppends ==
  ASSUME NEW S, NEW e \in Seq(S), NEW q \in Seq(S), NEW f \in S
  PROVE  e \o Append(q, f) = Append(e \o q, f)
<1>1. e \o q \in Seq(S) /\ Append(q, f) \in Seq(S) /\ <<f>> \in Seq(S)
  BY ConcatProperties, AppendProperties
<1>2. Append(q, f) = q \o <<f>> /\ Append(e \o q, f) = (e \o q) \o <<f>>
  BY <1>1, AppendIsConcat
<1> QED
  BY <1>1, <1>2, ConcatAssociative

(* Draining moves the head across and changes nothing else.                *)
LEMMA DrainMoves ==
  ASSUME NEW S, NEW e \in Seq(S), NEW q \in Seq(S), q # <<>>
  PROVE  Append(e, Head(q)) \o Tail(q) = e \o q
<1>1. Head(q) \in S /\ Tail(q) \in Seq(S) /\ <<Head(q)>> \in Seq(S)
  BY HeadTailProperties
<1>2. Append(e, Head(q)) = e \o <<Head(q)>>
  BY <1>1, AppendIsConcat
<1>3. <<Head(q)>> \o Tail(q) = q
  <2>1. Len(Tail(q)) = Len(q) - 1 /\ \A n \in 1 .. Len(Tail(q)) : Tail(q)[n] = q[n + 1]
    BY HeadTailProperties
  <2>2. Len(<<Head(q)>> \o Tail(q)) = Len(q)
    BY <1>1, <2>1, ConcatProperties, LenProperties
  <2>3. \A n \in 1 .. Len(q) : (<<Head(q)>> \o Tail(q))[n] = q[n]
    BY <1>1, <2>1, ConcatProperties, LenProperties
  <2> QED
    BY <1>1, <2>2, <2>3, ConcatProperties, SeqEqual
<1> QED
  BY <1>1, <1>2, <1>3, ConcatAssociative

------------------------------------------------------------------------------
(* The invariant holds before the first goroutine is started.              *)
LEMMA InitEstablishes == Init => IInv
<1> SUFFICES ASSUME Init PROVE IInv
  OBVIOUS
<1> USE NumRoutinesAssumption DEF Init
<1>0. <<>> \in Seq(Results) /\ <<>> \in Seq(Failures)
  BY EmptySeq
<1>1. TypeOK
  <2>1. resultChan \in [IDs -> Seq(Results)] /\ errorChan \in Seq(Failures)
        /\ errors \in Seq(Failures)
    BY <1>0
  <2>2. /\ waiter \in [IDs -> {"unborn", "fresh", "selecting", "reporting",
                                "exiting", "exited"}]
        /\ verdict \in [IDs -> {"none", "ok", "err", "timeout"}]
        /\ worker \in [IDs -> {"unborn", "running", "sending", "exited"}]
        /\ returned \in [IDs -> Results \cup {"none"}]
    OBVIOUS
  <2>3. started \in 0 .. NumRoutines /\ wg \in Nat
    OBVIOUS
  <2>4. closed \in BOOLEAN
    OBVIOUS
  <2> QED
    BY <2>1, <2>2, <2>3, <2>4 DEF TypeOK
<1>2. Running = {} /\ Finished = {}
  BY DEF Running, Finished
<1>3. Reported = <<>> /\ Len(Reported) = 0 /\ Len(errorChan) = 0
  BY ConcatEmptySeq, EmptySeq DEF Reported
<1>4. StartedInOrder
  BY DEF StartedInOrder, IDs
<1>5. WaitGroupCounts /\ RoomToReport
  BY <1>2, <1>3, FS_EmptySet DEF WaitGroupCounts, RoomToReport
<1>6. ClosedLast /\ DeadlineHonest /\ VerdictsFollow
  BY DEF ClosedLast, DeadlineHonest, VerdictsFollow
<1>7. ReportedRight /\ ReportedOnce /\ ReportedAll
  BY <1>2, <1>3 DEF ReportedRight, ReportedOnce, ReportedAll
<1>8. ResultUsedOnce
  BY DEF ResultUsedOnce
<1> QED
  BY <1>1, <1>4, <1>5, <1>6, <1>7, <1>8 DEF IInv

(* Every step preserves every part of the invariant: one step per action,  *)
(* and under it first the facts the action needs, then the parts it can    *)
(* disturb, then the others.                                               *)
LEMMA StepPreserves == IInv /\ [Next]_vars => IInv'
<1> SUFFICES ASSUME IInv, [Next]_vars PROVE IInv'
  OBVIOUS
<1> USE NumRoutinesAssumption
<1>0. /\ TypeOK /\ StartedInOrder /\ WaitGroupCounts /\ ClosedLast
      /\ DeadlineHonest /\ VerdictsFollow /\ RoomToReport /\ ReportedRight
      /\ ReportedOnce /\ ReportedAll /\ ResultUsedOnce
  BY DEF IInv
<1>1. CASE Expire
  <2> USE <1>1 DEF Expire, callerVars
  <2>1. TypeOK' /\ StartedInOrder' /\ WaitGroupCounts' /\ ClosedLast' /\
      DeadlineHonest' /\ VerdictsFollow'
    BY <1>0 DEF TypeOK, StartedInOrder, WaitGroupCounts, ClosedLast,
       DeadlineHonest, VerdictsFollow, Running
  <2>2. RoomToReport' /\ ReportedRight' /\ ReportedOnce' /\ ReportedAll' /\
      ResultUsedOnce'
    BY <1>0 DEF TypeOK, RoomToReport, ReportedRight, ReportedOnce,
       ReportedAll, ResultUsedOnce, Finished, Reported
  <2> QED
    BY <2>1, <2>2 DEF IInv
<1>2. CASE Start
  <2> USE <1>2 DEF Start, callerVars
  <2>1. started \in IDs /\ waiter[started] = "unborn"
    BY <1>0 DEF TypeOK, StartedInOrder, IDs
  <2>2. Running' = Running \cup {started} /\ started \notin Running
    BY <1>0, <2>1 DEF TypeOK, Running
  <2>3. Finished' = Finished
    BY <1>0, <2>1 DEF TypeOK, Finished
  <2>4. Cardinality(Running') = Cardinality(Running) + 1
    BY <2>2, CountsAreNaturals, FS_AddElement DEF Running
  <2>5. TypeOK'
    BY <1>0, <2>1 DEF TypeOK
  <2>6. StartedInOrder'
    BY <1>0, <2>1 DEF TypeOK, StartedInOrder, IDs
  <2>7. WaitGroupCounts'
    BY <1>0, <2>4 DEF TypeOK, WaitGroupCounts, Running
  <2>8. ClosedLast'
    BY <1>0, <2>1 DEF TypeOK, ClosedLast, Running
  <2>9. VerdictsFollow'
    BY <1>0, <2>1 DEF TypeOK, VerdictsFollow
  <2>10. RoomToReport'
    BY <1>0, <2>3 DEF TypeOK, RoomToReport, Finished
  <2>11. ReportedRight'
    BY <1>0, <2>3 DEF TypeOK, ReportedRight, Reported, Finished
  <2>12. ReportedAll'
    BY <1>0, <2>3 DEF TypeOK, ReportedAll, Reported, Finished
  <2>13. ResultUsedOnce'
    BY <1>0, <2>1 DEF TypeOK, ResultUsedOnce
  <2>14. DeadlineHonest'
    BY <1>0 DEF TypeOK, DeadlineHonest
  <2>15. ReportedOnce'
    BY <1>0 DEF TypeOK, ReportedOnce, Reported
  <2> QED
    BY <2>5, <2>6, <2>7, <2>8, <2>9, <2>10, <2>11, <2>12, <2>13, <2>14, <2>15
       DEF IInv
<1>3. CASE StartingDone
  <2> USE <1>3 DEF StartingDone, callerVars
  <2>1. TypeOK' /\ StartedInOrder' /\ WaitGroupCounts' /\ ClosedLast' /\
      DeadlineHonest' /\ VerdictsFollow'
    BY <1>0 DEF TypeOK, StartedInOrder, WaitGroupCounts, ClosedLast,
       DeadlineHonest, VerdictsFollow, Running
  <2>2. RoomToReport' /\ ReportedRight' /\ ReportedOnce' /\ ReportedAll' /\
      ResultUsedOnce'
    BY <1>0 DEF TypeOK, RoomToReport, ReportedRight, ReportedOnce,
       ReportedAll, ResultUsedOnce, Finished, Reported
  <2> QED
    BY <2>1, <2>2 DEF IInv
<1>4. CASE WaitReturns
  <2> USE <1>4 DEF WaitReturns, callerVars
  <2>1. Running = {}
    BY <1>0, CountsAreNaturals, FS_EmptySet DEF WaitGroupCounts, Running
  <2>2. ClosedLast'
    BY <1>0, <2>1 DEF TypeOK, ClosedLast, Running
  <2>3. TypeOK' /\ StartedInOrder' /\ WaitGroupCounts' /\ DeadlineHonest' /\
      VerdictsFollow'
    BY <1>0 DEF TypeOK, StartedInOrder, WaitGroupCounts, DeadlineHonest,
       VerdictsFollow, Running
  <2>4. RoomToReport' /\ ReportedRight' /\ ReportedOnce' /\ ReportedAll' /\
      ResultUsedOnce'
    BY <1>0 DEF TypeOK, RoomToReport, ReportedRight, ReportedOnce,
       ReportedAll, ResultUsedOnce, Finished, Reported
  <2> QED
    BY <2>2, <2>3, <2>4 DEF IInv
<1>5. CASE Drain
  <2> USE <1>5 DEF Drain, callerVars
  <2>1. Reported' = Reported
    BY <1>0, DrainMoves DEF TypeOK, Reported
  <2>2. /\ errors' \in Seq(Failures) /\ errorChan' \in Seq(Failures)
        /\ Len(errorChan') = Len(errorChan) - 1 /\ Len(errorChan) \in Nat
    BY <1>0, HeadTailProperties, AppendProperties, LenProperties DEF TypeOK
  <2>3. Finished' = Finished /\ Cardinality(Finished) \in Nat
    BY CountsAreNaturals DEF Finished
  <2>4. TypeOK'
    BY <1>0, <2>2 DEF TypeOK
  <2>5. RoomToReport'
    BY <1>0, <2>2, <2>3 DEF TypeOK, RoomToReport, Finished
  <2>6. ReportedRight'
    BY <1>0, <2>1, <2>3 DEF TypeOK, ReportedRight
  <2>7. ReportedOnce'
    BY <1>0, <2>1 DEF TypeOK, ReportedOnce
  <2>8. ReportedAll'
    BY <1>0, <2>1, <2>3 DEF TypeOK, ReportedAll
  <2>9. StartedInOrder' /\ WaitGroupCounts' /\ ClosedLast' /\ DeadlineHonest'
      /\ VerdictsFollow'
    BY <1>0 DEF TypeOK, StartedInOrder, WaitGroupCounts, ClosedLast,
       DeadlineHonest, VerdictsFollow, Running
  <2>10. ResultUsedOnce'
    BY <1>0 DEF TypeOK, ResultUsedOnce
  <2> QED
    BY <2>4, <2>5, <2>6, <2>7, <2>8, <2>9, <2>10 DEF IInv
<1>6. CASE Return
  <2> USE <1>6 DEF Return, callerVars
  <2>1. TypeOK' /\ StartedInOrder' /\ WaitGroupCounts' /\ ClosedLast' /\
      DeadlineHonest' /\ VerdictsFollow'
    BY <1>0 DEF TypeOK, StartedInOrder, WaitGroupCounts, ClosedLast,
       DeadlineHonest, VerdictsFollow, Running
  <2>2. RoomToReport' /\ ReportedRight' /\ ReportedOnce' /\ ReportedAll' /\
      ResultUsedOnce'
    BY <1>0 DEF TypeOK, RoomToReport, ReportedRight, ReportedOnce,
       ReportedAll, ResultUsedOnce, Finished, Reported
  <2> QED
    BY <2>1, <2>2 DEF IInv
<1>7. ASSUME NEW i \in IDs, StartWorker(i) PROVE IInv'
  <2> USE <1>7 DEF StartWorker, callerVars
  <2>1. Finished' = Finished
    BY <1>0 DEF TypeOK, Finished
  <2>2. Running' = Running
    BY <1>0 DEF TypeOK, Running
  <2>3. WaitGroupCounts'
    BY <1>0, <2>2 DEF TypeOK, WaitGroupCounts
  <2>4. RoomToReport'
    BY <1>0, <2>1 DEF TypeOK, RoomToReport
  <2>5. TypeOK' /\ StartedInOrder' /\ ClosedLast' /\ DeadlineHonest' /\
      VerdictsFollow'
    BY <1>0 DEF TypeOK, StartedInOrder, ClosedLast, DeadlineHonest,
       VerdictsFollow, Running
  <2>6. ReportedRight' /\ ReportedOnce' /\ ReportedAll' /\ ResultUsedOnce'
    BY <1>0 DEF TypeOK, ReportedRight, ReportedOnce, ReportedAll,
       ResultUsedOnce, Reported, Finished
  <2> QED
    BY <2>3, <2>4, <2>5, <2>6 DEF IInv
<1>8. ASSUME NEW i \in IDs, ReceiveResult(i) PROVE IInv'
  <2> USE <1>8 DEF ReceiveResult, callerVars
  <2>1. Running' = Running
    BY <1>0 DEF TypeOK, Running
  <2>2. Tail(resultChan[i]) = <<>> /\ Head(resultChan[i]) \in Results
    BY <1>0, LenProperties, HeadTailProperties, EmptySeq
       DEF TypeOK, ResultUsedOnce
  <2>3. <<>> \in Seq(Results)
    BY EmptySeq
  <2>4. Finished \subseteq Finished' /\ Finished' \subseteq Finished \cup {i}
    BY <1>0 DEF TypeOK, Finished
  <2>5. Cardinality(Finished) <= Cardinality(Finished')
    BY <2>4, CountsAreNaturals, FS_Subset DEF Finished
  <2>6. Len(errorChan) \in Nat /\ Cardinality(Finished) \in Nat /\ Cardinality(Finished') \in Nat
    BY <1>0, CountsAreNaturals, LenProperties DEF TypeOK, Finished
  <2>7. i \notin Finished /\ \A j \in Finished : verdict'[j] = verdict[j]
    BY <1>0 DEF TypeOK, Finished
  <2>8. i \in Finished' => verdict'[i] = "ok"
    BY <1>0 DEF TypeOK, Finished
  <2>9. TypeOK'
    BY <1>0, <2>2, <2>3 DEF TypeOK, Results
  <2>10. WaitGroupCounts'
    BY <1>0, <2>1 DEF TypeOK, WaitGroupCounts
  <2>11. VerdictsFollow'
    BY <1>0 DEF TypeOK, VerdictsFollow
  <2>12. RoomToReport'
    BY <1>0, <2>5, <2>6 DEF TypeOK, RoomToReport
  <2>13. ReportedRight'
    BY <1>0, <2>4, <2>7 DEF TypeOK, ReportedRight, Reported
  <2>14. ReportedAll'
    BY <1>0, <2>4, <2>7, <2>8 DEF TypeOK, ReportedAll, Reported
  <2>15. ResultUsedOnce'
    BY <1>0, <2>2 DEF TypeOK, ResultUsedOnce
  <2>16. StartedInOrder' /\ ClosedLast' /\ DeadlineHonest'
    BY <1>0 DEF TypeOK, StartedInOrder, ClosedLast, DeadlineHonest, Running
  <2>17. ReportedOnce'
    BY <1>0 DEF TypeOK, ReportedOnce, Reported
  <2> QED
    BY <2>9, <2>10, <2>11, <2>12, <2>13, <2>14, <2>15, <2>16, <2>17 DEF IInv
<1>9. ASSUME NEW i \in IDs, SeeDeadline(i) PROVE IInv'
  <2> USE <1>9 DEF SeeDeadline, callerVars
  <2>1. Running' = Running
    BY <1>0 DEF TypeOK, Running
  <2>2. Finished' = Finished
    BY <1>0 DEF TypeOK, Finished
  <2>3. ctx = "expired"
    BY <1>0 DEF TypeOK, DeadlineHonest, ClosedLast, Running
  <2>4. WaitGroupCounts'
    BY <1>0, <2>1 DEF TypeOK, WaitGroupCounts
  <2>5. DeadlineHonest'
    BY <1>0, <2>3 DEF TypeOK, DeadlineHonest
  <2>6. RoomToReport'
    BY <1>0, <2>2 DEF TypeOK, RoomToReport
  <2>7. TypeOK' /\ StartedInOrder' /\ ClosedLast' /\ VerdictsFollow'
    BY <1>0 DEF TypeOK, StartedInOrder, ClosedLast, VerdictsFollow, Running
  <2>8. ReportedRight' /\ ReportedOnce' /\ ReportedAll' /\ ResultUsedOnce'
    BY <1>0 DEF TypeOK, ReportedRight, ReportedOnce, ReportedAll,
       ResultUsedOnce, Reported, Finished
  <2> QED
    BY <2>4, <2>5, <2>6, <2>7, <2>8 DEF IInv
<1>10. ASSUME NEW i \in IDs, SendError(i) PROVE IInv'
  <2> USE <1>10 DEF SendError, callerVars
  <2>1. Running' = Running
    BY <1>0 DEF TypeOK, Running
  <2>2. Finished' = Finished \cup {i} /\ i \notin Finished
    BY <1>0 DEF TypeOK, Finished
  <2>3. Cardinality(Finished') = Cardinality(Finished) + 1 /\ Cardinality(Finished) \in Nat
    BY <2>2, CountsAreNaturals, FS_AddElement DEF Finished
  <2>4. Failure(i, verdict[i]) \in Failures
    BY <1>0 DEF TypeOK, VerdictsFollow, Failure, Failures
  <2>5. /\ errorChan' \in Seq(Failures) /\ Len(errorChan') = Len(errorChan) + 1
        /\ Len(errorChan) \in Nat
    BY <1>0, <2>4, AppendProperties, LenProperties DEF TypeOK
  <2>6. Reported \in Seq(Failures)
    BY <1>0, ConcatProperties DEF TypeOK, Reported
  <2>7. Reported' = Append(Reported, Failure(i, verdict[i]))
    BY <1>0, <2>4, SendAppends DEF TypeOK, Reported
  <2>8. /\ Len(Reported) \in Nat /\ Len(Reported') = Len(Reported) + 1
        /\ \A n \in 1 .. Len(Reported) : Reported'[n] = Reported[n]
        /\ Reported'[Len(Reported) + 1] = Failure(i, verdict[i])
    BY <2>4, <2>6, <2>7, AppendProperties, LenProperties
  <2>9. Failure(i, verdict[i]).id = i /\ Failure(i, verdict[i]).kind = verdict[i]
    BY DEF Failure
  <2>10. /\ verdict[i] # "ok" /\ verdict' = verdict
         /\ \A n \in 1 .. Len(Reported') : n \in 1 .. Len(Reported) \/ n = Len(Reported) + 1
         /\ \A n \in 1 .. Len(Reported) + 1 : n \in 1 .. Len(Reported')
    BY <1>0, <2>8 DEF VerdictsFollow
  <2>11. /\ Reported'[Len(Reported) + 1].id = i
         /\ Reported'[Len(Reported) + 1].kind = verdict[i]
    BY <2>8, <2>9
  <2>12. TypeOK'
    BY <1>0, <2>5 DEF TypeOK
  <2>13. WaitGroupCounts'
    BY <1>0, <2>1 DEF TypeOK, WaitGroupCounts
  <2>14. RoomToReport'
    BY <1>0, <2>3, <2>5 DEF TypeOK, RoomToReport
  <2>15. ReportedRight'
    <3> SUFFICES ASSUME NEW n \in 1 .. Len(Reported')
                 PROVE  /\ Reported'[n].id \in Finished'
                        /\ Reported'[n].kind = verdict[Reported'[n].id]
                        /\ Reported'[n].kind # "ok"
      BY <2>10 DEF ReportedRight
    <3>1. CASE n \in 1 .. Len(Reported)
      BY <1>0, <2>2, <2>8, <3>1 DEF ReportedRight
    <3>2. CASE n = Len(Reported) + 1
      BY <2>2, <2>10, <2>11, <3>2
    <3> QED
      BY <2>10, <3>1, <3>2
  <2>16. ReportedOnce'
    <3>1. \A n \in 1 .. Len(Reported) : Reported[n].id # i
      BY <1>0, <2>2 DEF ReportedRight
    <3>2. \A m, n \in 1 .. Len(Reported) : Reported[m].id = Reported[n].id => m = n
      BY <1>0 DEF ReportedOnce
    <3>3. ASSUME NEW m \in 1 .. Len(Reported'), NEW n \in 1 .. Len(Reported'),
                 Reported'[m].id = Reported'[n].id
          PROVE  m = n
      BY <2>8, <2>10, <2>11, <3>1, <3>2, <3>3
    <3> QED
      BY <3>3 DEF ReportedOnce
  <2>17. ReportedAll'
    <3> SUFFICES ASSUME NEW j \in Finished', verdict[j] # "ok"
                 PROVE  \E n \in 1 .. Len(Reported') : Reported'[n].id = j
      BY <2>10 DEF ReportedAll
    <3>1. CASE j = i
      BY <2>8, <2>10, <2>11, <3>1
    <3>2. CASE j \in Finished
      <4>1. PICK n \in 1 .. Len(Reported) : Reported[n].id = j
        BY <1>0, <3>2 DEF ReportedAll
      <4> QED
        BY <2>8, <2>10, <4>1
    <3> QED
      BY <2>2, <3>1, <3>2
  <2>18. StartedInOrder' /\ ClosedLast' /\ DeadlineHonest' /\ VerdictsFollow'
    BY <1>0 DEF TypeOK, StartedInOrder, ClosedLast, DeadlineHonest,
       VerdictsFollow, Running
  <2>19. ResultUsedOnce'
    BY <1>0 DEF TypeOK, ResultUsedOnce
  <2> QED
    BY <2>12, <2>13, <2>14, <2>15, <2>16, <2>17, <2>18, <2>19 DEF IInv
<1>11. ASSUME NEW i \in IDs, WaiterDone(i) PROVE IInv'
  <2> USE <1>11 DEF WaiterDone, callerVars
  <2>1. Finished' = Finished
    BY <1>0 DEF TypeOK, Finished
  <2>2. Running' = Running \ {i} /\ i \in Running
    BY <1>0 DEF TypeOK, Running
  <2>3. /\ Cardinality(Running') = Cardinality(Running) - 1
        /\ Cardinality(Running) \in Nat /\ Cardinality(Running') \in Nat
    BY <2>2, CountsAreNaturals, FS_RemoveElement DEF Running
  <2>4. TypeOK'
    BY <1>0, <2>3 DEF TypeOK, WaitGroupCounts
  <2>5. WaitGroupCounts'
    BY <1>0, <2>3 DEF TypeOK, WaitGroupCounts
  <2>6. RoomToReport'
    BY <1>0, <2>1 DEF TypeOK, RoomToReport
  <2>7. StartedInOrder' /\ ClosedLast' /\ DeadlineHonest' /\ VerdictsFollow'
    BY <1>0 DEF TypeOK, StartedInOrder, ClosedLast, DeadlineHonest,
       VerdictsFollow, Running
  <2>8. ReportedRight' /\ ReportedOnce' /\ ReportedAll' /\ ResultUsedOnce'
    BY <1>0 DEF TypeOK, ReportedRight, ReportedOnce, ReportedAll,
       ResultUsedOnce, Reported, Finished
  <2> QED
    BY <2>4, <2>5, <2>6, <2>7, <2>8 DEF IInv
<1>12. ASSUME NEW i \in IDs, FnReturns(i) PROVE IInv'
  <2> USE <1>12 DEF FnReturns, callerVars
  <2>1. TypeOK' /\ StartedInOrder' /\ WaitGroupCounts' /\ ClosedLast' /\
      DeadlineHonest' /\ VerdictsFollow'
    BY <1>0 DEF TypeOK, StartedInOrder, WaitGroupCounts, ClosedLast,
       DeadlineHonest, VerdictsFollow, Running
  <2>2. RoomToReport' /\ ReportedRight' /\ ReportedOnce' /\ ReportedAll' /\
      ResultUsedOnce'
    BY <1>0 DEF TypeOK, RoomToReport, ReportedRight, ReportedOnce,
       ReportedAll, ResultUsedOnce, Finished, Reported
  <2> QED
    BY <2>1, <2>2 DEF IInv
<1>13. ASSUME NEW i \in IDs, SendResult(i) PROVE IInv'
  <2> USE <1>13 DEF SendResult, callerVars
  <2>1. resultChan[i] = <<>>
    BY <1>0 DEF ResultUsedOnce
  <2>2. returned[i] \in Results
    BY <1>0 DEF ResultUsedOnce
  <2>3. Append(<<>>, returned[i]) \in Seq(Results) /\ Len(Append(<<>>, returned[i])) = 1
    BY <2>2, EmptySeq, AppendProperties
  <2>4. TypeOK'
    BY <1>0, <2>1, <2>3 DEF TypeOK, Results
  <2>5. ResultUsedOnce'
    BY <1>0, <2>1, <2>3 DEF TypeOK, ResultUsedOnce
  <2>6. StartedInOrder' /\ WaitGroupCounts' /\ ClosedLast' /\ DeadlineHonest'
      /\ VerdictsFollow'
    BY <1>0 DEF TypeOK, StartedInOrder, WaitGroupCounts, ClosedLast,
       DeadlineHonest, VerdictsFollow, Running
  <2>7. RoomToReport' /\ ReportedRight' /\ ReportedOnce' /\ ReportedAll'
    BY <1>0 DEF TypeOK, RoomToReport, ReportedRight, ReportedOnce,
       ReportedAll, Finished, Reported
  <2> QED
    BY <2>4, <2>5, <2>6, <2>7 DEF IInv
<1>14. CASE UNCHANGED vars
  BY <1>0, <1>14 DEF vars, IInv, TypeOK, StartedInOrder, WaitGroupCounts,
     ClosedLast, DeadlineHonest, VerdictsFollow, RoomToReport, ReportedRight,
     ReportedOnce, ReportedAll, ResultUsedOnce, Running, Finished, Reported
<1> QED
  BY <1>1, <1>2, <1>3, <1>4, <1>5, <1>6, <1>7, <1>8, <1>9, <1>10, <1>11,
     <1>12, <1>13, <1>14 DEF Next, Caller, Waiter, Select

------------------------------------------------------------------------------
(* IInv is an invariant of the specification.                              *)
THEOREM InvariantHolds == Spec => []IInv
<1>1. Init => IInv
  BY InitEstablishes
<1>2. IInv /\ [Next]_vars => IInv'
  BY StepPreserves
<1> QED
  BY <1>1, <1>2, PTL DEF Spec

(* Every variable keeps its type; in particular the wait group's counter   *)
(* never goes below zero, which sync.WaitGroup answers with a panic.       *)
THEOREM TypeCorrect == Spec => []TypeOK
<1>1. IInv => TypeOK
  BY DEF IInv
<1> QED
  BY <1>1, InvariantHolds, PTL

(* Once closing has happened every waiter has run to its end.              *)
LEMMA AllFinished == IInv /\ closed => \A i \in IDs : waiter[i] = "exited"
<1> SUFFICES ASSUME IInv, closed, NEW i \in IDs PROVE waiter[i] = "exited"
  OBVIOUS
<1>1. waiter[i] # "unborn"
  BY NumRoutinesAssumption DEF IInv, TypeOK, ClosedLast, StartedInOrder, IDs
<1>2. i \notin Running
  BY DEF IInv, ClosedLast
<1> QED
  BY <1>1, <1>2 DEF IInv, TypeOK, Running

(* No goroutine that may still send on errorChan is left when it is        *)
(* closed, for any number of routines.                                     *)
THEOREM ClosingIsSafe == Spec => []NoSendAfterClose
<1>1. IInv => NoSendAfterClose
  BY AllFinished DEF NoSendAfterClose
<1> QED
  BY <1>1, InvariantHolds, PTL

(* errorChan always has room for a waiter with an error to report: each    *)
(* routine reports at most once and the capacity is their number.          *)
THEOREM ReportingNeverBlocks == Spec => []ReportNeverBlocks
<1>1. ASSUME IInv, NEW i \in IDs, waiter[i] = "reporting"
      PROVE  Len(errorChan) < ErrorCap
  <2>1. Finished \in SUBSET IDs /\ i \notin Finished
    BY <1>1 DEF Finished
  <2>2. /\ Cardinality(Finished \cup {i}) = Cardinality(Finished) + 1
        /\ Cardinality(Finished \cup {i}) <= NumRoutines
    BY <2>1, CountsAreNaturals, FS_AddElement
  <2>3. Len(errorChan) <= Cardinality(Finished) /\ Len(errorChan) \in Nat
    BY <1>1, LenProperties DEF IInv, TypeOK, RoomToReport
  <2> QED
    BY <2>1, <2>2, <2>3, CountsAreNaturals, NumRoutinesAssumption DEF ErrorCap
<1>2. IInv => ReportNeverBlocks
  BY <1>1 DEF ReportNeverBlocks
<1> QED
  BY <1>2, InvariantHolds, PTL

(* A time-out is reported only after the deadline.                         *)
THEOREM TimeoutsHappened == Spec => []TimeoutsAreReal
<1>1. IInv => TimeoutsAreReal
  BY DEF IInv, DeadlineHonest, TimeoutsAreReal
<1> QED
  BY <1>1, InvariantHolds, PTL

(* When errorChan is closed and drained, the slice accounts for every      *)
(* routine: what was sent is what is there, and every routine that failed  *)
(* has sent.                                                               *)
LEMMA DrainedAccounts ==
  ASSUME IInv, closed, errorChan = <<>>
  PROVE  /\ Range(errors) =
              {Failure(i, verdict[i]) : i \in {j \in IDs : verdict[j] # "ok"}}
         /\ \A m, n \in DOMAIN errors : errors[m].id = errors[n].id => m = n
<1>1. /\ errors \in Seq(Failures) /\ DOMAIN errors = 1 .. Len(errors)
      /\ Reported = errors
  BY ConcatEmptySeq, LenProperties DEF IInv, TypeOK, Reported
<1>2. Finished = IDs
  BY AllFinished DEF Finished
<1>3. ASSUME NEW n \in 1 .. Len(errors)
      PROVE  /\ errors[n].id \in IDs /\ verdict[errors[n].id] # "ok"
             /\ errors[n] = Failure(errors[n].id, verdict[errors[n].id])
  <2>1. errors[n] \in Failures
    BY <1>1, ElementOfSeq
  <2>2. errors[n] = Failure(errors[n].id, errors[n].kind)
    BY <2>1 DEF Failures, Failure
  <2> QED
    BY <1>1, <1>2, <2>2 DEF IInv, ReportedRight
<1>4. ASSUME NEW i \in IDs, verdict[i] # "ok"
      PROVE  \E n \in 1 .. Len(errors) : errors[n] = Failure(i, verdict[i])
  <2>1. PICK n \in 1 .. Len(errors) : errors[n].id = i
    BY <1>1, <1>2, <1>4 DEF IInv, ReportedAll
  <2> QED
    BY <1>3, <2>1
<1>5. \A m, n \in 1 .. Len(errors) : errors[m].id = errors[n].id => m = n
  BY <1>1 DEF IInv, ReportedOnce
<1>6. Range(errors) = {errors[n] : n \in 1 .. Len(errors)}
  BY <1>1 DEF Range
<1> QED
  BY <1>1, <1>3, <1>4, <1>5, <1>6

(* The returned slice has one entry for each routine that failed or timed  *)
(* out, none for the others and none twice.                                *)
THEOREM ErrorsAccount == Spec => []ErrorsAccountForRoutines
<1>1. ASSUME IInv PROVE ErrorsAccountForRoutines
  <2> SUFFICES ASSUME main = "returned"
               PROVE  /\ Range(errors) = {Failure(i, verdict[i]) :
                                            i \in {j \in IDs : verdict[j] # "ok"}}
                      /\ \A m, n \in DOMAIN errors :
                           errors[m].id = errors[n].id => m = n
    BY DEF ErrorsAccountForRoutines
  <2>1. closed /\ errorChan = <<>>
    BY <1>1 DEF IInv, ClosedLast
  <2> QED
    BY <1>1, <2>1, DrainedAccounts
<1> QED
  BY <1>1, InvariantHolds, PTL

(* The caller is told of every routine it leaves behind: one whose fn is   *)
(* still running, or whose result nobody has read, is reported as timed    *)
(* out.                                                                    *)
THEOREM NoOrphanIsSilent == Spec => []NoSilentOrphan
<1>1. ASSUME IInv, main = "returned", NEW i \in IDs,
             worker[i] # "exited" \/ resultChan[i] # <<>>
      PROVE  Failure(i, "timeout") \in Range(errors)
  <2>1. closed /\ errorChan = <<>>
    BY <1>1 DEF IInv, ClosedLast
  <2>2. verdict[i] \notin {"ok", "err"}
    BY <1>1 DEF IInv, ResultUsedOnce
  <2>3. verdict[i] # "none"
    BY <1>1, <2>1, AllFinished DEF IInv, VerdictsFollow
  <2>4. verdict[i] = "timeout"
    BY <1>1, <2>2, <2>3 DEF IInv, TypeOK
  <2> QED
    BY <1>1, <2>1, <2>4, DrainedAccounts
<1>2. IInv => NoSilentOrphan
  BY <1>1 DEF NoSilentOrphan
<1> QED
  BY <1>2, InvariantHolds, PTL

------------------------------------------------------------------------------
(* The goroutines and channels implement the promise: an initial state is  *)
(* an initial state, and a step is a step of the promise or no step of it. *)
LEMMA PromiseInit == Init => Promise!Init
BY DEF Init, Promise!Init

(* A verdict given is an outcome decided.                                  *)
LEMMA VerdictIsDecision ==
  ASSUME TypeOK, NEW i \in IDs, NEW v \in {"ok", "err", "timeout"},
         verdict[i] = "none", verdict' = [verdict EXCEPT ![i] = v],
         v = "timeout" => ctx = "expired",
         main' = main, main # "returned", ctx' = ctx
  PROVE  Promise!Decide(i)
<1> DEFINE outcome == [j \in IDs |-> IF verdict[j] = "none" THEN "pending" ELSE verdict[j]]
<1>1. outcome[i] = "pending"
  OBVIOUS
<1>2. outcome' = [outcome EXCEPT ![i] = v]
  BY DEF TypeOK
<1>3. v \in {"ok", "err"} \cup (IF ctx = "expired" THEN {"timeout"} ELSE {})
  OBVIOUS
<1>4. \E o \in {"ok", "err"} \cup (IF ctx = "expired" THEN {"timeout"} ELSE {}) :
         outcome' = [outcome EXCEPT ![i] = o]
  BY <1>2, <1>3
<1> QED
  BY <1>1, <1>4 DEF Promise!Decide

(* Every step of the goroutines is a step of the promise, or changes       *)
(* nothing that the promise speaks of.                                     *)
LEMMA PromiseStep == IInv /\ [Next]_vars => [Promise!Next]_(Promise!vars)
<1> SUFFICES ASSUME IInv, [Next]_vars PROVE [Promise!Next]_(Promise!vars)
  OBVIOUS
<1>0. TypeOK /\ DeadlineHonest /\ VerdictsFollow /\ ClosedLast
  BY DEF IInv
<1>1. CASE Expire
  BY <1>0, <1>1 DEF Expire, callerVars, DeadlineHonest, Promise!Next, Promise!Expire
<1>2. ASSUME NEW i \in IDs, ReceiveResult(i) PROVE Promise!Decide(i)
  <2>1. verdict[i] = "none" /\ main' = main /\ ctx' = ctx
    BY <1>0, <1>2 DEF ReceiveResult, callerVars, VerdictsFollow
  <2>2. PICK v \in {"ok", "err"} : verdict' = [verdict EXCEPT ![i] = v]
    BY <1>2 DEF ReceiveResult
  <2>3. main # "returned"
    BY <1>0, <1>2 DEF ReceiveResult, ClosedLast, Running
  <2> QED
    BY <1>0, <2>1, <2>2, <2>3, VerdictIsDecision
<1>3. ASSUME NEW i \in IDs, SeeDeadline(i) PROVE Promise!Decide(i)
  <2>1. /\ verdict[i] = "none" /\ verdict' = [verdict EXCEPT ![i] = "timeout"]
        /\ main' = main /\ ctx' = ctx
    BY <1>0, <1>3 DEF SeeDeadline, callerVars, VerdictsFollow
  <2>2. main # "returned"
    BY <1>0, <1>3 DEF SeeDeadline, ClosedLast, Running
  <2>3. ctx = "expired"
    BY <1>0, <1>3, <2>2 DEF SeeDeadline, TypeOK, DeadlineHonest
  <2> QED
    BY <1>0, <2>1, <2>2, <2>3, VerdictIsDecision
<1>4. CASE Return
  <2>1. Range(errors) = {Failure(i, verdict[i]) : i \in {j \in IDs : verdict[j] # "ok"}}
    BY <1>4, DrainedAccounts DEF Return
  <2>2. \A i \in IDs : verdict[i] # "none"
    BY <1>0, <1>4, AllFinished DEF Return, VerdictsFollow
  <2> QED
    BY <1>0, <1>4, <2>1, <2>2
       DEF Return, TypeOK, Failure, Promise!Next, Promise!Return, Promise!Failures
<1>5. CASE Start \/ StartingDone \/ WaitReturns \/ Drain
  BY <1>5 DEF Start, StartingDone, WaitReturns, Drain, Promise!vars
<1>6. ASSUME NEW i \in IDs,
             StartWorker(i) \/ SendError(i) \/ WaiterDone(i) \/ FnReturns(i) \/ SendResult(i)
      PROVE  UNCHANGED Promise!vars
  BY <1>6 DEF StartWorker, SendError, WaiterDone, FnReturns, SendResult, callerVars,
              Promise!vars
<1>7. CASE UNCHANGED vars
  BY <1>7 DEF vars, Promise!vars
<1> QED
  BY <1>1, <1>2, <1>3, <1>4, <1>5, <1>6, <1>7
     DEF Next, Caller, Waiter, Select, Promise!Next

(* RunWithConcurrency keeps the promise of RoutineOutcomes, for any number *)
(* of routines.                                                            *)
THEOREM PromiseKept == Spec => ImplementsPromise
<1>1. Init => Promise!Init
  BY PromiseInit
<1>2. IInv /\ [Next]_vars => [Promise!Next]_(Promise!vars)
  BY PromiseStep
<1> QED
  BY <1>1, <1>2, InvariantHolds, PTL DEF Spec, ImplementsPromise, Promise!Spec
=============================================================================
