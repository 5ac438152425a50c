---------------------------- MODULE ConcurrentRun ----------------------------
(***************************************************************************)
(* ConcurrentTestHelper.RunWithConcurrency and its twin                    *)
(* RunWithConcurrencyAndTimeout (concurrent_test_helpers.go): the caller   *)
(* starts NumRoutines waiters; each waiter starts a worker that runs fn    *)
(* and sends what fn returned on a channel of its own, and selects between *)
(* that channel and the deadline; the caller waits for the waiters, closes *)
(* the error channel and drains it.  fn may return nil, return an error,   *)
(* or never return.                                                        *)
(***************************************************************************)
EXTENDS Integers, Sequences, FiniteSets, Functions

CONSTANT NumRoutines

ASSUME NumRoutinesAssumption == NumRoutines \in Nat

IDs == 0 .. NumRoutines - 1

Results == {"nil", "err"}          \* what fn returns, if it returns

UnbufferedResult  == 0
ErrorsShortByOne  == NumRoutines - 1

ResultCap == 1                     \* make(chan error, 1)
ErrorCap  == NumRoutines           \* make(chan error, numRoutines)

VARIABLES
  main,        \* the caller: "starting", "waiting", "draining", "returned"
  started,     \* goroutines started so far, the loop variable i
  wg,          \* the counter of the wait group
  ctx,         \* "open", "expired" (the timer fired) or "cancelled"
  waiter,      \* [IDs -> program counter of the goroutine that selects]
  verdict,     \* [IDs -> what that goroutine saw: "none", "ok", "err", "timeout"]
  worker,      \* [IDs -> program counter of the goroutine that runs fn]
  returned,    \* [IDs -> what fn returned, "none" before]
  resultChan,  \* [IDs -> contents of the channel between the two]
  errorChan,   \* contents of the shared error channel
  closed,      \* close(errorChan) was called
  errors       \* the slice the caller returns

callerVars == <<main, started, closed, errors>>
vars == <<main, started, wg, ctx, waiter, verdict, worker, returned,
          resultChan, errorChan, closed, errors>>

Failure(i, k) == [id |-> i, kind |-> k]
Failures == [id : IDs, kind : {"err", "timeout"}]

TypeOK ==
  /\ main \in {"starting", "waiting", "draining", "returned"}
  /\ started \in 0 .. NumRoutines
  /\ wg \in Nat
  /\ ctx \in {"open", "expired", "cancelled"}
  /\ waiter \in [IDs -> {"unborn", "fresh", "selecting", "reporting",
                         "exiting", "exited"}]
  /\ verdict \in [IDs -> {"none", "ok", "err", "timeout"}]
  /\ worker \in [IDs -> {"unborn", "running", "sending", "exited"}]
  /\ returned \in [IDs -> Results \cup {"none"}]
  /\ resultChan \in [IDs -> Seq(Results)]
  /\ errorChan \in Seq(Failures)
  /\ closed \in BOOLEAN
  /\ errors \in Seq(Failures)

Init ==
  /\ main = "starting"
  /\ started = 0
  /\ wg = 0
  /\ ctx = "open"
  /\ waiter = [i \in IDs |-> "unborn"]
  /\ verdict = [i \in IDs |-> "none"]
  /\ worker = [i \in IDs |-> "unborn"]
  /\ returned = [i \in IDs |-> "none"]
  /\ resultChan = [i \in IDs |-> <<>>]
  /\ errorChan = <<>>
  /\ closed = FALSE
  /\ errors = <<>>

------------------------------------------------------------------------------
(* Bugs this code could plausibly have, each written as the action it      *)
(* would change; every property below is checked to notice one of them.    *)

NoAdd ==             \* the goroutine is started without wg.Add(1)
  /\ main = "starting"
  /\ started < NumRoutines
  /\ started' = started + 1
  /\ waiter' = [waiter EXCEPT ![started] = "fresh"]
  /\ UNCHANGED <<main, wg, ctx, verdict, worker, returned, resultChan,
                 errorChan, closed, errors>>

CancelNotDeferred == \* cancel() after the loop instead of defer cancel()
  /\ main = "starting"
  /\ started = NumRoutines
  /\ main' = "waiting"
  /\ ctx' = IF ctx = "open" THEN "cancelled" ELSE ctx
  /\ UNCHANGED <<started, wg, waiter, verdict, worker, returned, resultChan,
                 errorChan, closed, errors>>

NoWait ==            \* close(errorChan) without wg.Wait()
  /\ main = "waiting"
  /\ main' = "draining"
  /\ closed' = TRUE
  /\ UNCHANGED <<started, wg, ctx, waiter, verdict, worker, returned,
                 resultChan, errorChan, errors>>

NoClose ==           \* the range loop over a channel nobody closes
  /\ main = "waiting"
  /\ wg = 0
  /\ main' = "draining"
  /\ UNCHANGED <<started, wg, ctx, waiter, verdict, worker, returned,
                 resultChan, errorChan, closed, errors>>

NilReported(i) ==    \* the err # nil test is missing
  /\ waiter[i] = "selecting"
  /\ resultChan[i] # <<>>
  /\ resultChan' = [resultChan EXCEPT ![i] = Tail(@)]
  /\ verdict' = [verdict EXCEPT ![i] = IF Head(resultChan[i]) = "nil" THEN "ok" ELSE "err"]
  /\ waiter' = [waiter EXCEPT ![i] = "reporting"]
  /\ UNCHANGED <<callerVars, wg, ctx, worker, returned, errorChan>>

SilentTimeout(i) ==  \* the ctx.Done() case reports nothing
  /\ waiter[i] = "selecting"
  /\ ctx # "open"
  /\ verdict' = [verdict EXCEPT ![i] = "timeout"]
  /\ waiter' = [waiter EXCEPT ![i] = "exiting"]
  /\ UNCHANGED <<callerVars, wg, ctx, worker, returned, resultChan, errorChan>>

GivesUpAtOnce(i) ==  \* a default case in place of <-ctx.Done()
  /\ waiter[i] = "selecting"
  /\ verdict' = [verdict EXCEPT ![i] = "timeout"]
  /\ waiter' = [waiter EXCEPT ![i] = "reporting"]
  /\ UNCHANGED <<callerVars, wg, ctx, worker, returned, resultChan, errorChan>>

------------------------------------------------------------------------------
(* The deadline.  The timer may fire at any moment until cancel runs, even *)
(* before the first goroutine is started.                                  *)
Expire ==
  /\ ctx = "open"
  /\ ctx' = "expired"
  /\ UNCHANGED <<callerVars, wg, waiter, verdict, worker, returned,
                 resultChan, errorChan>>

(* wg.Add(1); go func() {...}(): one turn of the starting loop.            *)
Start ==
  /\ main = "starting"
  /\ started < NumRoutines
  /\ started' = started + 1
  /\ wg' = wg + 1
  /\ waiter' = [waiter EXCEPT ![started] = "fresh"]
  /\ UNCHANGED <<main, ctx, verdict, worker, returned, resultChan,
                 errorChan, closed, errors>>

StartingDone ==
  /\ main = "starting"
  /\ started = NumRoutines
  /\ main' = "waiting"
  /\ UNCHANGED <<started, wg, ctx, waiter, verdict, worker, returned,
                 resultChan, errorChan, closed, errors>>

(* The waiter makes its result channel and starts the worker.              *)
StartWorker(i) ==
  /\ waiter[i] = "fresh"
  /\ waiter' = [waiter EXCEPT ![i] = "selecting"]
  /\ worker' = [worker EXCEPT ![i] = "running"]
  /\ UNCHANGED <<callerVars, wg, ctx, verdict, returned, resultChan, errorChan>>

(* fn returns to the worker, whenever it does.                             *)
FnReturns(i) ==
  /\ worker[i] = "running"
  /\ \E r \in Results : returned' = [returned EXCEPT ![i] = r]
  /\ worker' = [worker EXCEPT ![i] = "sending"]
  /\ UNCHANGED <<callerVars, wg, ctx, waiter, verdict, resultChan, errorChan>>

(* resultChan <- fn(goroutineID), which blocks while the channel is full.  *)
SendResult(i) ==
  /\ worker[i] = "sending"
  /\ Len(resultChan[i]) < ResultCap
  /\ resultChan' = [resultChan EXCEPT ![i] = Append(@, returned[i])]
  /\ worker' = [worker EXCEPT ![i] = "exited"]
  /\ UNCHANGED <<callerVars, wg, ctx, waiter, verdict, returned, errorChan>>

(* case err := <-resultChan: a nil error leaves nothing to report.         *)
ReceiveResult(i) ==
  /\ waiter[i] = "selecting"
  /\ resultChan[i] # <<>>
  /\ resultChan' = [resultChan EXCEPT ![i] = Tail(@)]
  /\ IF Head(resultChan[i]) = "nil"
     THEN /\ verdict' = [verdict EXCEPT ![i] = "ok"]
          /\ waiter' = [waiter EXCEPT ![i] = "exiting"]
     ELSE /\ verdict' = [verdict EXCEPT ![i] = "err"]
          /\ waiter' = [waiter EXCEPT ![i] = "reporting"]
  /\ UNCHANGED <<callerVars, wg, ctx, worker, returned, errorChan>>

(* case <-ctx.Done(): select may take this case although a result waits.   *)
SeeDeadline(i) ==
  /\ waiter[i] = "selecting"
  /\ ctx # "open"
  /\ verdict' = [verdict EXCEPT ![i] = "timeout"]
  /\ waiter' = [waiter EXCEPT ![i] = "reporting"]
  /\ UNCHANGED <<callerVars, wg, ctx, worker, returned, resultChan, errorChan>>

(* errorChan <- fmt.Errorf("goroutine %d: ...", goroutineID, ...)          *)
SendError(i) ==
  /\ waiter[i] = "reporting"
  /\ Len(errorChan) < ErrorCap
  /\ errorChan' = Append(errorChan, Failure(i, verdict[i]))
  /\ waiter' = [waiter EXCEPT ![i] = "exiting"]
  /\ UNCHANGED <<callerVars, wg, ctx, verdict, worker, returned, resultChan>>

(* defer wg.Done()                                                         *)
WaiterDone(i) ==
  /\ waiter[i] = "exiting"
  /\ waiter' = [waiter EXCEPT ![i] = "exited"]
  /\ wg' = wg - 1
  /\ UNCHANGED <<callerVars, ctx, verdict, worker, returned, resultChan, errorChan>>

(* wg.Wait(); close(errorChan)                                             *)
WaitReturns ==
  /\ main = "waiting"
  /\ wg = 0
  /\ main' = "draining"
  /\ closed' = TRUE
  /\ UNCHANGED <<started, wg, ctx, waiter, verdict, worker, returned,
                 resultChan, errorChan, errors>>

(* for err := range errorChan: errors come out in the order of arrival.    *)
Drain ==
  /\ main = "draining"
  /\ errorChan # <<>>
  /\ errors' = Append(errors, Head(errorChan))
  /\ errorChan' = Tail(errorChan)
  /\ UNCHANGED <<main, started, wg, ctx, waiter, verdict, worker, returned,
                 resultChan, closed>>

(* The range loop ends on the closed, empty channel; defer cancel() runs.  *)
Return ==
  /\ main = "draining"
  /\ errorChan = <<>>
  /\ closed
  /\ main' = "returned"
  /\ ctx' = IF ctx = "open" THEN "cancelled" ELSE ctx
  /\ UNCHANGED <<started, wg, waiter, verdict, worker, returned, resultChan,
                 errorChan, closed, errors>>

Select(i) == ReceiveResult(i) \/ SeeDeadline(i)
Waiter(i) == StartWorker(i) \/ Select(i) \/ SendError(i) \/ WaiterDone(i)
Caller    == Start \/ StartingDone \/ WaitReturns \/ Drain \/ Return

Next ==
  \/ Expire
  \/ Caller
  \/ \E i \in IDs : Waiter(i) \/ FnReturns(i) \/ SendResult(i)

Spec == Init /\ [][Next]_vars

(* The Go scheduler runs every goroutine that can run, and the clock does  *)
(* not stop.  Nothing is assumed of fn: FnReturns is not fair.             *)
Fairness ==
  /\ WF_vars(Caller)
  /\ WF_vars(Expire)
  /\ \A i \in IDs : WF_vars(Waiter(i)) /\ WF_vars(SendResult(i))

FairSpec == Spec /\ Fairness

------------------------------------------------------------------------------
(* A send on a closed channel panics and takes the test binary down: when  *)
(* errorChan is closed (concurrent_test_helpers.go:78) no goroutine is     *)
(* left that may still send on it.                                         *)
NoSendAfterClose ==
  closed => \A i \in IDs : waiter[i] = "exited"

(* A waiter that has an error to report never blocks on errorChan: its     *)
(* capacity covers the worst case of every routine failing, although       *)
(* nobody drains it before all waiters have exited.                        *)
ReportNeverBlocks ==
  \A i \in IDs : waiter[i] = "reporting" => Len(errorChan) < ErrorCap

(* The returned slice has one entry for each routine that failed or timed  *)
(* out, none for the others, and none twice.                               *)
ErrorsAccountForRoutines ==
  main = "returned" =>
    /\ Range(errors) =
         {Failure(i, verdict[i]) : i \in {j \in IDs : verdict[j] # "ok"}}
    /\ \A m, n \in DOMAIN errors : errors[m].id = errors[n].id => m = n

(* "timed out" is said only of a run whose deadline passed: the deferred   *)
(* cancel of an early return never passes for a time-out.                  *)
TimeoutsAreReal ==
  \A i \in IDs : verdict[i] = "timeout" => ctx = "expired"

(* When the call returns, fn is still running (or its result is unread)    *)
(* only for routines the caller is told have timed out.                    *)
NoSilentOrphan ==
  main = "returned" =>
    \A i \in IDs : (worker[i] # "exited" \/ resultChan[i] # <<>>)
                     => Failure(i, "timeout") \in Range(errors)

(* The call returns, even when no fn ever does.                            *)
Termination == <>(main = "returned")

(* A worker whose fn returns late does not leak: its send completes        *)
(* although nobody will ever receive.                                      *)
WorkerNeverLeaks ==
  \A i \in IDs : worker[i] = "sending" ~> worker[i] = "exited"

------------------------------------------------------------------------------
(* The goroutines and channels implement the promise of RoutineOutcomes.   *)
Promise == INSTANCE RoutineOutcomes WITH
  Routines <- IDs,
  outcome  <- [i \in IDs |-> IF verdict[i] = "none" THEN "pending" ELSE verdict[i]],
  deadline <- ctx = "expired",
  reports  <- IF main = "returned" THEN {Range(errors)} ELSE {}

ImplementsPromise == Promise!Spec
==============================================================================
