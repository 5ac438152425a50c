-------------------------- MODULE TransactionCases --------------------------
(***************************************************************************)
(* A TransactionTestCase and RunTransactionTests: the service of the case  *)
(* makes one transaction on the mock, and With... wraps it in layers that  *)
(* retry it, give it up after a timeout or run hooks around it, in the     *)
(* order the author calls them, the last one outermost.  A layer runs the  *)
(* one below it anew each time it is called, and a call that a timeout has *)
(* given up goes on.                                                       *)
(***************************************************************************)
EXTENDS Naturals, Sequences, FiniteSets

CONSTANTS
  Decorations,  \* the layers of a case, outermost first
  Scripts,      \* what the author's SetupMock tells the mock
  Ends,         \* the ends added with WithCommit and WithRollback
  Retries       \* maxRetries of a WithRetry

Layers == {"timeout", "retry", "before_hook", "after_hook"}

ASSUME TransactionCasesAssumption ==
  /\ Decorations \subseteq Seq(Layers)
  /\ Scripts \subseteq Seq([kind : {"begin", "commit", "rollback"}, outcome : {"ok", "error"}])
  /\ Ends \subseteq Seq({"commit", "rollback"})
  /\ Retries \subseteq Nat

INSTANCE Sqlmock WITH VersionTables <- {}

VARIABLES
  layers,    \* the layers of this case
  retries,   \* its maxRetries
  expects,   \* ExpectError and ErrorContains: "nothing", "error" or "text"
  queue,     \* the mock's expectations
  calls,     \* every call of a layer or of the service, in order
  verdict    \* how the test has ended

vars == <<layers, retries, expects, queue, calls, verdict>>

None == "-"
InOrder == FALSE

(* A call of the n-th layer: the service is the one below the last.        *)
Called(n) == [layer |-> n, at |-> "called", callee |-> 0, tries |-> 0, err |-> None, begin |-> 0]

Told(script) == [n \in DOMAIN script |-> Expect(script[n].kind, None, None, script[n].outcome)]

(* WithCommit and WithRollback run the SetupMock there was before.         *)
SetupMock(script, ends) ==
  Told(script) \o [n \in DOMAIN ends |-> Expect(ends[n], None, None, "ok")]

Init ==
  /\ layers \in Decorations
  /\ retries \in Retries
  /\ expects \in {"nothing", "error", "text"}
  /\ \E script \in Scripts, ends \in Ends : queue = SetupMock(script, ends)
  /\ calls = <<Called(1)>>
  /\ verdict = None

------------------------------------------------------------------------------
IsService(f) == calls[f].layer > Len(layers)
Is(f, layer) == ~IsService(f) /\ layers[calls[f].layer] = layer
At(f, point) == calls[f].at = point

Returning(call, err) == [call EXCEPT !.at = "returned", !.err = err]

(* Call f calls the layer below it.                                        *)
CallsBelow(f, call) ==
  calls' = Append([calls EXCEPT ![f] =
                     [call EXCEPT !.at = "waiting", !.callee = Len(calls) + 1]],
                  Called(calls[f].layer + 1))

Returns(f, call, err) == calls' = [calls EXCEPT ![f] = Returning(call, err)]

UnchangedCase == UNCHANGED <<layers, retries, expects, verdict>>

(* A layer is entered.  WithBeforeHook runs its hook first; WithRetry with *)
(* no try at all fails, and there is no error to wrap.                     *)
Enter(f) ==
  /\ At(f, "called") /\ ~IsService(f)
  /\ IF Is(f, "retry") /\ retries = 0
     THEN Returns(f, calls[f], "no_error")
     ELSE CallsBelow(f, calls[f])
  /\ UNCHANGED queue /\ UnchangedCase

HasResult(f) == At(calls[f].callee, "returned")

TriesOnceMore(err, tries) == err # "nil" /\ tries <= retries  \* a bug: off by one
TriesAfterSuccess(err, tries) == tries < retries            \* a bug: err is not looked at
TriesAgain(err, tries) == err # "nil" /\ tries < retries

(* The call below has returned.  WithRetry tries again after an error, and *)
(* at last wraps it; WithAfterHook runs its hook; WithTimeout reads it     *)
(* from a channel that had room for it.                                    *)
Receive(f) ==
  LET err == calls[calls[f].callee].err
      tried == [calls[f] EXCEPT !.tries = @ + 1] IN
  /\ At(f, "waiting") /\ HasResult(f)
  /\ IF Is(f, "retry") /\ TriesAgain(err, tried.tries)
     THEN CallsBelow(f, tried)
     ELSE Returns(f, tried, err)
  /\ UNCHANGED queue /\ UnchangedCase

Waits(f) == Receive(f)  \* a bug: the deadline is not looked at
DropsTheError(f) ==     \* a bug: a timeout is no error
  /\ At(f, "waiting") /\ Is(f, "timeout")
  /\ Returns(f, calls[f], "nil")
  /\ UNCHANGED queue /\ UnchangedCase

(* WithTimeout gives the call below it up, which goes on.                  *)
TimeOut(f) ==
  /\ At(f, "waiting") /\ Is(f, "timeout")
  /\ Returns(f, calls[f], "timeout")
  /\ UNCHANGED queue /\ UnchangedCase

------------------------------------------------------------------------------
(* The service: a transaction, of which it says whether it was committed.  *)
(* It may also stop anywhere.                                              *)
Asks(kind) == Answer(queue, InOrder, Call(kind, None, None))
Met(kind) == queue' = After(queue, InOrder, Call(kind, None, None))

Begin(f) ==
  LET answer == Asks("begin")
      taken == IF answer = "rejected" THEN 0
               ELSE FirstCandidate(queue, InOrder, Call("begin", None, None)) IN
  /\ At(f, "called") /\ IsService(f)
  /\ calls' = [calls EXCEPT ![f] =
       IF answer = "ok" THEN [@ EXCEPT !.at = "working", !.begin = taken]
       ELSE Returning([@ EXCEPT !.begin = taken], "error")]
  /\ Met("begin")
  /\ UnchangedCase

End(f, kind) ==
  /\ At(f, "working")
  /\ Returns(f, calls[f], IF kind = "commit" /\ Asks(kind) = "ok" THEN "nil" ELSE "error")
  /\ Met(kind)
  /\ UnchangedCase

------------------------------------------------------------------------------
(* The assertions on the error, the verification and the teardown.  The    *)
(* text a test expects is that of its service's error, wrapped or not; of  *)
(* a nil error it is asked for too, which panics.                          *)
Verdict(err) ==
  CASE expects = "nothing" -> IF err = "nil" THEN "pass" ELSE "fail"
    [] expects = "error" -> IF err = "nil" THEN "fail" ELSE "pass"
    [] expects = "text" -> IF err = "nil" THEN "panic" ELSE IF err = "error" THEN "pass" ELSE "fail"

EndTest ==
  /\ verdict = None /\ At(1, "returned")
  /\ verdict' = Verdict(calls[1].err)
  /\ UNCHANGED <<layers, retries, expects, queue, calls>>

(* The panic ends the test binary.                                         *)
Alive == verdict # "panic"

Service(f) == Begin(f) \/ \E kind \in {"commit", "rollback"} : End(f, kind)
Layer(f) == Enter(f) \/ Receive(f) \/ TimeOut(f)

Next == Alive /\ (EndTest \/ \E f \in DOMAIN calls : Service(f) \/ Layer(f))

(* The goroutines of the layers are scheduled and the clock goes on; of    *)
(* the service nothing is assumed.                                         *)
Spec == Init /\ [][Next]_vars /\ WF_vars(Alive /\ (EndTest \/ \E f \in DOMAIN calls : Layer(f)))

------------------------------------------------------------------------------
Attempts == {f \in DOMAIN calls : IsService(f)}
Committed == {f \in Attempts : calls[f].err = "nil"}
Running(f) == ~At(f, "returned")
TimedOut == \E f \in DOMAIN calls : Is(f, "timeout") /\ calls[f].err = "timeout"

CallsOf(n) == {f \in DOMAIN calls : calls[f].layer = n}
TriesOf(n) == IF layers[n] = "retry" THEN retries ELSE 1

(* A case that returned nil has committed.  One that returned an error has *)
(* not, and has made every try it may: each call of a layer has called the *)
(* one below as often as the layer tries.  A timeout is the exception: the *)
(* transaction it gave up may be committed, or may be yet.                 *)
ErrorsAreHonest ==
  At(1, "returned") =>
    IF calls[1].err = "nil" THEN Committed # {}
    ELSE \/ TimedOut
         \/ /\ Committed = {}
            /\ Cardinality(CallsOf(1)) = 1
            /\ \A n \in DOMAIN layers :
                 Cardinality(CallsOf(n + 1)) = Cardinality(CallsOf(n)) * TriesOf(n)

(* Without a timeout attempts are made one at a time, each begins with the *)
(* Begin scripted for it, the n-th with the n-th, and nothing is committed *)
(* twice, however often it is tried.                                       *)
Begins == {n \in DOMAIN queue : queue[n].kind = "begin"}
Nth(f) == Cardinality({g \in Attempts : g <= f})

AttemptsFollowTheScript ==
  ~TimedOut =>
    /\ Cardinality({f \in Attempts : Running(f)}) <= 1
    /\ Cardinality(Committed) <= 1
    /\ \A f \in Attempts :
         ~At(f, "called") /\ Nth(f) <= Cardinality(Begins) =>
           /\ calls[f].begin \in Begins
           /\ Cardinality({n \in Begins : n <= calls[f].begin}) = Nth(f)

(* Unless a timeout gave something up, nothing of a case goes on once its  *)
(* test has ended and its context is torn down: no transaction, no further *)
(* try, no hook.                                                           *)
NothingOutlivesTheTest == [][verdict # None /\ calls' # calls => TimedOut]_vars

(* A case with a timeout ends, whatever its service does and however often *)
(* and at which layer it is tried again.                                   *)
EveryTimedCaseEnds == (\E n \in DOMAIN layers : layers[n] = "timeout") => <>(verdict # None)
=============================================================================
