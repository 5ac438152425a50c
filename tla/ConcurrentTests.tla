--------------------------- MODULE ConcurrentTests ---------------------------
(***************************************************************************)
(* RunConcurrentTests: one test case whose service runs in a goroutine for *)
(* each operation.  A second goroutine waits for the service's first       *)
(* answer or for the timeout; when all have one the test verifies its      *)
(* expectations and tears the context down.  The services use the mock     *)
(* registry and the mailer meanwhile, and go on using them afterwards if   *)
(* nothing stops them.                                                     *)
(***************************************************************************)
EXTENDS MockServices, TestMailer

CONSTANTS
  MaxCalls,    \* calls of the registry and the mailer by one service
  MaxAnswers   \* answers a service sends

ASSUME ConcurrentTestsAssumption ==
  /\ Senders = Routines
  /\ MaxCalls \in Nat
  /\ MaxAnswers \in Nat

VARIABLES
  handler,   \* the case has an error handler
  service,   \* what the service of each operation is doing
  pending,   \* the answer it waits to send
  first,     \* the first answer it has sent
  calls,     \* calls it has made
  answers,   \* answers it has sent
  inner,     \* the channel that WithErrorHandler gives to the service
  outer,     \* the channel that the waiting goroutine reads
  handled,   \* what the handler was told
  reported,  \* what the waiting goroutine reports
  timeUp,    \* the timeout has passed
  ended      \* the test has verified and torn down its context

testVars == <<handler, service, pending, first, calls, answers, inner, outer, handled,
              reported, timeUp, ended>>
vars == <<registryVars, mailerVars, testVars>>

None == "none"
Answers == {"nil", "error"}
ForAll(value) == [r \in Routines |-> value]

Init ==
  /\ RegistryInit /\ MailerInit
  /\ handler \in BOOLEAN
  /\ service = ForAll("running")
  /\ pending = ForAll(None) /\ first = ForAll(None)
  /\ calls = ForAll(0) /\ answers = ForAll(0)
  /\ inner = ForAll(<<>>) /\ outer = ForAll(<<>>)
  /\ handled = ForAll(None) /\ reported = ForAll(None)
  /\ timeUp = FALSE /\ ended = FALSE

------------------------------------------------------------------------------
(* The service.                                                            *)
Idle(r) == service[r] = "running" /\ todo[r] = <<>> /\ At(r, "idle")
Counts(r) == calls[r] < MaxCalls /\ calls' = [calls EXCEPT ![r] = @ + 1]
OnlyCalls ==
  UNCHANGED <<handler, service, pending, first, answers, inner, outer, handled, reported,
              timeUp, ended>>

CallsTheRegistry(r) ==
  /\ Idle(r) /\ Counts(r) /\ OnlyCalls
  /\ \E call \in RegistryCalls : todo' = [todo EXCEPT ![r] = call]
  /\ UNCHANGED <<factories, readers, waiting, services, mailerVars>>

CallsTheMailer(r) ==
  /\ Idle(r) /\ Counts(r) /\ OnlyCalls
  /\ MailerCalls(r)
  /\ UNCHANGED registryVars

IsInACall(r) ==
  /\ service[r] = "running"
  /\ \/ RegistrySteps(r) /\ UNCHANGED mailerVars
     \/ MailerSteps(r) /\ UNCHANGED registryVars
  /\ UNCHANGED testVars

(* Fatalf ends the goroutine it is called in, and not the test; of a test  *)
(* that is over it panics.                                                 *)
EndsWithFatalf(r) ==
  /\ Now(r, "fatal")
  /\ Goes(r, <<>>)
  /\ service' = [service EXCEPT ![r] = "gone"]
  /\ IF ended THEN crashed' \in BOOLEAN ELSE UNCHANGED crashed
  /\ UNCHANGED <<factories, readers, waiting, services, templates, mailing, sentEmails,
                 completed, handler, pending, first, calls, answers, inner, outer, handled,
                 reported, timeUp, ended>>

(* The channels hold one answer: with another the service waits.           *)
Channel(r) == IF handler THEN inner[r] ELSE outer[r]


HasRoom(channel) == channel = <<>>

Sends(r, answer) ==
  /\ answers' = [answers EXCEPT ![r] = @ + 1]
  /\ first' = [first EXCEPT ![r] = IF @ = None THEN answer ELSE @]
  /\ IF handler THEN inner' = [inner EXCEPT ![r] = Append(@, answer)] /\ UNCHANGED outer
     ELSE outer' = [outer EXCEPT ![r] = Append(@, answer)] /\ UNCHANGED inner
  /\ UNCHANGED <<registryVars, mailerVars, handler, calls, handled, reported, timeUp, ended>>

ServiceSends(r, answer) ==
  /\ Idle(r) /\ answers[r] < MaxAnswers
  /\ IF HasRoom(Channel(r))
     THEN Sends(r, answer) /\ UNCHANGED <<service, pending>>
     ELSE /\ service' = [service EXCEPT ![r] = "blocked"]
          /\ pending' = [pending EXCEPT ![r] = answer]
          /\ UNCHANGED <<registryVars, mailerVars, handler, first, calls, answers, inner, outer,
                         handled, reported, timeUp, ended>>

ServiceGoesOn(r) ==
  /\ service[r] = "blocked" /\ HasRoom(Channel(r))
  /\ Sends(r, pending[r])
  /\ service' = [service EXCEPT ![r] = "running"]
  /\ pending' = [pending EXCEPT ![r] = None]

ServiceReturns(r) ==
  /\ Idle(r)
  /\ service' = [service EXCEPT ![r] = IF handler THEN "returned" ELSE "gone"]
  /\ UNCHANGED <<registryVars, mailerVars, handler, pending, first, calls, answers, inner, outer,
                 handled, reported, timeUp, ended>>

------------------------------------------------------------------------------
(* WithErrorHandler looks at its channel when the service has returned.    *)
ForwardsUnhandled(r) ==  \* a bug: the handler is not told
  /\ service[r] = "returned"
  /\ service' = [service EXCEPT ![r] = "gone"]
  /\ outer' = [outer EXCEPT ![r] = inner[r]]
  /\ inner' = [inner EXCEPT ![r] = <<>>]
  /\ UNCHANGED <<registryVars, mailerVars, handler, pending, first, calls, answers, handled,
                 reported, timeUp, ended>>

WithErrorHandler(r) ==
  /\ service[r] = "returned"
  /\ service' = [service EXCEPT ![r] = IF inner[r] = <<>> THEN "gone" ELSE "handled"]
  /\ handled' = [handled EXCEPT ![r] = IF inner[r] = <<>> THEN @ ELSE Head(inner[r])]
  /\ inner' = [inner EXCEPT ![r] = <<>>]
  /\ UNCHANGED <<registryVars, mailerVars, handler, pending, first, calls, answers, outer,
                 reported, timeUp, ended>>

HandlerForwards(r) ==
  /\ service[r] = "handled"
  /\ outer' = [outer EXCEPT ![r] = Append(@, handled[r])]
  /\ service' = [service EXCEPT ![r] = "gone"]
  /\ UNCHANGED <<registryVars, mailerVars, handler, pending, first, calls, answers, inner,
                 handled, reported, timeUp, ended>>

------------------------------------------------------------------------------
(* The goroutines that wait, and the test.                                 *)
Waits(r) == reported[r] = None

WaiterReceives(r) ==
  /\ Waits(r) /\ outer[r] # <<>>
  /\ reported' = [reported EXCEPT ![r] = Head(outer[r])]
  /\ outer' = [outer EXCEPT ![r] = <<>>]
  /\ UNCHANGED <<registryVars, mailerVars, handler, service, pending, first, calls, answers,
                 inner, handled, timeUp, ended>>

AwaitsAnAnswer(r) == WaiterReceives(r)  \* a bug: the timeout is not looked at

WaiterTimesOut(r) ==
  /\ Waits(r) /\ timeUp
  /\ reported' = [reported EXCEPT ![r] = "timeout"]
  /\ UNCHANGED <<registryVars, mailerVars, handler, service, pending, first, calls, answers,
                 inner, outer, handled, timeUp, ended>>

TimeIsUp ==
  /\ ~timeUp /\ ~ended
  /\ timeUp' = TRUE
  /\ UNCHANGED <<registryVars, mailerVars, handler, service, pending, first, calls, answers,
                 inner, outer, handled, reported, ended>>


WaitsForAll == \A r \in Routines : ~Waits(r)

EndTest ==
  /\ ~ended /\ WaitsForAll
  /\ ended' = TRUE
  /\ UNCHANGED <<registryVars, mailerVars, handler, service, pending, first, calls, answers,
                 inner, outer, handled, reported, timeUp>>

Waiter(r) == ~crashed /\ (WaiterReceives(r) \/ WaiterTimesOut(r))
Test == ~crashed /\ (TimeIsUp \/ EndTest)

Service(r) ==
  /\ ~crashed
  /\ \/ CallsTheRegistry(r) \/ CallsTheMailer(r) \/ IsInACall(r) \/ EndsWithFatalf(r)
     \/ \E answer \in Answers : ServiceSends(r, answer)
     \/ ServiceGoesOn(r) \/ ServiceReturns(r) \/ WithErrorHandler(r) \/ HandlerForwards(r)

Next == Test \/ \E r \in Routines : Service(r) \/ Waiter(r)

(* The clock goes on and the waiting goroutines and the test are scheduled *)
(* if they can go on; of the services nothing is assumed.                  *)
Spec == Init /\ [][Next]_vars /\ WF_vars(Test) /\ \A r \in Routines : WF_vars(Waiter(r))

------------------------------------------------------------------------------
(* What is reported of an operation is the first answer its service sent,  *)
(* and a timeout only when time was up; the error handler was told the     *)
(* same before.  Further answers are lost.  The context is verified and    *)
(* torn down under a service that has not answered only after the timeout. *)
ReportsAreHonest ==
  \A r \in Routines :
    /\ ended => first[r] # None \/ timeUp
    /\ reported[r] = "timeout" => timeUp
    /\ reported[r] \in Answers =>
         reported[r] = first[r] /\ (handler => handled[r] = reported[r])

(* The test ends, whatever the services do: never answer, answer twice and *)
(* wait for ever, end with Fatalf, or wait for each other in the registry. *)
EveryTestEnds == <>(ended \/ crashed)
=============================================================================
