------------------------ MODULE ConcurrentTestsProofs ------------------------
(***************************************************************************)
(* Proofs about a concurrent test case, for any services, any service IDs  *)
(* and factories that create or register what they like, and any number of *)
(* calls and answers: what is reported, what the mailer holds, and where   *)
(* calls of the registry can wait for each other.                          *)
(***************************************************************************)
EXTENDS ConcurrentTests, CountingLemmas

------------------------------------------------------------------------------
(* Reports.                                                                *)

(* What is in a channel of capacity one.                                   *)
Channels == {<<>>} \cup {<<a>> : a \in Answers}

ReportTypes ==
  /\ handler \in BOOLEAN
  /\ service \in [Routines -> {"running", "blocked", "returned", "handled", "gone"}]
  /\ pending \in [Routines -> Answers \cup {None}]
  /\ first \in [Routines -> Answers \cup {None}]
  /\ inner \in [Routines -> Channels]
  /\ outer \in [Routines -> Channels]
  /\ handled \in [Routines -> Answers \cup {None}]
  /\ reported \in [Routines -> Answers \cup {None, "timeout"}]
  /\ timeUp \in BOOLEAN
  /\ ended \in BOOLEAN
  /\ \A r \in Routines : service[r] = "blocked" => pending[r] \in Answers

(* A channel holds nothing but the first answer.                           *)
HoldsFirst(r, channel) == channel = <<>> \/ (first[r] # None /\ channel = <<first[r]>>)

(* Without a handler the first answer waits for the waiting goroutine,     *)
(* which has not seen another.                                             *)
PlainPath(r) ==
  /\ service[r] \notin {"returned", "handled"}
  /\ reported[r] = None =>
       /\ HoldsFirst(r, outer[r])
       /\ outer[r] = <<>> => first[r] = None

(* With a handler it goes through the service's channel and the handler.   *)
HandlerPath(r) ==
  /\ service[r] \in {"running", "blocked", "returned"} =>
       /\ HoldsFirst(r, inner[r])
       /\ inner[r] = <<>> => first[r] = None
       /\ outer[r] = <<>>
  /\ service[r] = "handled" => first[r] # None /\ handled[r] = first[r] /\ outer[r] = <<>>
  /\ HoldsFirst(r, outer[r])
  /\ outer[r] # <<>> => handled[r] = first[r]
  /\ service[r] # "gone" => reported[r] \notin Answers

AnswersTravel ==
  \A r \in Routines : IF handler THEN HandlerPath(r) ELSE PlainPath(r)

(* The test ends after every waiting goroutine has reported.               *)
EndsLast == ended => \A r \in Routines : reported[r] # None

(* Only what was sent is reported.                                         *)
ReportsFollow ==
  \A r \in Routines :
    /\ reported[r] = "timeout" => timeUp
    /\ reported[r] \in Answers =>
         reported[r] = first[r] /\ (handler => handled[r] = reported[r])

ReportInv == ReportTypes /\ AnswersTravel /\ EndsLast /\ ReportsFollow

------------------------------------------------------------------------------
(* The mailer.                                                             *)
Mailing ==
  [at : {"idle", "writing"}] \cup [at : {"called", "reading"}, since : Nat]
    \cup [at : {"rendered"}, since : Nat, with : Nat]

Emails == [by : Senders, since : Nat, with : Nat]

MailerTypes ==
  /\ templates \in Nat
  /\ mailing \in [Senders -> Mailing]
  /\ sentEmails \in Seq(Emails)
  /\ completed \in [Senders -> Nat]

(* The template an email is rendered with is not older than the call.      *)
TemplatesGrow ==
  \A s \in Senders :
    /\ mailing[s].at \in {"called", "reading"} => mailing[s].since <= templates
    /\ mailing[s].at = "rendered" => mailing[s].since <= mailing[s].with

MailerInv == MailerTypes /\ TemplatesGrow /\ EmailsAreCapturedAndRendered

------------------------------------------------------------------------------
(* The registry.                                                           *)
Steps == [do : {"rlock", "runlock", "each", "fatal"}, id : {NoId}]
           \cup [do : {"make", "nested", "put", "lock", "write"}, id : Ids]

RegistryTypes ==
  /\ factories \in SUBSET Ids
  /\ readers \in [Routines -> Nat]
  /\ todo \in [Routines -> Seq(Steps)]

(* The read locks held before a step and after it.                         *)
Moves(step, before, after) ==
  CASE step.do = "rlock"   -> after = before + 1
    [] step.do = "runlock" -> before = after + 1
    [] OTHER               -> after = before

(* Steps that begin with so many read locks held and end with so many.     *)
Leads(steps, from, to) ==
  \E held \in [1 .. Len(steps) + 1 -> Nat] :
    /\ held[1] = from
    /\ held[Len(steps) + 1] = to
    /\ \A n \in 1 .. Len(steps) : Moves(steps[n], held[n], held[n + 1])

(* What is left of a call releases the locks that its routine holds.       *)
LocksAreReleased == \A r \in Routines : Leads(todo[r], readers[r], 0)

(* A write follows its lock, and the routine that waits is about to write. *)
WriteFollowsLock(steps) ==
  \A n \in 1 .. Len(steps) :
    steps[n].do = "lock" => n < Len(steps) /\ steps[n + 1].do = "write"

WritesFollow == \A r \in Routines : WriteFollowsLock(todo[r])

WaiterWrites == waiting = {} \/ \E r \in Routines : waiting = {r} /\ Now(r, "write")

(* Only a call from outside ends when a mock has no factory: what is left  *)
(* of it, before and after it took the read lock.                          *)
AskingFor(id) ==
  LET Lasts == {Step("put", id), Fatalf} IN
  {<<RLock, Step("make", id), RUnlock, last>> : last \in Lasts}
    \cup {<<Step("make", id), RUnlock, last>> : last \in Lasts}

Unknown(step) == step.do = "make" /\ step.id \notin factories

UnknownIsOutermost ==
  \A r \in Routines :
    (\E n \in 1 .. Len(todo[r]) : Unknown(todo[r][n]))
      => \E id \in Ids : todo[r] \in AskingFor(id)

RegistryInv ==
  /\ RegistryTypes /\ LocksAreReleased /\ WritesFollow
  /\ WaiterWrites /\ UnknownIsOutermost

IInv == ReportInv /\ MailerInv /\ RegistryInv

------------------------------------------------------------------------------
(* A channel of capacity one that has room takes an answer.                *)
LEMMA OneAnswer ==
  ASSUME NEW answer \in Answers
  PROVE  /\ Append(<<>>, answer) = <<answer>>
         /\ <<answer>> # <<>>
         /\ Head(<<answer>>) = answer
         /\ <<answer>> \in Channels
BY DEF Channels

(* ... and gives back what it holds.                                       *)
LEMMA ChannelHead ==
  ASSUME NEW channel \in Channels, channel # <<>>
  PROVE  Head(channel) \in Answers /\ channel = <<Head(channel)>>
BY DEF Channels

(* A step that leaves the services, the waiting goroutines and the test as *)
(* they are says nothing new.                                              *)
LEMMA QuietReports ==
  ASSUME ReportInv,
         UNCHANGED <<handler, service, pending, first, inner, outer, handled, reported,
                     timeUp, ended>>
  PROVE  ReportInv'
BY DEF ReportInv, ReportTypes, AnswersTravel, HandlerPath, PlainPath, HoldsFirst, EndsLast,
       ReportsFollow

(* Sending an answer: the first one is what the channel now holds.         *)
LEMMA SendsKeepsReports ==
  ASSUME ReportInv, NEW r \in Routines, NEW answer \in Answers, Sends(r, answer),
         service[r] \in {"running", "blocked"}, HasRoom(Channel(r)),
         service' \in [Routines -> {"running", "blocked", "returned", "handled", "gone"}],
         service'[r] = "running",
         \A q \in Routines \ {r} : service'[q] = service[q],
         pending' \in [Routines -> Answers \cup {None}],
         \A q \in Routines \ {r} : pending'[q] = pending[q]
  PROVE  ReportInv'
<1> USE DEF ReportInv
<1>1. /\ Append(<<>>, answer) = <<answer>> /\ <<answer>> # <<>>
      /\ <<answer>> \in Channels /\ answer # None /\ answer # "timeout"
  BY OneAnswer DEF Answers, None
<1>2. /\ first' = [first EXCEPT ![r] = IF first[r] = None THEN answer ELSE first[r]]
      /\ UNCHANGED <<handler, handled, reported, timeUp, ended>>
  BY DEF Sends
<1>3. CASE handler
  <2>1. inner[r] = <<>> /\ inner' = [inner EXCEPT ![r] = <<answer>>] /\ outer' = outer
    BY <1>1, <1>3 DEF Sends, HasRoom, Channel
  <2>2. first[r] = None /\ first' = [first EXCEPT ![r] = answer]
    BY <1>2, <1>3, <2>1 DEF AnswersTravel, HandlerPath
  <2>3. ReportTypes'
    BY <1>1, <1>2, <2>1, <2>2 DEF ReportTypes
  <2>4. ASSUME NEW q \in Routines PROVE HandlerPath(q)'
    <3>1. CASE q = r
      BY <1>1, <1>2, <1>3, <2>1, <2>2, <3>1
      DEF ReportTypes, AnswersTravel, HandlerPath, HoldsFirst
    <3>2. CASE q # r
      BY <1>2, <1>3, <2>1, <2>2, <3>2 DEF ReportTypes, AnswersTravel, HandlerPath, HoldsFirst
    <3> QED
      BY <3>1, <3>2
  <2>5. AnswersTravel'
    BY <1>2, <1>3, <2>4 DEF AnswersTravel
  <2>6. EndsLast' /\ ReportsFollow'
    BY <1>1, <1>2, <2>2, <1>3 DEF ReportTypes, EndsLast, ReportsFollow, AnswersTravel,
       HandlerPath, None, Answers
  <2> QED
    BY <2>3, <2>5, <2>6
<1>4. CASE ~handler
  <2>1. outer[r] = <<>> /\ outer' = [outer EXCEPT ![r] = <<answer>>] /\ inner' = inner
    BY <1>1, <1>4 DEF Sends, HasRoom, Channel
  <2>2. ReportTypes'
    BY <1>1, <1>2, <2>1 DEF ReportTypes
  <2>3. ASSUME NEW q \in Routines PROVE PlainPath(q)'
    <3>1. CASE q = r
      BY <1>1, <1>2, <1>4, <2>1, <3>1
      DEF ReportTypes, AnswersTravel, PlainPath, HoldsFirst
    <3>2. CASE q # r
      BY <1>2, <1>4, <2>1, <3>2 DEF ReportTypes, AnswersTravel, PlainPath, HoldsFirst
    <3> QED
      BY <3>1, <3>2
  <2>4. AnswersTravel'
    BY <1>2, <1>4, <2>3 DEF AnswersTravel
  <2>5. EndsLast' /\ ReportsFollow'
    BY <1>1, <1>2, <1>4 DEF ReportTypes, EndsLast, ReportsFollow, None, Answers
  <2> QED
    BY <2>2, <2>4, <2>5
<1> QED
  BY <1>3, <1>4

(* A service sends at once, or waits for room.                             *)
LEMMA ServiceSendsKeepsReports ==
  ASSUME ReportInv, NEW r \in Routines, NEW answer \in Answers, ServiceSends(r, answer)
  PROVE  ReportInv'
<1>1. CASE HasRoom(Channel(r))
  <2>1. Sends(r, answer) /\ UNCHANGED <<service, pending>> /\ service[r] = "running"
    BY <1>1 DEF ServiceSends, Idle
  <2> QED
    BY <1>1, <2>1, SendsKeepsReports DEF ReportInv, ReportTypes
<1>2. CASE ~HasRoom(Channel(r))
  <2>1. /\ service' = [service EXCEPT ![r] = "blocked"] /\ service[r] = "running"
        /\ pending' = [pending EXCEPT ![r] = answer]
        /\ UNCHANGED <<handler, first, inner, outer, handled, reported, timeUp, ended>>
    BY <1>2 DEF ServiceSends, Idle
  <2>2. ReportTypes'
    BY <2>1 DEF ReportInv, ReportTypes
  <2>3. AnswersTravel'
    BY <2>1 DEF ReportInv, ReportTypes, AnswersTravel, HandlerPath, PlainPath, HoldsFirst
  <2>4. EndsLast' /\ ReportsFollow'
    BY <2>1 DEF ReportInv, EndsLast, ReportsFollow
  <2> QED
    BY <2>2, <2>3, <2>4 DEF ReportInv
<1> QED
  BY <1>1, <1>2

(* A service that waited goes on.                                          *)
LEMMA ServiceGoesOnKeepsReports ==
  ASSUME ReportInv, NEW r \in Routines, ServiceGoesOn(r)
  PROVE  ReportInv'
<1>1. /\ service[r] = "blocked" /\ HasRoom(Channel(r)) /\ Sends(r, pending[r])
      /\ service' = [service EXCEPT ![r] = "running"]
      /\ pending' = [pending EXCEPT ![r] = None]
  BY DEF ServiceGoesOn
<1>2. pending[r] \in Answers
  BY <1>1 DEF ReportInv, ReportTypes
<1>3. /\ service' \in [Routines -> {"running", "blocked", "returned", "handled", "gone"}]
      /\ service'[r] = "running"
      /\ \A q \in Routines \ {r} : service'[q] = service[q]
      /\ pending' \in [Routines -> Answers \cup {None}]
      /\ \A q \in Routines \ {r} : pending'[q] = pending[q]
  BY <1>1 DEF ReportInv, ReportTypes
<1> QED
  BY <1>1, <1>2, <1>3, SendsKeepsReports

(* A service that returns has told the handler nothing yet.                *)
LEMMA ServiceReturnsKeepsReports ==
  ASSUME ReportInv, NEW r \in Routines, ServiceReturns(r)
  PROVE  ReportInv'
<1> USE DEF ReportInv
<1>1. ReportTypes'
  BY DEF ReportTypes, Channels, Idle, ServiceReturns
<1>2. AnswersTravel'
  BY DEF ReportTypes, AnswersTravel, HandlerPath, PlainPath, HoldsFirst, ReportsFollow, Answers, None, Idle, Waits, ServiceReturns
<1>3. EndsLast'
  BY DEF ReportTypes, EndsLast, Answers, None, WaitsForAll, Waits, ServiceReturns
<1>4. ReportsFollow'
  BY DEF ReportTypes, ReportsFollow, AnswersTravel, HandlerPath, PlainPath, HoldsFirst, Answers, None, Waits, ServiceReturns
<1> QED
  BY <1>1, <1>2, <1>3, <1>4

(* Fatalf ends a service without an answer of its own.                     *)
LEMMA EndsWithFatalfKeepsReports ==
  ASSUME ReportInv, NEW r \in Routines, EndsWithFatalf(r)
  PROVE  ReportInv'
<1> USE DEF ReportInv
<1>1. ReportTypes'
  BY DEF ReportTypes, Channels, Idle, EndsWithFatalf
<1>2. AnswersTravel'
  BY DEF ReportTypes, AnswersTravel, HandlerPath, PlainPath, HoldsFirst, ReportsFollow, Answers, None, Idle, Waits, EndsWithFatalf
<1>3. EndsLast'
  BY DEF ReportTypes, EndsLast, Answers, None, WaitsForAll, Waits, EndsWithFatalf
<1>4. ReportsFollow'
  BY DEF ReportTypes, ReportsFollow, AnswersTravel, HandlerPath, PlainPath, HoldsFirst, Answers, None, Waits, EndsWithFatalf
<1> QED
  BY <1>1, <1>2, <1>3, <1>4

(* The handler is told the first answer.                                   *)
LEMMA WithErrorHandlerKeepsReports ==
  ASSUME ReportInv, NEW r \in Routines, WithErrorHandler(r)
  PROVE  ReportInv'
<1> USE DEF ReportInv
<1>1. ReportTypes'
  BY ChannelHead, OneAnswer DEF ReportTypes, Channels, Idle, WithErrorHandler
<1>2. AnswersTravel'
  BY ChannelHead, OneAnswer DEF ReportTypes, AnswersTravel, HandlerPath, PlainPath, HoldsFirst, ReportsFollow, Answers, None, Idle, Waits, WithErrorHandler
<1>3. EndsLast'
  BY DEF ReportTypes, EndsLast, Answers, None, WaitsForAll, Waits, WithErrorHandler
<1>4. ReportsFollow'
  BY DEF ReportTypes, ReportsFollow, AnswersTravel, HandlerPath, PlainPath, HoldsFirst, Answers, None, Waits, WithErrorHandler
<1> QED
  BY <1>1, <1>2, <1>3, <1>4

(* The handler forwards what it was told.                                  *)
LEMMA HandlerForwardsKeepsReports ==
  ASSUME ReportInv, NEW r \in Routines, HandlerForwards(r)
  PROVE  ReportInv'
<1> USE DEF ReportInv
<1>1. /\ handler /\ first[r] # None /\ handled[r] = first[r]
      /\ outer[r] = <<>> /\ reported[r] \notin Answers
  BY DEF AnswersTravel, HandlerPath, PlainPath, HandlerForwards
<1>2. first[r] \in Answers
  BY <1>1 DEF ReportTypes
<1>3. outer' = [outer EXCEPT ![r] = <<first[r]>>] /\ <<first[r]>> \in Channels
  BY <1>1, <1>2, OneAnswer DEF HandlerForwards
<1>4. /\ service' = [service EXCEPT ![r] = "gone"]
      /\ UNCHANGED <<handler, pending, first, inner, handled, reported, timeUp, ended>>
  BY DEF HandlerForwards
<1>5. ReportTypes'
  BY <1>3, <1>4 DEF ReportTypes
<1>6. AnswersTravel'
  BY <1>1, <1>3, <1>4 DEF ReportTypes, AnswersTravel, HandlerPath, HoldsFirst
<1>7. EndsLast' /\ ReportsFollow'
  BY <1>4 DEF EndsLast, ReportsFollow
<1> QED
  BY <1>5, <1>6, <1>7

(* The waiting goroutine reports what its channel holds.                   *)
LEMMA WaiterReceivesKeepsReports ==
  ASSUME ReportInv, NEW r \in Routines, WaiterReceives(r)
  PROVE  ReportInv'
<1> USE DEF ReportInv
<1>1. ReportTypes'
  BY ChannelHead DEF ReportTypes, Channels, Idle, WaiterReceives
<1>2. AnswersTravel'
  BY ChannelHead DEF ReportTypes, AnswersTravel, HandlerPath, PlainPath, HoldsFirst, ReportsFollow, Answers, None, Idle, Waits, WaiterReceives
<1>3. EndsLast'
  BY DEF ReportTypes, EndsLast, Answers, None, WaitsForAll, Waits, WaiterReceives
<1>4. ReportsFollow'
  BY DEF ReportTypes, ReportsFollow, AnswersTravel, HandlerPath, PlainPath, HoldsFirst, Answers, None, Waits, WaiterReceives
<1> QED
  BY <1>1, <1>2, <1>3, <1>4

(* The waiting goroutine gives up.                                         *)
LEMMA WaiterTimesOutKeepsReports ==
  ASSUME ReportInv, NEW r \in Routines, WaiterTimesOut(r)
  PROVE  ReportInv'
<1> USE DEF ReportInv
<1>1. ReportTypes'
  BY DEF ReportTypes, Channels, Idle, WaiterTimesOut
<1>2. AnswersTravel'
  BY DEF ReportTypes, AnswersTravel, HandlerPath, PlainPath, HoldsFirst, ReportsFollow, Answers, None, Idle, Waits, WaiterTimesOut
<1>3. EndsLast'
  BY DEF ReportTypes, EndsLast, Answers, None, WaitsForAll, Waits, WaiterTimesOut
<1>4. ReportsFollow'
  BY DEF ReportTypes, ReportsFollow, AnswersTravel, HandlerPath, PlainPath, HoldsFirst, Answers, None, Waits, WaiterTimesOut
<1> QED
  BY <1>1, <1>2, <1>3, <1>4

(* Time passes.                                                            *)
LEMMA TimeIsUpKeepsReports ==
  ASSUME ReportInv, TimeIsUp
  PROVE  ReportInv'
<1> USE DEF ReportInv
<1>1. ReportTypes'
  BY DEF ReportTypes, Channels, Idle, TimeIsUp
<1>2. AnswersTravel'
  BY DEF ReportTypes, AnswersTravel, HandlerPath, PlainPath, HoldsFirst, ReportsFollow, Answers, None, Idle, Waits, TimeIsUp
<1>3. EndsLast'
  BY DEF ReportTypes, EndsLast, Answers, None, WaitsForAll, Waits, TimeIsUp
<1>4. ReportsFollow'
  BY DEF ReportTypes, ReportsFollow, AnswersTravel, HandlerPath, PlainPath, HoldsFirst, Answers, None, Waits, TimeIsUp
<1> QED
  BY <1>1, <1>2, <1>3, <1>4

(* The test ends when all have reported.                                   *)
LEMMA EndTestKeepsReports ==
  ASSUME ReportInv, EndTest
  PROVE  ReportInv'
<1> USE DEF ReportInv
<1>1. ReportTypes'
  BY DEF ReportTypes, Channels, Idle, EndTest
<1>2. AnswersTravel'
  BY DEF ReportTypes, AnswersTravel, HandlerPath, PlainPath, HoldsFirst, ReportsFollow, Answers, None, Idle, Waits, EndTest
<1>3. EndsLast'
  BY DEF ReportTypes, EndsLast, Answers, None, WaitsForAll, Waits, EndTest
<1>4. ReportsFollow'
  BY DEF ReportTypes, ReportsFollow, AnswersTravel, HandlerPath, PlainPath, HoldsFirst, Answers, None, Waits, EndTest
<1> QED
  BY <1>1, <1>2, <1>3, <1>4

(* The reports stay honest in every step.                                  *)
LEMMA ReportsStep ==
  ASSUME ReportInv, [Next]_vars
  PROVE  ReportInv'
<1>1. CASE UNCHANGED vars
  BY <1>1, QuietReports DEF vars, testVars
<1>2. CASE Test
  BY <1>2, TimeIsUpKeepsReports, EndTestKeepsReports DEF Test
<1>3. ASSUME NEW r \in Routines, Waiter(r) PROVE ReportInv'
  BY <1>3, WaiterReceivesKeepsReports, WaiterTimesOutKeepsReports DEF Waiter
<1>4. ASSUME NEW r \in Routines, Service(r) PROVE ReportInv'
  <2>1. CASE CallsTheRegistry(r) \/ CallsTheMailer(r)
    BY <2>1, QuietReports DEF CallsTheRegistry, CallsTheMailer, OnlyCalls
  <2>2. CASE IsInACall(r)
    BY <2>2, QuietReports DEF IsInACall, testVars
  <2>3. CASE EndsWithFatalf(r)
    BY <2>3, EndsWithFatalfKeepsReports
  <2>4. CASE \E answer \in Answers : ServiceSends(r, answer)
    BY <2>4, ServiceSendsKeepsReports
  <2>5. CASE ServiceGoesOn(r)
    BY <2>5, ServiceGoesOnKeepsReports
  <2>6. CASE ServiceReturns(r)
    BY <2>6, ServiceReturnsKeepsReports
  <2>7. CASE WithErrorHandler(r)
    BY <2>7, WithErrorHandlerKeepsReports
  <2>8. CASE HandlerForwards(r)
    BY <2>8, HandlerForwardsKeepsReports
  <2> QED
    BY <1>4, <2>1, <2>2, <2>3, <2>4, <2>5, <2>6, <2>7, <2>8 DEF Service
<1> QED
  BY <1>1, <1>2, <1>3, <1>4 DEF Next

------------------------------------------------------------------------------
(* A step that leaves the mailer as it is, whether the binary crashes or   *)
(* not.                                                                    *)
LEMMA QuietMailer ==
  ASSUME MailerInv, UNCHANGED <<templates, mailing, sentEmails, completed>>
  PROVE  MailerInv'
BY DEF MailerInv, MailerTypes, TemplatesGrow, EmailsAreCapturedAndRendered

(* The emails of a sender among those captured.                            *)
EmailsBy(s) == {n \in DOMAIN sentEmails : sentEmails[n].by = s}

(* A sender can go to a state if it agrees with the templates there will   *)
(* be.                                                                     *)
Fits(state) ==
  /\ templates' \in Nat /\ templates' >= templates
  /\ state \in Mailing
  /\ state.at \in {"called", "reading"} => state.since <= templates'
  /\ state.at = "rendered" => state.since <= state.with

(* A step of the mailer that captures nothing: the states of the senders   *)
(* and the templates only.                                                 *)
LEMMA MailingKeeps ==
  ASSUME MailerInv, UNCHANGED <<sentEmails, completed>>,
         NEW s \in Senders, NEW state, Fits(state),
         mailing' = [mailing EXCEPT ![s] = state]
  PROVE  MailerInv'
<1> USE DEF MailerInv, Fits
<1>1. MailerTypes'
  BY DEF MailerTypes
<1>2. TemplatesGrow'
  <2> SUFFICES ASSUME NEW o \in Senders
               PROVE  /\ mailing'[o].at \in {"called", "reading"} =>
                            mailing'[o].since <= templates'
                      /\ mailing'[o].at = "rendered" => mailing'[o].since <= mailing'[o].with
    BY DEF TemplatesGrow
  <2>1. CASE o = s
    BY <2>1 DEF MailerTypes
  <2>2. CASE o # s
    <3>1. mailing'[o] = mailing[o] /\ mailing[o] \in Mailing
      BY <2>2 DEF MailerTypes
    <3>2. mailing[o].at \in {"called", "reading"} => mailing[o].since \in Nat
      BY <3>1 DEF Mailing
    <3> QED
      BY <3>1, <3>2 DEF TemplatesGrow, MailerTypes
  <2> QED
    BY <2>1, <2>2
<1>3. EmailsAreCapturedAndRendered'
  BY DEF EmailsAreCapturedAndRendered
<1> QED
  BY <1>1, <1>2, <1>3

(* A captured email is one more of its sender, rendered as it was.         *)
LEMMA CaptureKeeps ==
  ASSUME MailerInv, NEW s \in Senders, Capture(s)
  PROVE  MailerInv'
<1> USE DEF MailerInv
<1> DEFINE email == [by |-> s, since |-> mailing[s].since, with |-> mailing[s].with]
           last == Len(sentEmails) + 1
<1>1. mailing[s] \in [at : {"rendered"}, since : Nat, with : Nat]
  BY DEF MailerTypes, Mailing, Capture, At
<1>2. email \in Emails /\ email.by = s /\ email.since <= email.with
  BY <1>1 DEF Emails, TemplatesGrow
<1>3. /\ sentEmails' = Append(sentEmails, email)
      /\ completed' = [completed EXCEPT ![s] = @ + 1]
      /\ mailing' = [mailing EXCEPT ![s] = NotMailing]
      /\ templates' = templates
  BY DEF Capture, Captured
<1> HIDE DEF email
<1>4. /\ sentEmails' \in Seq(Emails)
      /\ Len(sentEmails) \in Nat
      /\ DOMAIN sentEmails = 1 .. Len(sentEmails)
      /\ DOMAIN sentEmails' = 1 .. last
      /\ sentEmails'[last] = email
      /\ \A n \in DOMAIN sentEmails : sentEmails'[n] = sentEmails[n]
  BY <1>2, <1>3, AppendProperties, LenProperties DEF MailerTypes
<1> HIDE DEF last
<1>5. DOMAIN sentEmails' = DOMAIN sentEmails \cup {last} /\ last \notin DOMAIN sentEmails
  BY <1>4 DEF last
<1>6. MailerTypes'
  BY <1>3, <1>4 DEF MailerTypes, Mailing, NotMailing
<1>7. TemplatesGrow'
  BY <1>3 DEF MailerTypes, TemplatesGrow, NotMailing
<1>8. EmailsAreCapturedAndRendered'
  <2>1. ASSUME NEW o \in Senders PROVE completed'[o] = Cardinality(EmailsBy(o)')
    <3>1. completed[o] = Cardinality(EmailsBy(o)) /\ completed[o] \in Nat
      BY DEF EmailsAreCapturedAndRendered, EmailsBy, MailerTypes
    <3>2. IsFiniteSet(EmailsBy(o))
      BY PositionsFinite DEF EmailsBy, MailerTypes
    <3>3. EmailsBy(o)' = IF o = s THEN EmailsBy(o) \cup {last} ELSE EmailsBy(o)
      BY <1>2, <1>4, <1>5 DEF EmailsBy
    <3>4. last \notin EmailsBy(o)
      BY <1>5 DEF EmailsBy
    <3>5. completed'[o] = IF o = s THEN completed[o] + 1 ELSE completed[o]
      BY <1>3 DEF MailerTypes
    <3> QED
      BY <3>1, <3>2, <3>3, <3>4, <3>5, FS_AddElement
  <2>2. ASSUME NEW n \in DOMAIN sentEmails' PROVE sentEmails'[n].with >= sentEmails'[n].since
    BY <1>2, <1>4, <1>5 DEF EmailsAreCapturedAndRendered, Emails
  <2> QED
    BY <2>1, <2>2 DEF EmailsAreCapturedAndRendered, EmailsBy
<1> QED
  BY <1>6, <1>7, <1>8

(* Clearing starts the counts again.                                       *)
LEMMA ClearKeeps ==
  ASSUME MailerInv, NEW s \in Senders, ClearSentEmails(s)
  PROVE  MailerInv'
<1> USE DEF MailerInv
<1>1. MailerTypes'
  BY DEF MailerTypes, ClearSentEmails
<1>2. TemplatesGrow'
  BY DEF TemplatesGrow, ClearSentEmails
<1>3. EmailsAreCapturedAndRendered'
  <2>1. sentEmails' = <<>> /\ \A o \in Senders : completed'[o] = 0
    BY DEF ClearSentEmails
  <2>2. DOMAIN sentEmails' = {}
    BY <2>1
  <2>3. \A o \in Senders : EmailsBy(o)' = {}
    BY <2>2 DEF EmailsBy
  <2> QED
    BY <2>1, <2>2, <2>3, FS_EmptySet DEF EmailsAreCapturedAndRendered, EmailsBy
<1> QED
  BY <1>1, <1>2, <1>3

(* The calls and the steps of the mailer.                                  *)
LEMMA MailerKeeps ==
  ASSUME MailerInv, NEW s \in Senders, MailerCalls(s) \/ MailerSteps(s)
  PROVE  MailerInv'
<1>1. mailing \in [Senders -> Mailing] /\ mailing[s] \in Mailing /\ templates \in Nat
  BY DEF MailerInv, MailerTypes
<1>2. CASE TemplateSend(s)
  <2>1. /\ Sending(templates) \in Mailing
        /\ Sending(templates).at = "called" /\ Sending(templates).since = templates
    BY <1>1 DEF Sending, Mailing
  <2>2. Fits(Sending(templates))
    BY <1>1, <1>2, <2>1 DEF Fits, TemplateSend
  <2> QED
    BY <1>2, <2>2, MailingKeeps DEF TemplateSend
<1>3. CASE Render(s)
  <2> DEFINE state == [mailing[s] EXCEPT !.at = "reading"]
  <2>1. mailing[s] \in [at : {"called", "reading"}, since : Nat]
    BY <1>1, <1>3 DEF Render, At, Mailing
  <2>2. state \in [at : {"called", "reading"}, since : Nat]
    BY <2>1
  <2>3. state \in Mailing /\ state.at = "reading" /\ state.since = mailing[s].since
    BY <2>1, <2>2 DEF Mailing
  <2>4. mailing[s].since <= templates
    BY <1>3 DEF MailerInv, TemplatesGrow, Render, At
  <2>5. mailing' = [mailing EXCEPT ![s] = state]
    BY <1>3 DEF Render
  <2>6. UNCHANGED <<templates, sentEmails, completed>>
    BY <1>3 DEF Render
  <2> HIDE DEF state
  <2>7. Fits(state)
    BY <1>1, <2>3, <2>4, <2>6 DEF Fits
  <2> QED
    BY <2>5, <2>6, <2>7, MailingKeeps
<1>4. CASE Rendered(s)
  <2> DEFINE state == [at |-> "rendered", since |-> mailing[s].since, with |-> templates]
  <2>1. mailing[s].since \in Nat /\ mailing[s].since <= templates
    BY <1>1, <1>4 DEF MailerInv, TemplatesGrow, Rendered, At, Mailing
  <2>2. state \in Mailing
    BY <1>1, <2>1 DEF Mailing
  <2>3. state.at = "rendered" /\ state.since <= state.with
    BY <2>1
  <2>4. mailing' = [mailing EXCEPT ![s] = state] /\ UNCHANGED <<templates, sentEmails, completed>>
    BY <1>4 DEF Rendered
  <2> HIDE DEF state
  <2>5. Fits(state)
    BY <1>1, <2>2, <2>3, <2>4 DEF Fits
  <2> QED
    BY <2>4, <2>5, MailingKeeps
<1>5. CASE Capture(s)
  BY <1>5, CaptureKeeps
<1>6. CASE TemplateRegister(s)
  <2>1. [at |-> "writing"] \in Mailing /\ [at |-> "writing"].at = "writing"
    BY DEF Mailing
  <2>2. Fits([at |-> "writing"])
    BY <1>1, <1>6, <2>1 DEF Fits, TemplateRegister
  <2> QED
    BY <1>6, <2>2, MailingKeeps DEF TemplateRegister
<1>7. CASE Registered(s)
  <2>1. NotMailing \in Mailing /\ NotMailing.at = "idle"
    BY DEF Mailing, NotMailing
  <2>2. Fits(NotMailing)
    BY <1>1, <1>7, <2>1 DEF Fits, Registered
  <2> QED
    BY <1>7, <2>2, MailingKeeps DEF Registered
<1>8. CASE ClearSentEmails(s)
  BY <1>8, ClearKeeps
<1> QED
  BY <1>2, <1>3, <1>4, <1>5, <1>6, <1>7, <1>8 DEF MailerCalls, MailerSteps

(* The mailer keeps its emails in every step.                              *)
LEMMA MailerStep ==
  ASSUME MailerInv, [Next]_vars
  PROVE  MailerInv'
<1>1. CASE UNCHANGED vars
  BY <1>1, QuietMailer DEF vars, mailerVars
<1>2. CASE Test
  BY <1>2, QuietMailer DEF Test, TimeIsUp, EndTest, mailerVars
<1>3. ASSUME NEW r \in Routines, Waiter(r) PROVE MailerInv'
  BY <1>3, QuietMailer DEF Waiter, WaiterReceives, WaiterTimesOut, mailerVars
<1>4. ASSUME NEW r \in Routines, Service(r) PROVE MailerInv'
  <2>1. CASE CallsTheRegistry(r)
    BY <2>1, QuietMailer DEF CallsTheRegistry, mailerVars
  <2>2. CASE CallsTheMailer(r)
    BY <2>2, MailerKeeps, ConcurrentTestsAssumption DEF CallsTheMailer
  <2>3. CASE IsInACall(r)
    <3>1. CASE UNCHANGED mailerVars
      BY <3>1, QuietMailer DEF mailerVars
    <3>2. CASE MailerSteps(r)
      BY <3>2, MailerKeeps, ConcurrentTestsAssumption
    <3> QED
      BY <2>3, <3>1, <3>2 DEF IsInACall
  <2>4. CASE EndsWithFatalf(r)
    BY <2>4, QuietMailer DEF EndsWithFatalf
  <2>5. CASE \E answer \in Answers : ServiceSends(r, answer)
    BY <2>5, QuietMailer DEF ServiceSends, Sends, mailerVars
  <2>6. CASE ServiceGoesOn(r) \/ ServiceReturns(r) \/ WithErrorHandler(r) \/ HandlerForwards(r)
    BY <2>6, QuietMailer
    DEF ServiceGoesOn, Sends, ServiceReturns, WithErrorHandler, HandlerForwards, mailerVars
  <2> QED
    BY <1>4, <2>1, <2>2, <2>3, <2>4, <2>5, <2>6 DEF Service
<1> QED
  BY <1>1, <1>2, <1>3, <1>4 DEF Next

------------------------------------------------------------------------------
(* The first of some steps, and those after it.                            *)
LEMMA TailOfSteps ==
  ASSUME NEW s \in Seq(Steps), s # <<>>
  PROVE  /\ Tail(s) \in Seq(Steps)
         /\ Len(s) \in Nat /\ Len(s) >= 1
         /\ Len(Tail(s)) = Len(s) - 1
         /\ Head(s) = s[1] /\ s[1] \in Steps
         /\ \A n \in 1 .. Len(s) - 1 : Tail(s)[n] = s[n + 1]
<1>1. Len(s) \in Nat /\ Len(s) >= 1 /\ Head(s) = s[1]
  BY LenProperties, EmptySeq
<1>2. s[1] \in Steps
  BY <1>1, ElementOfSeq
<1> QED
  BY <1>1, <1>2, HeadTailProperties

(* Steps followed by others.                                               *)
LEMMA StepsAndOthers ==
  ASSUME NEW s \in Seq(Steps), NEW t \in Seq(Steps)
  PROVE  /\ s \o t \in Seq(Steps)
         /\ Len(s) \in Nat /\ Len(t) \in Nat
         /\ Len(s \o t) = Len(s) + Len(t)
         /\ \A n \in 1 .. Len(s) : (s \o t)[n] = s[n]
         /\ \A n \in 1 .. Len(t) : (s \o t)[Len(s) + n] = t[n]
<1>1. Len(s) \in Nat /\ Len(t) \in Nat
  BY LenProperties
<1>2. /\ s \o t \in Seq(Steps)
      /\ Len(s \o t) = Len(s) + Len(t)
      /\ \A n \in 1 .. Len(s) + Len(t) :
           (s \o t)[n] = IF n <= Len(s) THEN s[n] ELSE t[n - Len(s)]
  BY ConcatProperties
<1> QED
  BY <1>1, <1>2

(* The steps after the first lead on from where it led.                    *)
LEMMA TailLeads ==
  ASSUME NEW s \in Seq(Steps), s # <<>>, NEW from, NEW to, Leads(s, from, to),
         NEW next, Moves(Head(s), from, next), from \in Nat, next \in Nat
  PROVE  Leads(Tail(s), next, to)
<1>1. PICK held \in [1 .. Len(s) + 1 -> Nat] :
        /\ held[1] = from
        /\ held[Len(s) + 1] = to
        /\ \A n \in 1 .. Len(s) : Moves(s[n], held[n], held[n + 1])
  BY DEF Leads
<1>2. /\ Len(s) \in Nat /\ Len(s) >= 1 /\ Len(Tail(s)) = Len(s) - 1
      /\ Head(s) = s[1]
      /\ \A n \in 1 .. Len(s) - 1 : Tail(s)[n] = s[n + 1]
  BY TailOfSteps
<1>3. held[2] = next
  <2>1. Moves(s[1], from, held[2]) /\ held[2] \in Nat
    BY <1>1, <1>2
  <2> QED
    BY <1>2, <2>1 DEF Moves
<1> DEFINE rest == [n \in 1 .. Len(Tail(s)) + 1 |-> held[n + 1]]
<1>4. rest \in [1 .. Len(Tail(s)) + 1 -> Nat]
  BY <1>1, <1>2
<1>5. rest[1] = next /\ rest[Len(Tail(s)) + 1] = to
  BY <1>1, <1>2, <1>3
<1>6. ASSUME NEW n \in 1 .. Len(Tail(s))
      PROVE  Moves(Tail(s)[n], rest[n], rest[n + 1])
  <2>1. Tail(s)[n] = s[n + 1] /\ rest[n] = held[n + 1] /\ rest[n + 1] = held[(n + 1) + 1]
    BY <1>2
  <2>2. n + 1 \in 1 .. Len(s)
    BY <1>2
  <2> QED
    BY <1>1, <2>1, <2>2
<1> QED
  BY <1>4, <1>5, <1>6 DEF Leads

(* Steps that lead somewhere, followed by steps that lead on.              *)
LEMMA ConcatLeads ==
  ASSUME NEW s \in Seq(Steps), NEW t \in Seq(Steps), NEW from, NEW via, NEW to,
         Leads(s, from, via), Leads(t, via, to)
  PROVE  Leads(s \o t, from, to)
<1>1. PICK g \in [1 .. Len(s) + 1 -> Nat] :
        /\ g[1] = from /\ g[Len(s) + 1] = via
        /\ \A n \in 1 .. Len(s) : Moves(s[n], g[n], g[n + 1])
  BY DEF Leads
<1>2. PICK h \in [1 .. Len(t) + 1 -> Nat] :
        /\ h[1] = via /\ h[Len(t) + 1] = to
        /\ \A n \in 1 .. Len(t) : Moves(t[n], h[n], h[n + 1])
  BY DEF Leads
<1>3. /\ Len(s) \in Nat /\ Len(t) \in Nat
      /\ Len(s \o t) = Len(s) + Len(t)
      /\ \A n \in 1 .. Len(s) : (s \o t)[n] = s[n]
      /\ \A n \in 1 .. Len(t) : (s \o t)[Len(s) + n] = t[n]
  BY StepsAndOthers
<1> DEFINE both == [n \in 1 .. Len(s \o t) + 1 |-> IF n <= Len(s) THEN g[n] ELSE h[n - Len(s)]]
<1>4. both \in [1 .. Len(s \o t) + 1 -> Nat]
  BY <1>1, <1>2, <1>3
<1>5. both[1] = from /\ both[Len(s \o t) + 1] = to
  BY <1>1, <1>2, <1>3
<1>6. ASSUME NEW n \in 1 .. Len(s \o t)
      PROVE  Moves((s \o t)[n], both[n], both[n + 1])
  <2>1. CASE n <= Len(s)
    <3>1. n \in 1 .. Len(s) /\ both[n] = g[n] /\ both[n + 1] = g[n + 1]
      BY <1>1, <1>2, <1>3, <2>1
    <3> QED
      BY <1>1, <1>3, <3>1
  <2>2. CASE n > Len(s)
    <3> DEFINE m == n - Len(s)
    <3>1. /\ m \in 1 .. Len(t) /\ n = Len(s) + m
          /\ both[n] = h[m] /\ both[n + 1] = h[m + 1]
      BY <1>3, <2>2
    <3>2. (s \o t)[n] = t[m]
      BY <1>3, <3>1
    <3> QED
      BY <1>2, <3>1, <3>2
  <2> QED
    BY <1>3, <2>1, <2>2
<1> QED
  BY <1>4, <1>5, <1>6 DEF Leads

(* Steps that touch no read lock lead nowhere else.                        *)
LEMMA FlatLeads ==
  ASSUME NEW s \in Seq(Steps), NEW level \in Nat,
         \A n \in 1 .. Len(s) : s[n].do \notin {"rlock", "runlock"}
  PROVE  Leads(s, level, level)
<1> DEFINE held == [n \in 1 .. Len(s) + 1 |-> level]
<1>1. Len(s) \in Nat
  BY LenProperties
<1>2. held \in [1 .. Len(s) + 1 -> Nat] /\ held[1] = level /\ held[Len(s) + 1] = level
  BY <1>1
<1>3. ASSUME NEW n \in 1 .. Len(s) PROVE Moves(s[n], held[n], held[n + 1])
  BY <1>1 DEF Moves
<1> QED
  BY <1>2, <1>3 DEF Leads

(* The steps of each call and of each factory.                             *)
LEMMA StepTypes ==
  /\ RLock \in Steps /\ RUnlock \in Steps /\ Fatalf \in Steps /\ Step("each", NoId) \in Steps
  /\ \A id \in Ids : /\ Step("make", id) \in Steps /\ Step("put", id) \in Steps
                      /\ Step("nested", id) \in Steps
                      /\ Step("lock", id) \in Steps /\ Step("write", id) \in Steps
BY DEF Steps, Step, RLock, RUnlock, Fatalf

(* To ask for a mock, from outside or from a factory, ends with the read   *)
(* locks it began with.                                                    *)
LEMMA AskingLeads ==
  ASSUME NEW do \in {"make", "nested"}, NEW id \in Ids, NEW level \in Nat,
         NEW asks, asks = <<RLock, Step(do, id), RUnlock>>
  PROVE  /\ asks \in Seq(Steps)
         /\ Leads(asks, level, level)
         /\ WriteFollowsLock(asks)
         /\ Len(asks) = 3
         /\ asks[1] = RLock
         /\ asks[2] = Step(do, id)
         /\ asks[3] = RUnlock
<1>1. /\ asks \in Seq(Steps) /\ Len(asks) = 3
      /\ asks[1] = RLock /\ asks[2] = Step(do, id) /\ asks[3] = RUnlock
  BY StepTypes
<1> DEFINE held == [n \in 1 .. 4 |-> IF n \in {2, 3} THEN level + 1 ELSE level]
<1>2. Leads(asks, level, level)
  <2>1. held \in [1 .. 4 -> Nat] /\ held[1] = level /\ held[4] = level
    OBVIOUS
  <2>2. Moves(RLock, held[1], held[2])
    BY DEF Moves, RLock, Step
  <2>3. Moves(Step(do, id), held[2], held[3])
    BY DEF Moves, Step
  <2>4. Moves(RUnlock, held[3], held[4])
    BY DEF Moves, RUnlock, Step
  <2>5. ASSUME NEW n \in 1 .. 3 PROVE Moves(asks[n], held[n], held[n + 1])
    <3>1. n = 1 \/ n = 2 \/ n = 3
      OBVIOUS
    <3> HIDE DEF held
    <3> QED
      BY <1>1, <2>2, <2>3, <2>4, <3>1
  <2> QED
    <3> HIDE DEF held
    <3> QED
      BY <1>1, <2>1, <2>5 DEF Leads
<1>3. WriteFollowsLock(asks)
  BY <1>1 DEF WriteFollowsLock, RLock, RUnlock, Step
<1> QED
  BY <1>1, <1>2, <1>3

(* CreateMock ends with the read locks it began with.                      *)
LEMMA CreateMockLeads ==
  ASSUME NEW id \in Ids, NEW level \in Nat
  PROVE  /\ CreateMock(id) \in Seq(Steps)
         /\ Leads(CreateMock(id), level, level)
         /\ WriteFollowsLock(CreateMock(id))
         /\ Len(CreateMock(id)) = 3
         /\ CreateMock(id)[1] = RLock
         /\ CreateMock(id)[2] = Step("make", id)
         /\ CreateMock(id)[3] = RUnlock
<1>1. CreateMock(id) = <<RLock, Step("make", id), RUnlock>>
  BY DEF CreateMock
<1> QED
  BY <1>1, AskingLeads

(* Locks and their writes stay together.                                   *)
LEMMA ConcatFollows ==
  ASSUME NEW s \in Seq(Steps), NEW t \in Seq(Steps), WriteFollowsLock(s), WriteFollowsLock(t)
  PROVE  WriteFollowsLock(s \o t)
<1>1. /\ Len(s) \in Nat /\ Len(t) \in Nat
      /\ Len(s \o t) = Len(s) + Len(t)
      /\ \A n \in 1 .. Len(s) : (s \o t)[n] = s[n]
      /\ \A n \in 1 .. Len(t) : (s \o t)[Len(s) + n] = t[n]
  BY StepsAndOthers
<1> SUFFICES ASSUME NEW n \in 1 .. Len(s \o t), (s \o t)[n].do = "lock"
             PROVE  n < Len(s \o t) /\ (s \o t)[n + 1].do = "write"
  BY DEF WriteFollowsLock
<1>2. CASE n <= Len(s)
  <2>1. n \in 1 .. Len(s) /\ s[n].do = "lock"
    BY <1>1, <1>2
  <2>2. n < Len(s) /\ s[n + 1].do = "write"
    BY <2>1 DEF WriteFollowsLock
  <2> QED
    BY <1>1, <2>1, <2>2
<1>3. CASE n > Len(s)
  <2> DEFINE m == n - Len(s)
  <2>1. m \in 1 .. Len(t) /\ n = Len(s) + m /\ t[m].do = "lock"
    BY <1>1, <1>3
  <2>2. m < Len(t) /\ t[m + 1].do = "write"
    BY <2>1 DEF WriteFollowsLock
  <2>3. m + 1 \in 1 .. Len(t) /\ n + 1 = Len(s) + (m + 1)
    BY <1>1, <2>1, <2>2
  <2> QED
    BY <1>1, <2>1, <2>2, <2>3
<1> QED
  BY <1>1, <1>2, <1>3

(* ... after the first step too.                                            *)
LEMMA TailFollows ==
  ASSUME NEW s \in Seq(Steps), s # <<>>, WriteFollowsLock(s)
  PROVE  /\ WriteFollowsLock(Tail(s))
         /\ Head(s).do = "lock" => Tail(s) # <<>> /\ Head(Tail(s)).do = "write"
<1>1. /\ Tail(s) \in Seq(Steps)
      /\ Len(s) \in Nat /\ Len(s) >= 1 /\ Len(Tail(s)) = Len(s) - 1
      /\ Head(s) = s[1]
      /\ \A n \in 1 .. Len(s) - 1 : Tail(s)[n] = s[n + 1]
  BY TailOfSteps
<1>2. ASSUME NEW n \in 1 .. Len(Tail(s)), Tail(s)[n].do = "lock"
      PROVE  n < Len(Tail(s)) /\ Tail(s)[n + 1].do = "write"
  <2>1. n + 1 \in 1 .. Len(s) /\ s[n + 1].do = "lock"
    BY <1>1, <1>2
  <2>2. n + 1 < Len(s) /\ s[(n + 1) + 1].do = "write"
    BY <2>1 DEF WriteFollowsLock
  <2> QED
    BY <1>1, <2>2
<1>3. ASSUME Head(s).do = "lock" PROVE Tail(s) # <<>> /\ Head(Tail(s)).do = "write"
  <2>1. 1 < Len(s) /\ s[1 + 1].do = "write"
    BY <1>1, <1>3 DEF WriteFollowsLock
  <2>2. Tail(s) # <<>> /\ Tail(s)[1] = s[2]
    <3>1. Len(Tail(s)) >= 1 /\ 1 \in 1 .. Len(s) - 1
      BY <1>1, <2>1
    <3>2. Len(<<>>) = 0
      OBVIOUS
    <3>3. Tail(s)[1] = s[1 + 1]
      BY <1>1, <3>1
    <3> QED
      BY <3>1, <3>2, <3>3
  <2>3. Head(Tail(s)) = Tail(s)[1]
    BY <1>1, <2>2, TailOfSteps
  <2> QED
    BY <2>1, <2>2, <2>3
<1> QED
  BY <1>2, <1>3 DEF WriteFollowsLock

(* RegisterMockFactory takes the write lock and touches no read lock.      *)
LEMMA RegisterMockFactoryLeads ==
  ASSUME NEW id \in Ids, NEW level \in Nat
  PROVE  /\ RegisterMockFactory(id) \in Seq(Steps)
         /\ Leads(RegisterMockFactory(id), level, level)
         /\ WriteFollowsLock(RegisterMockFactory(id))
         /\ Len(RegisterMockFactory(id)) = 2
         /\ RegisterMockFactory(id)[1] = Step("lock", id)
         /\ RegisterMockFactory(id)[2] = Step("write", id)
<1>1. /\ RegisterMockFactory(id) \in Seq(Steps)
      /\ Len(RegisterMockFactory(id)) = 2
      /\ RegisterMockFactory(id)[1] = Step("lock", id)
      /\ RegisterMockFactory(id)[2] = Step("write", id)
  BY StepTypes DEF RegisterMockFactory
<1>2. \A n \in 1 .. 2 : n = 1 \/ n = 2
  OBVIOUS
<1>3. \A n \in 1 .. 2 : RegisterMockFactory(id)[n].do \notin {"rlock", "runlock"}
  BY <1>1, <1>2 DEF Step
<1>4. Leads(RegisterMockFactory(id), level, level)
  BY <1>1, <1>3, FlatLeads
<1>5. WriteFollowsLock(RegisterMockFactory(id))
  BY <1>1, <1>2 DEF WriteFollowsLock, Step
<1> QED
  BY <1>1, <1>4, <1>5

(* No steps at all.                                                        *)
LEMMA NoSteps ==
  ASSUME NEW level \in Nat
  PROVE  /\ <<>> \in Seq(Steps) /\ Len(<<>>) = 0
         /\ Leads(<<>>, level, level) /\ WriteFollowsLock(<<>>)
<1>1. <<>> \in Seq(Steps) /\ Len(<<>>) = 0
  OBVIOUS
<1>2. 1 .. Len(<<>>) = {}
  BY <1>1
<1>3. /\ \A n \in 1 .. Len(<<>>) : <<>>[n].do \notin {"rlock", "runlock"}
      /\ WriteFollowsLock(<<>>)
  BY <1>2 DEF WriteFollowsLock
<1> QED
  BY <1>1, <1>3, FlatLeads

(* A factory, whatever it creates and registers, ends with the read locks  *)
(* it began with, and never asks as a call from outside does.              *)
LEMMA FactoryLeads ==
  ASSUME NEW id \in Ids, NEW level \in Nat, factories \subseteq Ids
  PROVE  /\ Factory(id) \in Seq(Steps)
         /\ Leads(Factory(id), level, level)
         /\ WriteFollowsLock(Factory(id))
         /\ \A n \in 1 .. Len(Factory(id)) : ~Unknown(Factory(id)[n])
<1> DEFINE creates == IF Creates[id] # NoId
                      THEN <<RLock, Step("nested", Creates[id]), RUnlock>> ELSE <<>>
           registers == IF id \in Rewrites THEN RegisterMockFactory(id) ELSE <<>>
<1>1. /\ creates \in Seq(Steps) /\ Leads(creates, level, level) /\ WriteFollowsLock(creates)
      /\ \A n \in 1 .. Len(creates) : ~Unknown(creates[n])
  <2>1. CASE Creates[id] # NoId
    <3>1. /\ creates = <<RLock, Step("nested", Creates[id]), RUnlock>>
          /\ Creates[id] \in Ids
      BY <2>1, MockServicesAssumption
    <3>2. \A n \in 1 .. 3 : n = 1 \/ n = 2 \/ n = 3
      OBVIOUS
    <3> HIDE DEF creates
    <3>3. /\ creates \in Seq(Steps) /\ Leads(creates, level, level)
          /\ WriteFollowsLock(creates) /\ Len(creates) = 3
          /\ creates[1] = RLock /\ creates[2] = Step("nested", Creates[id])
          /\ creates[3] = RUnlock
      BY <3>1, AskingLeads
    <3>4. ~Unknown(RLock) /\ ~Unknown(RUnlock) /\ ~Unknown(Step("nested", Creates[id]))
      BY DEF Unknown, RLock, RUnlock, Step
    <3> QED
      BY <3>2, <3>3, <3>4
  <2>2. CASE Creates[id] = NoId
    <3>1. creates = <<>>
      BY <2>2
    <3> HIDE DEF creates
    <3> QED
      BY <3>1, NoSteps
  <2> QED
    BY <2>1, <2>2
<1>2. /\ registers \in Seq(Steps) /\ Leads(registers, level, level)
      /\ WriteFollowsLock(registers)
      /\ \A n \in 1 .. Len(registers) : ~Unknown(registers[n])
  <2>1. CASE id \in Rewrites
    <3>1. registers = RegisterMockFactory(id)
      BY <2>1
    <3>2. \A n \in 1 .. 2 : n = 1 \/ n = 2
      OBVIOUS
    <3> HIDE DEF registers
    <3>3. ~Unknown(Step("lock", id)) /\ ~Unknown(Step("write", id))
      BY DEF Unknown, Step
    <3>4. /\ registers \in Seq(Steps) /\ Leads(registers, level, level)
          /\ WriteFollowsLock(registers) /\ Len(registers) = 2
          /\ registers[1] = Step("lock", id) /\ registers[2] = Step("write", id)
      BY <3>1, RegisterMockFactoryLeads
    <3> QED
      BY <3>2, <3>3, <3>4
  <2>2. CASE id \notin Rewrites
    <3>1. registers = <<>>
      BY <2>2
    <3> HIDE DEF registers
    <3> QED
      BY <3>1, NoSteps
  <2> QED
    BY <2>1, <2>2
<1>3. Factory(id) = creates \o registers
  BY DEF Factory
<1> HIDE DEF creates, registers
<1>4. /\ creates \o registers \in Seq(Steps)
      /\ Leads(creates \o registers, level, level)
      /\ WriteFollowsLock(creates \o registers)
  BY <1>1, <1>2, StepsAndOthers, ConcatLeads, ConcatFollows
<1>5. ASSUME NEW n \in 1 .. Len(creates \o registers) PROVE ~Unknown((creates \o registers)[n])
  <2>1. /\ Len(creates) \in Nat /\ Len(registers) \in Nat
        /\ Len(creates \o registers) = Len(creates) + Len(registers)
        /\ \A m \in 1 .. Len(creates) : (creates \o registers)[m] = creates[m]
        /\ \A m \in 1 .. Len(registers) :
             (creates \o registers)[Len(creates) + m] = registers[m]
    BY <1>1, <1>2, StepsAndOthers
  <2>2. CASE n <= Len(creates)
    BY <1>1, <2>1, <2>2
  <2>3. CASE n > Len(creates)
    <3>1. n - Len(creates) \in 1 .. Len(registers) /\ n = Len(creates) + (n - Len(creates))
      BY <2>1, <2>3
    <3> QED
      BY <1>2, <2>1, <3>1
  <2> QED
    BY <2>1, <2>2, <2>3
<1> QED
  BY <1>3, <1>4, <1>5

(* The iteration over the factories makes and puts, and creates only what  *)
(* has a factory.                                                          *)
LEMMA EachLeads ==
  ASSUME NEW order \in Seq(factories), NEW level \in Nat, factories \subseteq Ids
  PROVE  LET steps == [n \in 1 .. 2 * Len(order) |->
                         Step(IF n % 2 = 1 THEN "make" ELSE "put", order[(n + 1) \div 2])]
         IN  /\ steps \in Seq(Steps)
             /\ Leads(steps, level, level)
             /\ WriteFollowsLock(steps)
             /\ \A n \in 1 .. Len(steps) : ~Unknown(steps[n])
<1> DEFINE doing(n) == IF n % 2 = 1 THEN "make" ELSE "put"
           steps == [n \in 1 .. 2 * Len(order) |-> Step(doing(n), order[(n + 1) \div 2])]
<1>1. Len(order) \in Nat /\ 2 * Len(order) \in Nat
  BY LenProperties
<1>2. ASSUME NEW n \in 1 .. 2 * Len(order)
      PROVE  /\ steps[n].do \in {"make", "put"} /\ steps[n] \in Steps
             /\ steps[n].id \in factories
  <2>1. (n + 1) \div 2 \in 1 .. Len(order)
    BY <1>1
  <2>2. order[(n + 1) \div 2] \in factories
    BY <2>1, ElementOfSeq
  <2>3. doing(n) \in {"make", "put"}
    OBVIOUS
  <2>4. steps[n] = Step(doing(n), order[(n + 1) \div 2])
    OBVIOUS
  <2> HIDE DEF steps, doing
  <2> QED
    BY <2>2, <2>3, <2>4 DEF Step, Steps
<1>3. steps \in Seq(Steps) /\ Len(steps) = 2 * Len(order)
  <2>1. steps \in [1 .. 2 * Len(order) -> Steps]
    BY <1>2
  <2> HIDE DEF steps
  <2> QED
    BY <1>1, <2>1, IsASeq, LenProperties
<1>4. /\ \A n \in 1 .. Len(steps) : steps[n].do \notin {"rlock", "runlock", "lock"}
      /\ \A n \in 1 .. Len(steps) : ~Unknown(steps[n])
  <2> HIDE DEF steps
  <2> QED
    BY <1>2, <1>3 DEF Unknown
<1>5. Leads(steps, level, level) /\ WriteFollowsLock(steps)
  <2> HIDE DEF steps
  <2> QED
    BY <1>3, <1>4, FlatLeads DEF WriteFollowsLock
<1> QED
  BY <1>3, <1>4, <1>5

(* Every call, from outside.                                               *)
LEMMA CallsLead ==
  ASSUME NEW call \in RegistryCalls
  PROVE  /\ call \in Seq(Steps)
         /\ Leads(call, 0, 0)
         /\ WriteFollowsLock(call)
         /\ (\E n \in 1 .. Len(call) : Unknown(call[n])) => \E id \in Ids : call \in AskingFor(id)
<1>1. CASE \E id \in Ids : call = RegisterMockFactory(id)
  <2>1. PICK id \in Ids : call = RegisterMockFactory(id)
    BY <1>1
  <2>2. \A n \in 1 .. 2 : n = 1 \/ n = 2
    OBVIOUS
  <2>3. ~Unknown(Step("lock", id)) /\ ~Unknown(Step("write", id))
    BY DEF Unknown, Step
  <2>4. /\ call \in Seq(Steps) /\ Leads(call, 0, 0) /\ WriteFollowsLock(call)
        /\ Len(call) = 2 /\ call[1] = Step("lock", id) /\ call[2] = Step("write", id)
    BY <2>1, RegisterMockFactoryLeads
  <2> QED
    BY <2>2, <2>3, <2>4
<1>2. ASSUME NEW id \in Ids, NEW last \in {Step("put", id), Fatalf}
      PROVE  LET asks == CreateMock(id) \o <<last>> IN
             /\ asks \in Seq(Steps) /\ Leads(asks, 0, 0) /\ WriteFollowsLock(asks)
             /\ asks \in AskingFor(id)
  <2>1. last \in Steps /\ last.do \notin {"rlock", "runlock", "lock"}
    <3>1. Step("put", id) \in Steps /\ Fatalf \in Steps
      BY StepTypes
    <3>2. Step("put", id).do = "put" /\ Fatalf.do = "fatal"
      BY DEF Step, Fatalf
    <3> QED
      BY <1>2, <3>1, <3>2
  <2>2. <<last>> \in Seq(Steps) /\ Len(<<last>>) = 1 /\ <<last>>[1] = last
    BY <2>1
  <2>3. \A n \in 1 .. Len(<<last>>) : <<last>>[n].do \notin {"rlock", "runlock", "lock"}
    BY <2>1, <2>2
  <2>4. Leads(<<last>>, 0, 0) /\ WriteFollowsLock(<<last>>)
    BY <2>2, <2>3, FlatLeads DEF WriteFollowsLock
  <2>5. CreateMock(id) \o <<last>> = <<RLock, Step("make", id), RUnlock, last>>
    <3> DEFINE asks == CreateMock(id) \o <<last>>
               listed == <<RLock, Step("make", id), RUnlock, last>>
    <3>1. /\ asks \in Seq(Steps) /\ Len(asks) = 4
          /\ asks[1] = RLock /\ asks[2] = Step("make", id)
          /\ asks[3] = RUnlock /\ asks[4] = last
      <4>1. /\ asks \in Seq(Steps) /\ Len(asks) = 3 + 1
            /\ \A n \in 1 .. 3 : asks[n] = CreateMock(id)[n]
            /\ \A n \in 1 .. 1 : asks[3 + n] = <<last>>[n]
        BY <2>2, CreateMockLeads, StepsAndOthers
      <4> HIDE DEF asks
      <4>2. asks[3 + 1] = last
        BY <2>2, <4>1
      <4> QED
        BY <4>1, <4>2, CreateMockLeads
    <3>2. /\ listed \in Seq(Steps) /\ Len(listed) = 4
          /\ listed[1] = RLock /\ listed[2] = Step("make", id)
          /\ listed[3] = RUnlock /\ listed[4] = last
      BY <2>1, StepTypes
    <3> HIDE DEF asks, listed
    <3>3. \A n \in 1 .. 4 : n = 1 \/ n = 2 \/ n = 3 \/ n = 4
      OBVIOUS
    <3>4. asks = listed
      BY <3>1, <3>2, <3>3, SeqEqual
    <3> QED
      BY <3>4 DEF asks, listed
  <2> QED
    BY <1>2, <2>2, <2>4, <2>5, CreateMockLeads, StepsAndOthers, ConcatLeads, ConcatFollows
    DEF AskingFor
<1>3. CASE \E id \in Ids : call = SetupMock(id) \/ call = SetupUnconfigurable(id)
  BY <1>2, <1>3 DEF SetupMock, SetupUnconfigurable
<1>4. CASE call = SetupRegisteredMocks
  <2>1. call = <<RLock, Step("each", NoId), RUnlock>>
    BY <1>4 DEF SetupRegisteredMocks
  <2>2. /\ call \in Seq(Steps) /\ Len(call) = 3 /\ call[1] = RLock
        /\ call[2] = Step("each", NoId) /\ call[3] = RUnlock
    BY <2>1, StepTypes
  <2>3. \A n \in 1 .. 3 : n = 1 \/ n = 2 \/ n = 3
    OBVIOUS
  <2>4. \A n \in 1 .. 3 : call[n].do \notin {"lock", "make"}
    BY <2>2, <2>3 DEF RLock, RUnlock, Step
  <2>5. Leads(call, 0, 0)
    <3> DEFINE held == [n \in 1 .. 4 |-> IF n \in {2, 3} THEN 1 ELSE 0]
    <3>1. held \in [1 .. 4 -> Nat] /\ held[1] = 0 /\ held[4] = 0
      OBVIOUS
    <3>2. Moves(RLock, held[1], held[2]) /\ Moves(RUnlock, held[3], held[4])
      BY DEF Moves, RLock, RUnlock, Step
    <3>3. Moves(Step("each", NoId), held[2], held[3])
      BY DEF Moves, Step
    <3> HIDE DEF held
    <3>4. ASSUME NEW n \in 1 .. 3 PROVE Moves(call[n], held[n], held[n + 1])
      BY <2>2, <2>3, <3>2, <3>3
    <3> QED
      BY <2>2, <3>1, <3>4 DEF Leads
  <2> QED
    BY <2>2, <2>4, <2>5 DEF WriteFollowsLock, Unknown
<1> QED
  BY <1>1, <1>3, <1>4 DEF RegistryCalls

------------------------------------------------------------------------------
(* What is left of a call that asks for a mock without a factory.          *)
LEMMA AfterAsking ==
  ASSUME NEW id \in Ids, NEW s \in AskingFor(id)
  PROVE  \/ /\ Head(s).do = "rlock" /\ Tail(s) \in AskingFor(id)
         \/ /\ Head(s) = Step("make", id)
            /\ Len(Tail(s)) = 2 /\ Tail(s)[1] = RUnlock
            /\ Tail(s)[2] \in {Step("put", id), Fatalf}
<1>1. PICK last \in {Step("put", id), Fatalf} :
        \/ s = <<Step("make", id), RUnlock, last>>
        \/ s = <<RLock, Step("make", id), RUnlock, last>>
  BY DEF AskingFor
<1>2. CASE s = <<Step("make", id), RUnlock, last>>
  <2>1. Head(s) = Step("make", id) /\ Tail(s) = <<RUnlock, last>>
    BY <1>2
  <2>2. Len(<<RUnlock, last>>) = 2 /\ <<RUnlock, last>>[1] = RUnlock
        /\ <<RUnlock, last>>[2] = last
    OBVIOUS
  <2> QED
    BY <2>1, <2>2, Zenon
<1>3. CASE s = <<RLock, Step("make", id), RUnlock, last>>
  <2>1. Head(s) = RLock /\ Tail(s) = <<Step("make", id), RUnlock, last>>
    BY <1>3
  <2> QED
    BY <2>1 DEF AskingFor, RLock, Step
<1> QED
  BY <1>1, <1>2, <1>3

(* A routine does the first step of its call and puts others in its place, *)
(* which touch no read lock and ask for nothing that has no factory.       *)
LEMMA GoesKeeps ==
  ASSUME RegistryInv, NEW r \in Routines, todo[r] # <<>>, NEW steps \in Seq(Steps),
         \A level \in Nat : Leads(steps, level, level), WriteFollowsLock(steps),
         \A n \in 1 .. Len(steps) : ~Unknown(steps[n]),
         ~Unknown(Head(todo[r])), Head(todo[r]).do = "rlock" => steps = <<>>,
         Goes(r, steps), readers' \in [Routines -> Nat],
         Moves(Head(todo[r]), readers[r], readers'[r]),
         \A q \in Routines \ {r} : readers'[q] = readers[q],
         factories \subseteq factories', factories' \subseteq Ids
  PROVE  RegistryTypes' /\ LocksAreReleased' /\ WritesFollow' /\ UnknownIsOutermost'
<1> USE DEF RegistryInv
<1>1. /\ todo[r] \in Seq(Steps) /\ Tail(todo[r]) \in Seq(Steps)
      /\ Len(todo[r]) \in Nat /\ Len(Tail(todo[r])) = Len(todo[r]) - 1
      /\ Head(todo[r]) = todo[r][1]
      /\ \A n \in 1 .. Len(todo[r]) - 1 : Tail(todo[r])[n] = todo[r][n + 1]
  BY TailOfSteps DEF RegistryTypes
<1>2. /\ todo' \in [Routines -> Seq(Steps)]
      /\ todo'[r] = steps \o Tail(todo[r])
      /\ \A q \in Routines \ {r} : todo'[q] = todo[q]
  <2>1. steps \o Tail(todo[r]) \in Seq(Steps)
    BY <1>1, StepsAndOthers
  <2> QED
    BY <2>1 DEF RegistryTypes, Goes
<1>3. readers[r] \in Nat /\ readers'[r] \in Nat
  BY DEF RegistryTypes
<1>4. RegistryTypes'
  BY <1>2 DEF RegistryTypes
<1>5. LocksAreReleased'
  <2>1. Leads(todo[r], readers[r], 0) /\ Leads(steps, readers'[r], readers'[r])
    BY <1>3 DEF LocksAreReleased
  <2>2. Leads(Tail(todo[r]), readers'[r], 0)
    BY <1>1, <1>3, <2>1, TailLeads
  <2>3. Leads(steps \o Tail(todo[r]), readers'[r], 0)
    BY <1>1, <2>1, <2>2, ConcatLeads
  <2>4. ASSUME NEW q \in Routines PROVE Leads(todo'[q], readers'[q], 0)
    <3>1. CASE q = r
      BY <1>2, <2>3, <3>1
    <3>2. CASE q # r
      BY <1>2, <3>2 DEF LocksAreReleased
    <3> QED
      BY <3>1, <3>2
  <2> QED
    BY <2>4 DEF LocksAreReleased, Leads
<1>6. WritesFollow'
  <2>1. WriteFollowsLock(Tail(todo[r]))
    BY <1>1, TailFollows DEF WritesFollow
  <2>2. WriteFollowsLock(steps \o Tail(todo[r]))
    BY <1>1, <2>1, ConcatFollows
  <2>3. ASSUME NEW q \in Routines PROVE WriteFollowsLock(todo'[q])
    <3>1. CASE q = r
      BY <1>2, <2>2, <3>1
    <3>2. CASE q # r
      BY <1>2, <3>2 DEF WritesFollow
    <3> QED
      BY <3>1, <3>2
  <2> QED
    BY <2>3 DEF WritesFollow, WriteFollowsLock
<1>7. UnknownIsOutermost'
  <2> SUFFICES ASSUME NEW q \in Routines, NEW n \in 1 .. Len(todo'[q]),
                      todo'[q][n].do = "make", todo'[q][n].id \notin factories'
               PROVE  \E id \in Ids : todo'[q] \in AskingFor(id)
    BY DEF UnknownIsOutermost, Unknown, AskingFor
  <2>1. Unknown(todo'[q][n])
    BY DEF Unknown
  <2>2. CASE q # r
    BY <1>2, <2>1, <2>2 DEF UnknownIsOutermost
  <2>3. CASE q = r
    <3>1. /\ Len(steps) \in Nat
          /\ Len(todo'[r]) = Len(steps) + Len(Tail(todo[r]))
          /\ \A m \in 1 .. Len(steps) : todo'[r][m] = steps[m]
          /\ \A m \in 1 .. Len(Tail(todo[r])) : todo'[r][Len(steps) + m] = Tail(todo[r])[m]
      BY <1>1, <1>2, StepsAndOthers
    <3> DEFINE m == n - Len(steps)
    <3>2. n > Len(steps)
      BY <2>1, <2>3, <3>1
    <3>3. m \in 1 .. Len(Tail(todo[r])) /\ n = Len(steps) + m
      BY <1>1, <2>3, <3>1, <3>2
    <3>4. Unknown(Tail(todo[r])[m])
      BY <2>1, <2>3, <3>1, <3>3
    <3>5. m + 1 \in 1 .. Len(todo[r]) /\ Unknown(todo[r][m + 1])
      BY <1>1, <3>3, <3>4
    <3> HIDE DEF m
    <3>6. PICK id \in Ids : todo[r] \in AskingFor(id)
      BY <3>5 DEF UnknownIsOutermost
    <3>7. CASE Head(todo[r]).do = "rlock" /\ Tail(todo[r]) \in AskingFor(id)
      <4>1. todo'[r] = <<>> \o Tail(todo[r])
        BY <1>2, <3>7
      <4>2. todo'[r] = Tail(todo[r])
        BY <1>1, <4>1, ConcatEmptySeq
      <4> QED
        BY <2>3, <3>7, <4>2
    <3>8. CASE /\ Head(todo[r]) = Step("make", id)
               /\ Len(Tail(todo[r])) = 2 /\ Tail(todo[r])[1] = RUnlock
               /\ Tail(todo[r])[2] \in {Step("put", id), Fatalf}
      <4>1. m = 1 \/ m = 2
        <5>1. m \in 1 .. 2
          BY <3>3, <3>8, Zenon
        <5> QED
          BY <5>1
      <4>2. ~Unknown(RUnlock) /\ ~Unknown(Step("put", id)) /\ ~Unknown(Fatalf)
        BY DEF Unknown, RUnlock, Fatalf, Step
      <4> QED
        BY <3>4, <3>8, <4>1, <4>2
    <3> QED
      BY <3>6, <3>7, <3>8, AfterAsking
  <2> QED
    BY <2>2, <2>3
<1> QED
  BY <1>4, <1>5, <1>6, <1>7

(* The routine that waits for the lock stays about to write, whatever      *)
(* another does.                                                           *)
LEMMA WaiterStays ==
  ASSUME RegistryInv, NEW r \in Routines, ~Now(r, "write"), UNCHANGED waiting,
         \A q \in Routines \ {r} : todo'[q] = todo[q]
  PROVE  WaiterWrites'
<1>1. CASE waiting = {}
  BY <1>1 DEF WaiterWrites
<1>2. CASE waiting # {}
  <2>1. PICK q \in Routines : waiting = {q} /\ Now(q, "write")
    BY <1>2 DEF RegistryInv, WaiterWrites
  <2>2. todo'[q] = todo[q]
    BY <2>1
  <2> QED
    BY <2>1, <2>2 DEF WaiterWrites, Now
<1> QED
  BY <1>1, <1>2

(* A step of the registry that leaves the read locks alone.                *)
LEMMA PlainGoesKeeps ==
  ASSUME RegistryInv, NEW r \in Routines, todo[r] # <<>>, NEW steps \in Seq(Steps),
         \A level \in Nat : Leads(steps, level, level), WriteFollowsLock(steps),
         \A n \in 1 .. Len(steps) : ~Unknown(steps[n]),
         ~Unknown(Head(todo[r])), Head(todo[r]).do \notin {"rlock", "runlock"},
         Goes(r, steps), UNCHANGED readers,
         factories \subseteq factories', factories' \subseteq Ids
  PROVE  RegistryTypes' /\ LocksAreReleased' /\ WritesFollow' /\ UnknownIsOutermost'
<1>1. readers' \in [Routines -> Nat] /\ Moves(Head(todo[r]), readers[r], readers'[r])
  BY DEF RegistryInv, RegistryTypes, Moves
<1> QED
  BY <1>1, GoesKeeps

(* CreateMock of a mock without a factory: the read lock, which the call   *)
(* holds once, is released, and Fatalf ends the goroutine.                 *)
LEMMA NotFoundKeeps ==
  ASSUME RegistryInv, NEW r \in Routines, todo[r] # <<>>, Unknown(Head(todo[r])),
         todo' = [todo EXCEPT ![r] = NotFound], UNCHANGED <<factories, readers>>
  PROVE  RegistryTypes' /\ LocksAreReleased' /\ WritesFollow' /\ UnknownIsOutermost'
<1> USE DEF RegistryInv
<1>1. /\ Tail(todo[r]) \in Seq(Steps)
      /\ Len(todo[r]) \in Nat /\ Len(todo[r]) >= 1
      /\ Head(todo[r]) = todo[r][1]
  BY TailOfSteps DEF RegistryTypes
<1>2. PICK id \in Ids : todo[r] \in AskingFor(id)
  <2>1. 1 \in 1 .. Len(todo[r]) /\ Unknown(todo[r][1])
    BY <1>1
  <2> QED
    BY <2>1 DEF UnknownIsOutermost
<1>3. /\ Head(todo[r]) = Step("make", id)
      /\ Len(Tail(todo[r])) = 2 /\ Tail(todo[r])[1] = RUnlock
      /\ Tail(todo[r])[2] \in {Step("put", id), Fatalf}
  BY <1>2, AfterAsking DEF Unknown
<1>4. readers[r] = 1
  <2>1. readers[r] \in Nat /\ Leads(todo[r], readers[r], 0)
    BY DEF RegistryTypes, LocksAreReleased
  <2>2. Moves(Head(todo[r]), readers[r], readers[r])
    BY <1>3 DEF Moves, Step
  <2> DEFINE rest == Tail(todo[r])
  <2>3. /\ Leads(rest, readers[r], 0)
        /\ Len(rest) = 2 /\ rest[1] = RUnlock /\ rest[2] \in {Step("put", id), Fatalf}
    BY <1>3, <2>1, <2>2, TailLeads DEF RegistryTypes
  <2> HIDE DEF rest
  <2>4. PICK held \in [1 .. Len(rest) + 1 -> Nat] :
          /\ held[1] = readers[r] /\ held[Len(rest) + 1] = 0
          /\ \A n \in 1 .. Len(rest) : Moves(rest[n], held[n], held[n + 1])
    BY <2>3 DEF Leads
  <2>5. /\ Moves(RUnlock, held[1], held[2])
        /\ \E step \in {Step("put", id), Fatalf} : Moves(step, held[2], held[3])
        /\ held[3] = 0 /\ held[1] \in Nat /\ held[2] \in Nat
    <3>1. /\ Moves(rest[1], held[1], held[2])
          /\ Moves(rest[2], held[2], held[3])
          /\ held[3] = 0 /\ held[1] \in Nat /\ held[2] \in Nat
      BY <2>3, <2>4
    <3> QED
      BY <2>3, <3>1
  <2>6. held[1] = held[2] + 1 /\ held[3] = held[2]
    BY <2>5 DEF Moves, RUnlock, Fatalf, Step
  <2> QED
    BY <2>4, <2>5, <2>6
<1>5. /\ NotFound \in Seq(Steps) /\ Len(NotFound) = 2
      /\ NotFound[1] = RUnlock /\ NotFound[2] = Fatalf
  BY StepTypes DEF NotFound
<1>6. \A n \in 1 .. 2 : n = 1 \/ n = 2
  OBVIOUS
<1>7. Leads(NotFound, 1, 0)
  <2> DEFINE held == [n \in 1 .. 3 |-> IF n = 1 THEN 1 ELSE 0]
  <2>1. held \in [1 .. 3 -> Nat] /\ held[1] = 1 /\ held[3] = 0
    OBVIOUS
  <2>2. Moves(RUnlock, held[1], held[2]) /\ Moves(Fatalf, held[2], held[3])
    BY DEF Moves, RUnlock, Fatalf, Step
  <2> HIDE DEF held
  <2>3. ASSUME NEW n \in 1 .. 2 PROVE Moves(NotFound[n], held[n], held[n + 1])
    BY <1>5, <1>6, <2>2
  <2> QED
    BY <1>5, <2>1, <2>3 DEF Leads
<1>8. \A n \in 1 .. 2 : NotFound[n].do \notin {"lock", "make"}
  BY <1>5, <1>6 DEF RUnlock, Fatalf, Step
<1>9. /\ todo' \in [Routines -> Seq(Steps)] /\ todo'[r] = NotFound
      /\ \A q \in Routines \ {r} : todo'[q] = todo[q]
  BY <1>5 DEF RegistryTypes
<1>10. RegistryTypes'
  BY <1>9 DEF RegistryTypes
<1>11. ASSUME NEW q \in Routines
       PROVE  /\ Leads(todo'[q], readers'[q], 0)
              /\ WriteFollowsLock(todo'[q])
              /\ (\E n \in 1 .. Len(todo'[q]) : Unknown(todo'[q][n]))
                   => \E i \in Ids : todo'[q] \in AskingFor(i)
  <2>1. CASE q = r
    BY <1>4, <1>5, <1>7, <1>8, <1>9, <2>1 DEF WriteFollowsLock, Unknown
  <2>2. CASE q # r
    BY <1>9, <2>2 DEF LocksAreReleased, WritesFollow, UnknownIsOutermost
  <2> QED
    BY <2>1, <2>2
<1>12. LocksAreReleased' /\ WritesFollow'
  BY <1>11 DEF LocksAreReleased, Leads, WritesFollow, WriteFollowsLock
<1>13. UnknownIsOutermost'
  BY <1>11 DEF UnknownIsOutermost, Unknown
<1> QED
  BY <1>10, <1>12, <1>13

(* Fatalf, and the calls of the registry, one step at a time.              *)
LEMMA RegistryKeeps ==
  ASSUME RegistryInv, NEW r \in Routines,
         \/ RegistrySteps(r)
         \/ Now(r, "fatal") /\ Goes(r, <<>>) /\ UNCHANGED <<factories, readers, waiting>>
  PROVE  RegistryInv'
<1> USE DEF RegistryInv
<1>1. /\ factories \subseteq Ids /\ readers[r] \in Nat /\ readers \in [Routines -> Nat]
      /\ todo[r] \in Seq(Steps) /\ todo \in [Routines -> Seq(Steps)]
  BY DEF RegistryTypes
<1>2. /\ <<>> \in Seq(Steps) /\ WriteFollowsLock(<<>>)
      /\ \A level \in Nat : Leads(<<>>, level, level)
      /\ \A n \in 1 .. Len(<<>>) : ~Unknown(<<>>[n])
  <2>1. 1 .. Len(<<>>) = {}
    BY NoSteps
  <2> QED
    BY <2>1, NoSteps
<1>3. ASSUME NEW do, Now(r, do), do # "make" PROVE todo[r] # <<>> /\ ~Unknown(Head(todo[r]))
  BY <1>3 DEF Now, Unknown
<1>4. ASSUME NEW steps, Goes(r, steps) PROVE \A q \in Routines \ {r} : todo'[q] = todo[q]
  BY <1>4 DEF Goes, RegistryTypes
<1>5. CASE TakeReadLock(r)
  <2>1. /\ Now(r, "rlock") /\ Goes(r, <<>>) /\ UNCHANGED <<factories, waiting>>
        /\ readers' = [readers EXCEPT ![r] = @ + 1]
    BY <1>5 DEF TakeReadLock
  <2>2. /\ readers' \in [Routines -> Nat]
        /\ Moves(Head(todo[r]), readers[r], readers'[r])
        /\ \A q \in Routines \ {r} : readers'[q] = readers[q]
    BY <1>1, <2>1 DEF Moves, Now
  <2>3. RegistryTypes' /\ LocksAreReleased' /\ WritesFollow' /\ UnknownIsOutermost'
    BY <1>1, <1>2, <1>3, <2>1, <2>2, GoesKeeps
  <2>4. WaiterWrites'
    BY <1>4, <2>1, WaiterStays DEF Now
  <2> QED
    BY <2>3, <2>4
<1>6. CASE ReleaseReadLock(r)
  <2>1. /\ Now(r, "runlock") /\ Goes(r, <<>>) /\ UNCHANGED <<factories, waiting>>
        /\ readers' = [readers EXCEPT ![r] = @ - 1]
    BY <1>6 DEF ReleaseReadLock
  <2>2. readers[r] >= 1
    <3>1. Leads(todo[r], readers[r], 0) /\ todo[r] # <<>>
      BY <2>1 DEF LocksAreReleased, Now
    <3>2. PICK held \in [1 .. Len(todo[r]) + 1 -> Nat] :
            /\ held[1] = readers[r]
            /\ \A n \in 1 .. Len(todo[r]) : Moves(todo[r][n], held[n], held[n + 1])
      BY <3>1 DEF Leads
    <3>3. /\ Len(todo[r]) \in Nat /\ Len(todo[r]) >= 1 /\ Head(todo[r]) = todo[r][1]
      BY <1>1, <3>1, TailOfSteps
    <3>4. Moves(todo[r][1], held[1], held[2]) /\ held[2] \in Nat
      BY <3>2, <3>3
    <3>5. todo[r][1].do = "runlock"
      BY <2>1, <3>3 DEF Now
    <3> QED
      BY <3>2, <3>4, <3>5 DEF Moves
  <2>3. /\ readers' \in [Routines -> Nat]
        /\ Moves(Head(todo[r]), readers[r], readers'[r])
        /\ \A q \in Routines \ {r} : readers'[q] = readers[q]
    BY <1>1, <2>1, <2>2 DEF Moves, Now
  <2>4. RegistryTypes' /\ LocksAreReleased' /\ WritesFollow' /\ UnknownIsOutermost'
    BY <1>1, <1>2, <1>3, <2>1, <2>3, GoesKeeps
  <2>5. WaiterWrites'
    BY <1>4, <2>1, WaiterStays DEF Now
  <2> QED
    BY <2>4, <2>5
<1>7. CASE Make(r)
  <2> DEFINE id == Head(todo[r]).id
  <2>1. /\ Now(r, "make") /\ UNCHANGED <<factories, readers, waiting>>
        /\ IF id \in factories THEN Goes(r, Factory(id))
           ELSE todo' = [todo EXCEPT ![r] = NotFound]
    BY <1>7 DEF Make
  <2>2. todo[r] # <<>> /\ Head(todo[r]).do = "make"
    BY <2>1 DEF Now
  <2>3. \A q \in Routines \ {r} : todo'[q] = todo[q]
    BY <1>1, <1>4, <2>1
  <2>4. WaiterWrites'
    BY <2>1, <2>2, <2>3, WaiterStays DEF Now
  <2>5. CASE id \in factories
    <3>1. /\ Factory(id) \in Seq(Steps)
          /\ \A level \in Nat : Leads(Factory(id), level, level)
          /\ WriteFollowsLock(Factory(id))
          /\ \A n \in 1 .. Len(Factory(id)) : ~Unknown(Factory(id)[n])
      <4>1. id \in Ids /\ 0 \in Nat
        BY <1>1, <2>5
      <4> HIDE DEF id
      <4> QED
        BY <1>1, <4>1, FactoryLeads
    <3>2. ~Unknown(Head(todo[r]))
      BY <2>5 DEF Unknown
    <3>3. Goes(r, Factory(id))
      BY <2>1, <2>5
    <3> HIDE DEF id
    <3>4. RegistryTypes' /\ LocksAreReleased' /\ WritesFollow' /\ UnknownIsOutermost'
      BY <1>1, <2>1, <2>2, <3>1, <3>2, <3>3, PlainGoesKeeps
    <3> QED
      BY <2>4, <3>4
  <2>6. CASE id \notin factories
    <3>1. Unknown(Head(todo[r]))
      BY <2>2, <2>6 DEF Unknown
    <3>2. RegistryTypes' /\ LocksAreReleased' /\ WritesFollow' /\ UnknownIsOutermost'
      BY <2>1, <2>2, <2>6, <3>1, NotFoundKeeps
    <3> QED
      BY <2>4, <3>2
  <2> QED
    BY <2>5, <2>6
<1>8. CASE MakeNested(r)
  <2> DEFINE id == Head(todo[r]).id
             steps == IF id \in factories THEN Factory(id) ELSE <<>>
  <2>1. Now(r, "nested") /\ Goes(r, steps) /\ UNCHANGED <<factories, readers, waiting>>
    BY <1>8 DEF MakeNested
  <2>2. todo[r] # <<>> /\ Head(todo[r]).do = "nested" /\ ~Unknown(Head(todo[r]))
    BY <1>3, <2>1 DEF Now
  <2>3. /\ steps \in Seq(Steps) /\ \A level \in Nat : Leads(steps, level, level)
        /\ WriteFollowsLock(steps) /\ \A n \in 1 .. Len(steps) : ~Unknown(steps[n])
    <3>1. CASE id \in factories
      <4>1. id \in Ids /\ steps = Factory(id)
        BY <1>1, <3>1
      <4>2. 0 \in Nat
        OBVIOUS
      <4> HIDE DEF id, steps
      <4> QED
        BY <1>1, <4>1, <4>2, FactoryLeads
    <3>2. CASE id \notin factories
      <4>1. steps = <<>>
        BY <3>2
      <4> HIDE DEF id, steps
      <4> QED
        BY <1>2, <4>1
    <3> QED
      BY <3>1, <3>2
  <2> HIDE DEF id, steps
  <2>4. RegistryTypes' /\ LocksAreReleased' /\ WritesFollow' /\ UnknownIsOutermost'
    BY <1>1, <2>1, <2>2, <2>3, PlainGoesKeeps
  <2>5. WaiterWrites'
    BY <1>4, <2>1, <2>2, WaiterStays DEF Now
  <2> QED
    BY <2>4, <2>5
<1>9. CASE MakeEach(r)
  <2>1. /\ Now(r, "each") /\ UNCHANGED <<factories, readers, waiting>>
    BY <1>9 DEF MakeEach
  <2>2. PICK order \in [1 .. Cardinality(factories) -> factories] :
          Goes(r, [n \in 1 .. 2 * Len(order) |->
                     Step(IF n % 2 = 1 THEN "make" ELSE "put", order[(n + 1) \div 2])])
    BY <1>9 DEF MakeEach
  <2>3. order \in Seq(factories)
    <3>1. Cardinality(factories) \in Nat
      BY <1>1, FS_Subset, FS_CardinalityType, MockServicesAssumption
    <3> QED
      BY <3>1, IsASeq
  <2> DEFINE steps == [n \in 1 .. 2 * Len(order) |->
                        Step(IF n % 2 = 1 THEN "make" ELSE "put", order[(n + 1) \div 2])]
  <2>4. /\ steps \in Seq(Steps)
        /\ \A level \in Nat : Leads(steps, level, level)
        /\ WriteFollowsLock(steps)
        /\ \A n \in 1 .. Len(steps) : ~Unknown(steps[n])
    <3>1. ASSUME NEW level \in Nat
          PROVE  /\ steps \in Seq(Steps) /\ Leads(steps, level, level) /\ WriteFollowsLock(steps)
                 /\ \A n \in 1 .. Len(steps) : ~Unknown(steps[n])
      BY <1>1, <2>3, EachLeads
    <3>2. 0 \in Nat
      OBVIOUS
    <3> HIDE DEF steps
    <3> QED
      BY <3>1, <3>2
  <2>5. Goes(r, steps)
    BY <2>2
  <2> HIDE DEF steps
  <2>6. Head(todo[r]).do \notin {"rlock", "runlock"}
    BY <2>1 DEF Now
  <2>7. RegistryTypes' /\ LocksAreReleased' /\ WritesFollow' /\ UnknownIsOutermost'
    BY <1>1, <1>3, <2>1, <2>4, <2>5, <2>6, PlainGoesKeeps
  <2>8. WaiterWrites'
    BY <1>4, <2>1, <2>5, WaiterStays DEF Now
  <2> QED
    BY <2>7, <2>8
<1>10. CASE \/ RegisterService(r)
            \/ Now(r, "fatal") /\ Goes(r, <<>>) /\ UNCHANGED <<factories, readers, waiting>>
  <2>1. /\ Now(r, "put") \/ Now(r, "fatal")
        /\ Goes(r, <<>>) /\ UNCHANGED <<factories, readers, waiting>>
    BY <1>10 DEF RegisterService
  <2>2. /\ todo[r] # <<>> /\ ~Unknown(Head(todo[r]))
        /\ Head(todo[r]).do \notin {"rlock", "runlock"} /\ ~Now(r, "write")
    BY <2>1 DEF Now, Unknown
  <2>3. RegistryTypes' /\ LocksAreReleased' /\ WritesFollow' /\ UnknownIsOutermost'
    BY <1>1, <1>2, <2>1, <2>2, PlainGoesKeeps
  <2>4. WaiterWrites'
    BY <1>4, <2>1, <2>2, WaiterStays
  <2> QED
    BY <2>3, <2>4
<1>11. CASE AwaitLock(r)
  <2>1. /\ Now(r, "lock") /\ Goes(r, <<>>) /\ UNCHANGED <<factories, readers>>
        /\ waiting' = {r}
    BY <1>11 DEF AwaitLock
  <2>2. /\ todo[r] # <<>> /\ ~Unknown(Head(todo[r])) /\ Head(todo[r]).do = "lock"
    BY <2>1 DEF Now, Unknown
  <2>3. RegistryTypes' /\ LocksAreReleased' /\ WritesFollow' /\ UnknownIsOutermost'
    BY <1>1, <1>2, <2>1, <2>2, PlainGoesKeeps
  <2>4. Tail(todo[r]) # <<>> /\ Head(Tail(todo[r])).do = "write"
    BY <1>1, <2>2, TailFollows DEF WritesFollow
  <2>5. todo'[r] = Tail(todo[r])
    <3>1. todo'[r] = <<>> \o Tail(todo[r]) /\ Tail(todo[r]) \in Seq(Steps)
      BY <1>1, <2>1, <2>2, TailOfSteps DEF Goes
    <3> QED
      BY <3>1, ConcatEmptySeq
  <2>6. WaiterWrites'
    BY <2>1, <2>4, <2>5 DEF WaiterWrites, Now
  <2> QED
    BY <2>3, <2>6
<1>12. CASE WriteFactory(r)
  <2>1. /\ Now(r, "write") /\ Goes(r, <<>>) /\ UNCHANGED readers /\ waiting' = {}
        /\ factories' = factories \cup {Head(todo[r]).id}
    BY <1>12 DEF WriteFactory
  <2>2. /\ todo[r] # <<>> /\ ~Unknown(Head(todo[r])) /\ Head(todo[r]).do = "write"
    BY <2>1 DEF Now, Unknown
  <2>3. Head(todo[r]).id \in Ids
    <3>1. Head(todo[r]) \in Steps
      BY <1>1, <2>2, TailOfSteps
    <3> QED
      BY <2>2, <3>1 DEF Steps
  <2>4. factories \subseteq factories' /\ factories' \subseteq Ids
    BY <1>1, <2>1, <2>3
  <2>5. RegistryTypes' /\ LocksAreReleased' /\ WritesFollow' /\ UnknownIsOutermost'
    BY <1>1, <1>2, <2>1, <2>2, <2>4, PlainGoesKeeps
  <2> QED
    BY <2>1, <2>5 DEF WaiterWrites
<1> QED
  BY <1>5, <1>6, <1>7, <1>8, <1>9, <1>10, <1>11, <1>12 DEF RegistrySteps

(* A step that leaves the registry as it is.                               *)
LEMMA QuietRegistry ==
  ASSUME RegistryInv, UNCHANGED <<factories, readers, waiting, todo>>
  PROVE  RegistryInv'
<1>1. RegistryTypes' /\ WritesFollow' /\ LocksAreReleased'
  BY DEF RegistryInv, RegistryTypes, WritesFollow, WriteFollowsLock, LocksAreReleased, Leads
<1>2. WaiterWrites'
  BY DEF RegistryInv, WaiterWrites, Now
<1>3. UnknownIsOutermost'
  BY DEF RegistryInv, UnknownIsOutermost, Unknown
<1> QED
  BY <1>1, <1>2, <1>3 DEF RegistryInv

(* A call of the registry starts with no read lock held.                   *)
LEMMA CallKeeps ==
  ASSUME RegistryInv, NEW r \in Routines, NEW call \in RegistryCalls, todo[r] = <<>>,
         todo' = [todo EXCEPT ![r] = call], UNCHANGED <<factories, readers, waiting>>
  PROVE  RegistryInv'
<1> USE DEF RegistryInv
<1>1. /\ call \in Seq(Steps) /\ Leads(call, 0, 0) /\ WriteFollowsLock(call)
      /\ (\E n \in 1 .. Len(call) : Unknown(call[n])) => \E id \in Ids : call \in AskingFor(id)
  BY CallsLead
<1>2. readers[r] = 0
  <2>1. PICK held \in [1 .. Len(<<>>) + 1 -> Nat] : held[1] = readers[r] /\ held[Len(<<>>) + 1] = 0
    BY DEF LocksAreReleased, Leads
  <2>2. Len(<<>>) + 1 = 1
    BY NoSteps
  <2> QED
    BY <2>1, <2>2
<1>3. /\ todo' \in [Routines -> Seq(Steps)] /\ todo'[r] = call
      /\ \A q \in Routines \ {r} : todo'[q] = todo[q]
  BY <1>1 DEF RegistryTypes
<1>4. RegistryTypes'
  BY <1>3 DEF RegistryTypes
<1>5. ASSUME NEW q \in Routines
      PROVE  /\ Leads(todo'[q], readers'[q], 0)
             /\ WriteFollowsLock(todo'[q])
             /\ (\E n \in 1 .. Len(todo'[q]) : Unknown(todo'[q][n]))
                  => \E id \in Ids : todo'[q] \in AskingFor(id)
  <2>1. CASE q = r
    BY <1>1, <1>2, <1>3, <2>1
  <2>2. CASE q # r
    BY <1>3, <2>2 DEF LocksAreReleased, WritesFollow, UnknownIsOutermost
  <2> QED
    BY <2>1, <2>2
<1>6. LocksAreReleased' /\ WritesFollow'
  BY <1>5 DEF LocksAreReleased, Leads, WritesFollow, WriteFollowsLock
<1>7. UnknownIsOutermost'
  BY <1>5 DEF UnknownIsOutermost, Unknown
<1>8. WaiterWrites'
  BY <1>3, WaiterStays DEF Now
<1> QED
  BY <1>4, <1>6, <1>7, <1>8

(* The registry keeps its invariant in every step.                         *)
LEMMA RegistryStep ==
  ASSUME RegistryInv, [Next]_vars
  PROVE  RegistryInv'
<1>1. CASE UNCHANGED vars
  BY <1>1, QuietRegistry DEF vars, registryVars
<1>2. CASE Test
  BY <1>2, QuietRegistry DEF Test, TimeIsUp, EndTest, registryVars
<1>3. ASSUME NEW r \in Routines, Waiter(r) PROVE RegistryInv'
  BY <1>3, QuietRegistry DEF Waiter, WaiterReceives, WaiterTimesOut, registryVars
<1>4. ASSUME NEW r \in Routines, Service(r) PROVE RegistryInv'
  <2>1. CASE CallsTheRegistry(r)
    BY <2>1, CallKeeps DEF CallsTheRegistry, Idle
  <2>2. CASE CallsTheMailer(r)
    BY <2>2, QuietRegistry DEF CallsTheMailer, registryVars
  <2>3. CASE IsInACall(r)
    <3>1. CASE UNCHANGED registryVars
      BY <3>1, QuietRegistry DEF registryVars
    <3>2. CASE RegistrySteps(r)
      BY <3>2, RegistryKeeps
    <3> QED
      BY <2>3, <3>1, <3>2 DEF IsInACall
  <2>4. CASE EndsWithFatalf(r)
    BY <2>4, RegistryKeeps DEF EndsWithFatalf
  <2>5. CASE \E answer \in Answers : ServiceSends(r, answer)
    BY <2>5, QuietRegistry DEF ServiceSends, Sends, registryVars
  <2>6. CASE ServiceGoesOn(r) \/ ServiceReturns(r) \/ WithErrorHandler(r) \/ HandlerForwards(r)
    BY <2>6, QuietRegistry
    DEF ServiceGoesOn, Sends, ServiceReturns, WithErrorHandler, HandlerForwards, registryVars
  <2> QED
    BY <1>4, <2>1, <2>2, <2>3, <2>4, <2>5, <2>6 DEF Service
<1> QED
  BY <1>1, <1>2, <1>3, <1>4 DEF Next

------------------------------------------------------------------------------
(* At the start nothing is registered, sent or reported.                   *)
LEMMA InitHolds ==
  ASSUME Init
  PROVE  IInv
<1>1. ReportInv
  <2>1. ReportTypes
    BY DEF Init, ReportTypes, Channels, ForAll, None, Answers
  <2>2. AnswersTravel
    BY DEF Init, AnswersTravel, HandlerPath, PlainPath, HoldsFirst, ForAll, None, Answers
  <2>3. EndsLast /\ ReportsFollow
    BY DEF Init, EndsLast, ReportsFollow, ForAll, None, Answers
  <2> QED
    BY <2>1, <2>2, <2>3 DEF ReportInv
<1>2. MailerInv
  <2>1. MailerTypes
    BY DEF Init, MailerInit, MailerTypes, Mailing, NotMailing
  <2>2. TemplatesGrow
    BY DEF Init, MailerInit, TemplatesGrow, NotMailing
  <2>3. EmailsAreCapturedAndRendered
    <3>1. sentEmails = <<>> /\ \A s \in Senders : completed[s] = 0
      BY DEF Init, MailerInit
    <3>2. DOMAIN sentEmails = {}
      BY <3>1
    <3>3. \A s \in Senders : EmailsBy(s) = {}
      BY <3>2 DEF EmailsBy
    <3> QED
      BY <3>1, <3>2, <3>3, FS_EmptySet DEF EmailsAreCapturedAndRendered, EmailsBy
  <2> QED
    BY <2>1, <2>2, <2>3 DEF MailerInv
<1>3. RegistryInv
  <2>1. /\ factories \subseteq Ids /\ waiting = {}
        /\ readers = [r \in Routines |-> 0] /\ todo = [r \in Routines |-> <<>>]
    BY DEF Init, RegistryInit
  <2>2. RegistryTypes
    BY <2>1 DEF RegistryTypes
  <2>3. LocksAreReleased /\ WritesFollow
    BY <2>1, NoSteps DEF LocksAreReleased, WritesFollow
  <2>4. UnknownIsOutermost
    <3>1. 1 .. Len(<<>>) = {}
      BY NoSteps
    <3> QED
      BY <2>1, <3>1 DEF UnknownIsOutermost
  <2> QED
    BY <2>1, <2>2, <2>3, <2>4 DEF RegistryInv, WaiterWrites
<1> QED
  BY <1>1, <1>2, <1>3 DEF IInv

(* The three invariants hold in every behaviour, for any services, service *)
(* IDs and factories.                                                      *)
THEOREM InvariantHolds == Spec => []IInv
<1>1. Init => IInv
  BY InitHolds
<1>2. IInv /\ [Next]_vars => IInv'
  BY ReportsStep, MailerStep, RegistryStep DEF IInv
<1> QED
  BY <1>1, <1>2, PTL DEF Spec

(* What is reported of an operation is the first answer its service sent,  *)
(* which the error handler was told before; a timeout only after time was  *)
(* up; and no test ends under a service that has not answered before.      *)
THEOREM HonestReports == Spec => []ReportsAreHonest
<1>1. ASSUME IInv PROVE ReportsAreHonest
  <2> SUFFICES ASSUME NEW r \in Routines, ended PROVE first[r] # None \/ timeUp
    BY <1>1 DEF IInv, ReportInv, ReportsFollow, ReportsAreHonest
  <2>1. reported[r] \in Answers \cup {"timeout"}
    BY <1>1 DEF IInv, ReportInv, ReportTypes, EndsLast
  <2> QED
    BY <1>1, <2>1 DEF IInv, ReportInv, ReportsFollow, None, Answers
<1> QED
  BY <1>1, InvariantHolds, PTL

(* The mailer holds every email sent since it was cleared, once each, and  *)
(* none is rendered with a template older than its call.                   *)
THEOREM EmailsKept == Spec => []EmailsAreCapturedAndRendered
<1>1. IInv => EmailsAreCapturedAndRendered
  BY DEF IInv, MailerInv
<1> QED
  BY <1>1, InvariantHolds, PTL

(* Whoever waits for the registry's lock for ever waits for a routine that *)
(* is in a call with the read lock held: what became of calls that ended,  *)
(* with Fatalf too, holds nobody up.                                       *)
THEOREM OnlyCallsBlock == Spec => []OnlyNestedFactoriesBlock
<1>1. ASSUME IInv PROVE OnlyNestedFactoriesBlock
  <2> SUFFICES ASSUME InACall # {}, \A r \in InACall : Blocked(r)
               PROVE  \E r \in InACall : readers[r] > 0
    BY DEF OnlyNestedFactoriesBlock
  <2>1. \E r \in Routines : Now(r, "write") /\ ~Unread
    <3>1. PICK r \in Routines : todo[r] # <<>> /\ Blocked(r)
      BY DEF InACall
    <3>2. CASE Now(r, "write") /\ ~Unread
      BY <3>2
    <3>3. CASE waiting # {}
      <4>1. PICK q \in Routines : Now(q, "write")
        BY <1>1, <3>3 DEF IInv, RegistryInv, WaiterWrites
      <4>2. q \in InACall
        BY <4>1 DEF InACall, Now
      <4>3. Blocked(q)
        BY <4>2
      <4> QED
        BY <4>1, <4>3 DEF Blocked, Now
    <3> QED
      BY <3>1, <3>2, <3>3 DEF Blocked
  <2>2. PICK q \in Routines : readers[q] # 0
    BY <2>1 DEF Unread
  <2>3. readers[q] \in Nat /\ Leads(todo[q], readers[q], 0)
    BY <1>1 DEF IInv, RegistryInv, RegistryTypes, LocksAreReleased
  <2>4. todo[q] # <<>>
    <3> SUFFICES ASSUME todo[q] = <<>> PROVE FALSE
      OBVIOUS
    <3>1. PICK held \in [1 .. Len(<<>>) + 1 -> Nat] :
            held[1] = readers[q] /\ held[Len(<<>>) + 1] = 0
      BY <2>3 DEF Leads
    <3>2. Len(<<>>) + 1 = 1
      BY NoSteps
    <3> QED
      BY <2>2, <3>1, <3>2
  <2>5. q \in InACall /\ readers[q] > 0
    BY <2>2, <2>3, <2>4 DEF InACall
  <2> QED
    BY <2>5
<1> QED
  BY <1>1, InvariantHolds, PTL

(* A goroutine that is in no call holds no read lock: neither a factory    *)
(* that was not found nor Fatalf leaves the registry locked behind it.     *)
NoLockIsLeaked == \A r \in Routines : todo[r] = <<>> => readers[r] = 0

(* A call of the registry that has ended has released every read lock it   *)
(* took (CreateMock's deferred RUnlock in service_mock_registry.go).       *)
THEOREM LocksNotLeaked == Spec => []NoLockIsLeaked
<1>1. ASSUME IInv PROVE NoLockIsLeaked
  <2> SUFFICES ASSUME NEW r \in Routines, todo[r] = <<>> PROVE readers[r] = 0
    BY DEF NoLockIsLeaked
  <2>1. PICK held \in [1 .. Len(<<>>) + 1 -> Nat] :
          held[1] = readers[r] /\ held[Len(<<>>) + 1] = 0
    BY <1>1 DEF IInv, RegistryInv, LocksAreReleased, Leads
  <2>2. Len(<<>>) + 1 = 1
    BY NoSteps
  <2> QED
    BY <2>1, <2>2
<1> QED
  BY <1>1, InvariantHolds, PTL
==============================================================================
