----------------------------- MODULE TestMailer -----------------------------
(***************************************************************************)
(* The mailer of a test, used by several goroutines.  The captured emails  *)
(* are guarded by a mutex, the map of templates by nothing: Go's runtime   *)
(* may end the binary when a read and a write of it, or two writes,        *)
(* overlap.                                                                *)
(***************************************************************************)
EXTENDS Naturals, Sequences, FiniteSets

CONSTANT Senders  \* goroutines using the mailer

VARIABLES
  templates,   \* how often the template has been registered
  mailing,     \* the call each sender is in
  sentEmails,  \* the emails captured
  completed,   \* emails each sender has sent since they were cleared
  crashed      \* the runtime has ended the binary

mailerVars == <<templates, mailing, sentEmails, completed, crashed>>

NotMailing == [at |-> "idle"]
Sending(since) == [at |-> "called", since |-> since]

MailerInit ==
  /\ templates = 0
  /\ mailing = [s \in Senders |-> NotMailing]
  /\ sentEmails = <<>>
  /\ completed = [s \in Senders |-> 0]
  /\ crashed = FALSE

At(s, call) == mailing[s].at = call

Overlaps(s, accesses) == \E other \in Senders \ {s} : mailing[other].at \in accesses
Accesses(s, accesses) ==
  IF Overlaps(s, accesses) THEN crashed' \in BOOLEAN ELSE UNCHANGED crashed

(* TemplateSend: the mock's answer, the template, the capture.             *)
TemplateSend(s) ==
  /\ At(s, "idle")
  /\ mailing' = [mailing EXCEPT ![s] = Sending(templates)]
  /\ UNCHANGED <<templates, sentEmails, completed, crashed>>

Render(s) ==
  /\ At(s, "called")
  /\ Accesses(s, {"writing"})
  /\ mailing' = [mailing EXCEPT ![s].at = "reading"]
  /\ UNCHANGED <<templates, sentEmails, completed>>

Rendered(s) ==
  /\ At(s, "reading")
  /\ mailing' = [mailing EXCEPT ![s] =
                   [at |-> "rendered", since |-> @.since, with |-> templates]]
  /\ UNCHANGED <<templates, sentEmails, completed, crashed>>

LastOnly(emails, email) == <<email>>  \* a bug: the emails before it are lost

Captured(emails, email) == Append(emails, email)

Capture(s) ==
  /\ At(s, "rendered")
  /\ sentEmails' = Captured(sentEmails,
       [by |-> s, since |-> mailing[s].since, with |-> mailing[s].with])
  /\ completed' = [completed EXCEPT ![s] = @ + 1]
  /\ mailing' = [mailing EXCEPT ![s] = NotMailing]
  /\ UNCHANGED <<templates, crashed>>

TemplateRegister(s) ==
  /\ At(s, "idle")
  /\ Accesses(s, {"reading", "writing"})
  /\ mailing' = [mailing EXCEPT ![s] = [at |-> "writing"]]
  /\ UNCHANGED <<templates, sentEmails, completed>>

Registered(s) ==
  /\ At(s, "writing")
  /\ templates' = templates + 1
  /\ mailing' = [mailing EXCEPT ![s] = NotMailing]
  /\ UNCHANGED <<sentEmails, completed, crashed>>

ClearSentEmails(s) ==
  /\ At(s, "idle")
  /\ sentEmails' = <<>>
  /\ completed' = [o \in Senders |-> 0]
  /\ UNCHANGED <<templates, mailing, crashed>>

MailerCalls(s) == TemplateSend(s) \/ TemplateRegister(s) \/ ClearSentEmails(s)
MailerSteps(s) == Render(s) \/ Rendered(s) \/ Capture(s) \/ Registered(s)

------------------------------------------------------------------------------
(* While the binary lives, the mailer holds every email sent since it was  *)
(* cleared, once each, and each is rendered with the template as it was    *)
(* when TemplateSend was called or with a later one, never without.        *)
EmailsAreCapturedAndRendered ==
  /\ \A s \in Senders :
       completed[s] = Cardinality({n \in DOMAIN sentEmails : sentEmails[n].by = s})
  /\ \A n \in DOMAIN sentEmails : sentEmails[n].with >= sentEmails[n].since
=============================================================================
