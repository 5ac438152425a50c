CONSTANTS
  s1 = s1
  s2 = s2
  mailer = mailer
  users = users
  NoId = NoId
  Routines = {s1, s2}
  Senders = {s1, s2}
  Ids = {mailer, users}
  Creates <- MCCreates
  Rewrites = {users}
  MaxCalls = 1
  MaxAnswers = 2
SPECIFICATION Spec
INVARIANTS
  OnlyNestedFactoriesBlock
  EmailsAreCapturedAndRendered
  ReportsAreHonest
PROPERTY EveryTestEnds
\* Services that are done, or that wait for ever, have nothing left to do.
CHECK_DEADLOCK FALSE
