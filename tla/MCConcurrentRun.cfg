\* Three routines: enough for a success, an error and a time-out at once.
CONSTANT NumRoutines = 3
SPECIFICATION FairSpec
INVARIANTS
  TypeOK
  NoSendAfterClose
  ReportNeverBlocks
  ErrorsAccountForRoutines
  TimeoutsAreReal
  NoSilentOrphan
PROPERTIES
  ImplementsPromise
  Termination
  WorkerNeverLeaks
\* The call returns and nothing is left to run.
CHECK_DEADLOCK FALSE
