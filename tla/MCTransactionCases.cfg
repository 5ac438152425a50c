CONSTANTS
  Decorations <- MCDecorations
  Scripts <- MCScripts
  Ends <- MCEnds
  Retries = {0, 2}
SPECIFICATION Spec
INVARIANTS
  ErrorsAreHonest
  AttemptsFollowTheScript
PROPERTIES
  NothingOutlivesTheTest
  EveryTimedCaseEnds
\* The test has ended, or waits for its service for ever.
CHECK_DEADLOCK FALSE
