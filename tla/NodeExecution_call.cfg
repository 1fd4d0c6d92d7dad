SPECIFICATION FairSpec
CONSTANT
  MaxAttempts = 2
INVARIANTS ResultsAreReal DoubleCommitNeedsLateAttempt
PROPERTIES ImplementsContract CallCloses
CHECK_DEADLOCK FALSE
