SPECIFICATION FairSpec
CONSTANTS
  d1 = d1
  d2 = d2
  Deciders = {d1, d2}
  MayStall = TRUE
  MayTerminate = TRUE
  MayFail = TRUE
INVARIANTS RowIsHeard EndStateSame
PROPERTIES GateResolves
CHECK_DEADLOCK FALSE
