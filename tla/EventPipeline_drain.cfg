SPECIFICATION FairSpec
CONSTANTS
  p1 = p1
  p2 = p2
  Projectors = {p1, p2}
  MaxEvents = 3
  BatchSize = 2
  GlobalMax = 2
  RunMax = 2
  MayLose = TRUE
  MayFail = TRUE
  MayStop = TRUE
INVARIANTS NoGap
PROPERTIES NeverSkipped
CHECK_DEADLOCK FALSE
