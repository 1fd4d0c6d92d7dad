SPECIFICATION ChaosSpec
CONSTANTS
  Containers = {"c1", "c2"}
  Fresh = 1
  Ttl = 2
  Scenarios <- MCScenarios
INVARIANTS
  GraphIsTrue
  GateTellsVisit
  EdgesAreCausal
  AttemptsAccounted
  LivenessIsHonest
  PassedMeansSurvived
  FleetAsFound
PROPERTIES
  WindowIsTheClock
  RunRecovers
CHECK_DEADLOCK FALSE
