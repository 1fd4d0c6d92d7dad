SPECIFICATION Spec
CONSTANTS
  a1 = a1
  a2 = a2
  b1 = b1
  a = a
  b = b
  Nodes = {a1, a2, b1}
  Runs = {a, b}
  RunOf <- RunOfNode
  Urgent = {a1}
  Soft = 1
  Hard = 2
  Limit = 1
  Costs = {0, 2}
  MaxCost = 2
  MaxRestarts = 1
  MaxAttempts <- AttemptsOfNode
INVARIANTS WatermarksHold BudgetBindsCost BoundedOvershoot
CHECK_DEADLOCK FALSE
