SPECIFICATION ShareSpec
CONSTANTS
  heavy = heavy
  light = light
  other = other
  Tenants = {heavy, light, other}
  Step <- StepThree
  IdleSeconds = 1
  Horizon = 3
  MaxVirtualTime = 6
INVARIANTS ProportionalShare
