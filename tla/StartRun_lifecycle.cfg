SPECIFICATION Spec
CONSTANTS
  r1 = r1
  r2 = r2
  r3 = r3
  a1 = a1
  a2 = a2
  c1 = c1
  g = g
  Requests = {r1, r2, r3}
  Apis = {a1, a2}
  NoRequest = NoRequest
  Runs = {1, 2, 3}
  Reconcilers = {c1}
  Readers = {g}
  Settings <- MCSettings
INVARIANTS ReservationIsHeld SameAnswer SettledIsTrue
PROPERTIES SettledStays EveryEndIsSettled
CHECK_DEADLOCK FALSE
