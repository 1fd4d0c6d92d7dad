SPECIFICATION CallSpec
CONSTANTS
  Rate = 2
  Burst = 3
  Wants = {1, 2, 3}
  Skews = {0}
  Horizon = 4
  Calls <- MCCalls
INVARIANTS RetryAfterSuffices ProviderIsSpared DeadlineHolds FallbackHolds
CHECK_DEADLOCK FALSE
