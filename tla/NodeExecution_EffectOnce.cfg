SPECIFICATION CrashSpec
CONSTANT
  MaxAttempts = 2
INVARIANT EffectOnce
CHECK_DEADLOCK FALSE
