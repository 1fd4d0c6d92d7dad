SPECIFICATION Spec
CONSTANTS
  MaxAttempts = 2
  Batches = 4
  HeartbeatBatches = 2
  Settings <- MCSettings
CHECK_DEADLOCK FALSE
INVARIANTS ChecksumIsRight NoOrphan HealthyCompletes
PROPERTIES CheckpointAdvances
