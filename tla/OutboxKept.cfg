CONSTANTS
  Detections = 3
  MaxAttempts = 2
  Failures = TRUE
  Crashes = TRUE
SPECIFICATION FairSpec
INVARIANTS QueueInOrder Accounted DroppedAfterRetries
PROPERTY QueueDrains
