CONSTANTS
  Detections = 2
  MaxAttempts = 2
  Failures = TRUE
  Crashes = TRUE
  Mappings <- Mapped
  NoZone = NoZone
  Gap = 2
  Late = 1
  MaxFrame = 6
SPECIFICATION FairBridge
INVARIANTS QueueInOrder Accounted DroppedAfterRetries SuppressedIsReported
PROPERTIES QueueDrains OneSessionAtATime
