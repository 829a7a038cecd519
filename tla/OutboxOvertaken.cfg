CONSTANTS
  Detections = 2
  MaxAttempts = 2
  Failures = FALSE
  Crashes = FALSE
SPECIFICATION Spec
INVARIANT QueuedIsKept
