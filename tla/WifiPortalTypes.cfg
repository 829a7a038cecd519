CONSTANTS
  Tasks = {"sys", "timer", "boot"}
  FailuresBeforePortal = 2
  MaxEvents = 1
SPECIFICATION WifiSpec
INVARIANT WifiTypeOK
