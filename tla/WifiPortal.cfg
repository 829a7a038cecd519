CONSTANTS
  Tasks = {"sys", "timer", "boot"}
  FailuresBeforePortal = 2
  MaxEvents = 1
SPECIFICATION FairSpec
INVARIANTS PortalKept NeverLingers PhaseIsHonest
PROPERTY OfflineReachable
