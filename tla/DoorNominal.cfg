CONSTANTS
  Callers = {reader, command}
  Revocable = FALSE
  Reconfigurable = FALSE
SPECIFICATION FairSpec
INVARIANTS CloseReachesRelay AlarmHasStop
PROPERTIES UnlockEnds PulseEnds AlarmEndsWithClose
