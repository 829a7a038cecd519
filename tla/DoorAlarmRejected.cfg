CONSTANTS
  Callers = {reader, command}
  Revocable = TRUE
  Reconfigurable = FALSE
SPECIFICATION FairSpec
PROPERTY AlarmEndsWithClose
