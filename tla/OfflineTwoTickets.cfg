CONSTANTS
  Workers = {reader}
  Intents = {i1, i2}
  NoIntent = NoIntent
  PowerCuts = TRUE
SPECIFICATION Spec
SYMMETRY Symmetric
INVARIANTS OpenedStaysConsumed NoTaskOpensTwice
PROPERTIES ImplementsTicketUse PostedThenRecorded
