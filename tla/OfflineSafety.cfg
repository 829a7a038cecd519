CONSTANTS
  Workers = {httpd, reader}
  Intents = {i1}
  NoIntent = NoIntent
  PowerCuts = TRUE
SPECIFICATION Spec
SYMMETRY Symmetric
INVARIANT OpenedStaysConsumed
PROPERTIES ImplementsTicketUse PostedThenRecorded
