CONSTANTS
  Workers = {httpd, reader}
  Intents = {i1}
  NoIntent = NoIntent
  PowerCuts = FALSE
SPECIFICATION FairSpec
PROPERTIES PendingIsReported ScanEnds
