CONSTANTS
  Workers = {httpd, reader}
  Intents = {i1}
  NoIntent = NoIntent
  PowerCuts = TRUE
SPECIFICATION FairSpec
PROPERTIES PendingIsReported ScanEnds
