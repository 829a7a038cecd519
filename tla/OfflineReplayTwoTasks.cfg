SPECIFICATION Spec
CONSTANTS
  Workers = {httpd, reader}
  Intents = {i1}
  NoIntent = NoIntent
  PowerCuts = FALSE
INVARIANT NoOfflineReplay
