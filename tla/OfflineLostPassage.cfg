SPECIFICATION Spec
CONSTANTS
  Workers = {reader}
  Intents = {i1, i2}
  NoIntent = NoIntent
  PowerCuts = FALSE
INVARIANT PassagesReachIdentity
