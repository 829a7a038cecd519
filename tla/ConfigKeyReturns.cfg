CONSTANTS
  Keys = {k1}
  NoKey = NoKey
  Wirings = {"old", "new"}
  MaxVersion = 1
  ManualSetups = TRUE
  Failures = FALSE
  PowerCuts = FALSE
SPECIFICATION Spec
PROPERTY SyncNeverProvisions
