CONSTANTS
  Keys = {k1}
  NoKey = NoKey
  Wirings = {"old", "new"}
  MaxVersion = 1
  ManualSetups = TRUE
  Failures = TRUE
  PowerCuts = TRUE
SPECIFICATION Spec
INVARIANTS StoredIsLive DriversFollowConfig
