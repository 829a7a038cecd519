CONSTANTS
  Keys = {k1}
  NoKey = NoKey
  Wirings = {"old"}
  MaxVersion = 1
  ManualSetups = TRUE
  Failures = TRUE
  PowerCuts = FALSE
SPECIFICATION FairSpec
PROPERTY RevokedIsDropped
