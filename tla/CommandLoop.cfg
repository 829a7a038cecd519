SPECIFICATION FairSpec
CONSTANTS
  c1 = c1
  c2 = c2
  Commands = {c1, c2}
INVARIANTS OrderedImagesOnly DoneUpdateRuns
PROPERTIES ImplementsRemoteOrder CommandsAnswered
CHECK_DEADLOCK FALSE
