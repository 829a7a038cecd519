SPECIFICATION Spec
CONSTANTS
  c1 = c1
  c2 = c2
  Commands = {c1, c2}
INVARIANT MismatchNeverStarts
CHECK_DEADLOCK FALSE
