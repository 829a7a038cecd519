CONSTANTS
  Callers = {reader, command}
  Revocable = TRUE
  Reconfigurable = TRUE
SPECIFICATION Spec
SYMMETRY Symmetric
INVARIANT EnergizedIsReleased
PROPERTY UntilClosedHolds
