CONSTANTS
  Debounce = 1
  ClickWindow = 2
  WarnAfter = 1
  ResetAfter = 2
  Settle = 1
  Cooldown = 3
SPECIFICATION Spec
INVARIANTS ClicksAnswered
PROPERTIES NoRefire ResetIsWarned ResetErases
