CONSTANTS
  Caller = {a}
  Requests <- TwoPlans
  DC <- DC2
  Base <- OneBase
  NoBase = NoBase
  RaceWidth = 4
SPECIFICATION Spec
INVARIANTS AllFailed
CHECK_DEADLOCK FALSE
