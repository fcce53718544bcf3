CONSTANTS
  Caller = {a, b}
  Requests <- Probed
  DC <- DC2
  Base <- OneBase
  NoBase = NoBase
  RaceWidth = 4
SPECIFICATION Spec
INVARIANTS RealPicture
CHECK_DEADLOCK FALSE
