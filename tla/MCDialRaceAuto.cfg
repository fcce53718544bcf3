CONSTANTS
  Caller = {a}
  Requests <- Auto
  DC <- DC2
  Base <- OneBase
  NoBase = NoBase
  RaceWidth = 4
SPECIFICATION Spec
INVARIANTS WSBeforeTCP
CHECK_DEADLOCK FALSE
