CONSTANTS
  Caller = {a}
  Requests <- Relayed
  DC <- DC2
  Base <- OneBase
  NoBase = NoBase
  RaceWidth = 4
SPECIFICATION Spec
PROPERTIES SiblingSkipped
CHECK_DEADLOCK FALSE
