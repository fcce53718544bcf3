CONSTANTS
  Caller = {a, b}
  Requests <- Shared
  DC <- DC2
  Base <- OneBase
  NoBase = NoBase
  RaceWidth = 4
SPECIFICATION MCSpec
SYMMETRY Symm
INVARIANTS WinnersOnly WorkerFirst NeverStuck
PROPERTIES BlacklistJustified
CHECK_DEADLOCK FALSE
