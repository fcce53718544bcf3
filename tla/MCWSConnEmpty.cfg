CONSTANTS
  Closer = {"handler"}
  Size = {1}
  ReadSize = {1}
  MaxFrames = 2
  MaxWrites = 0
SPECIFICATION WSSpec
INVARIANT FragmentsAccepted
CHECK_DEADLOCK FALSE
