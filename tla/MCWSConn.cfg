CONSTANTS
  Closer = {"handler"}
  Size = {2}
  ReadSize = {1}
  MaxFrames = 3
  MaxWrites = 1
SPECIFICATION WSFairSpec
INVARIANTS DataInOrder WriteFailsForReason
PROPERTY CloseEnds
CHECK_DEADLOCK FALSE
