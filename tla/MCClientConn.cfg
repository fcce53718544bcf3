CONSTANTS
  Half = 3
  Hdr = 2
  Unit = 1
  MaxInt = 17
  MaxInput = 5
  Frames <- MCFrames
  FrameLen = 2
  RelayBuf = 7
  MaxRecord = 2
  MaxPieces = 4
SPECIFICATION FairSpec
INVARIANTS Disguise StreamKept FramesAreMessages
PROPERTIES Decided MaskEnds
CHECK_DEADLOCK FALSE
