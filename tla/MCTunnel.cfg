CONSTANTS
  MaxUp = 3
  MaxDown = 3
SPECIFICATION FairSpec
INVARIANTS TunnelInOrder LastWordsArrive
PROPERTY TunnelEnds
CHECK_DEADLOCK FALSE
