CONSTANTS
  MaxSent = 2
  PacketEnds = {1}
  IdleTimeout = {TRUE, FALSE}
SPECIFICATION FairSpec
INVARIANTS NoGap ReturnComplete
PROPERTIES NothingHeldBack RelayReturns
CHECK_DEADLOCK FALSE
