CONSTANTS
  Key = {k1}
  Conn = {c1, c2, c3}
  Client = {h1}
  NoConn = NoConn
  Target = 2
  Trouble = TRUE
SPECIFICATION FairSpec
INVARIANTS PoolBounded OwnedOnce StragglersBounded
PROPERTIES RefillReturns ClosedRests
