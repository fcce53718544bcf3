CONSTANTS
  Key = {k1}
  Conn = {c1, c2, c3, c4}
  Client = {h1, h2}
  NoConn = NoConn
  Target = 2
  Trouble = FALSE
SPECIFICATION Spec
INVARIANT NextCallerHits
CHECK_DEADLOCK FALSE
