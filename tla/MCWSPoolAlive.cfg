CONSTANTS
  Key = {k1}
  Conn = {c1, c2, c3}
  Client = {h1}
  NoConn = NoConn
  Target = 2
  Trouble = FALSE
SPECIFICATION Spec
PROPERTY RelayedAlive
CHECK_DEADLOCK FALSE
