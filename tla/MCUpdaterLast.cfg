CONSTANTS
  Current <- OldVersion
  Latest <- NewVersion
  Request = {r1}
  Troubles = {{"busy", "nohelper"}}
SPECIFICATION Spec
INVARIANT LastResortInstalls
CHECK_DEADLOCK FALSE
