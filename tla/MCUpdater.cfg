CONSTANTS
  Current <- OldVersion
  Latest <- NewVersion
  Request = {r1, r2, r3}
  Troubles = {{}, {"nohelper"}, {"kill"}, {"busy", "nohelper", "kill"}, {"overlap", "kill"}}
SPECIFICATION Spec
INVARIANTS BinaryIntact RestartedNew Recoverable OldKept
CHECK_DEADLOCK FALSE
