CONSTANTS
  Current <- OldVersion
  Latest <- NewVersion
  Request = {r1, r2}
  Troubles = {{"overlap"}}
SPECIFICATION Spec
INVARIANT InstalledStays
CHECK_DEADLOCK FALSE
