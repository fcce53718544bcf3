CONSTANTS
  Poster = {r1, r2}
  Web = {"w1", "w2"}
  Proxy = {"p1", "p2"}
  Starter = boot
  Bare = {"p1", "blank"}
  Blank = "blank"
  Filled = "p1"
  None = None
  Torn = Torn
  MaxCrashes = 0
SPECIFICATION Spec
SYMMETRY Symm
INVARIANT SavedIsKept
CHECK_DEADLOCK FALSE
