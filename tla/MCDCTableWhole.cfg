CONSTANTS
  Poster = {r1}
  Web = {"w1"}
  Proxy = {"p1", "p2"}
  Starter = boot
  Bare = {"p1", "blank"}
  Blank = "blank"
  Filled = "p1"
  None = None
  Torn = Torn
  MaxCrashes = 0
  Refresher = {f1}
  Main = main
  WithFallback = {"p1", "blank"}
  NoList = NoList
SPECIFICATION TableSpec
INVARIANT WholeList
CHECK_DEADLOCK FALSE
