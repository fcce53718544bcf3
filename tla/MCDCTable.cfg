CONSTANTS
  Poster = {r1, r2}
  Web = {"w1"}
  Proxy = {"p1", "p2"}
  Starter = boot
  Bare = {"p1", "blank"}
  Blank = "blank"
  Filled = "p1"
  None = None
  Torn = Torn
  MaxCrashes = 1
  Refresher = {f1}
  Main = main
  WithFallback = {"p1", "blank"}
  NoList = NoList
SPECIFICATION MCSpec
SYMMETRY Symm
VIEW StoreView
INVARIANTS FileWhole AckObeyed
CHECK_DEADLOCK FALSE
