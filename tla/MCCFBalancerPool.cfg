CONSTANTS
  Domain = {d1, d2, d3}
  Default = {d1}
  Custom = own
  HasCustom = FALSE
  DC = {main}
  Caller = {c1}
  MinValid = 2
  MaxStamp = 1
SPECIFICATION CFSpec
PROPERTY OffersOnlyPool
CHECK_DEADLOCK FALSE
