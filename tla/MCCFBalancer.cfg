CONSTANTS
  Domain = {d1, d2}
  Default = {d1}
  Custom = own
  HasCustom = FALSE
  DC = {main, media}
  Caller = {c1, c2}
  MinValid = 1
  MaxStamp = 2
SPECIFICATION CFSpec
INVARIANTS NoStampede StrayOnlyByOldDials
