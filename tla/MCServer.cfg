CONSTANTS
  Conn = {c1, c2}
  a1 = a1
  a2 = a2
  b = b
  g1 = g1
  g2 = g2
  ka = ka
  kb = kb
  kg = kg
  old = old
  new = new
  k0 = k0
  k1 = k1
  Secret <- MCSecret
  Generated <- MCGenerated
  Key <- MCKey
  KeyOf <- MCKeyOf
  Name <- MCName
  DefaultName = old
  Knobs <- MCKnobs
  BootConfigs <- AnyBoot
  PostedConfigs <- TwoUpdates
  ListenMayFail = TRUE
  NoSecret = NoSecret
  NoConn = NoConn
SPECIFICATION FairSpec
INVARIANTS ActiveExact RevokedClosed LiveCounted
PROPERTIES AdmittedWithinLimit KeptOpen ImplementsGate RevokedLeaves UpdateReturns
