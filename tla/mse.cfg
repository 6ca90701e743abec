SPECIFICATION FairSpec
CONSTANTS
  KeyLen = 2
  HashLen = 2
  VcLen = 2
  PadLimit = 3
  Methods = {"plain", "rc4"}
  MaxInitial = 1
  MaxData = 1
INVARIANTS
  SyncAlwaysFound
  HandshakesAgree
PROPERTY HandshakesEnd
CHECK_DEADLOCK FALSE
