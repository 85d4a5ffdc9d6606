SPECIFICATION FairSpec
CONSTANTS
  Modulus = 100
  MaxRange = 1
  Concurrency = 2
  PrintTime = 1
  MaxHeight = 4
  Conforming = FALSE
  MaxFail = 1
  MaxRequests = 6
  Nonce <- MCNonce
  Chain <- MCChain
  Stored <- MCStored
CHECK_DEADLOCK FALSE
INVARIANT
  IInv
PROPERTIES
  Implements
  Ends
