SPECIFICATION Spec
CONSTANTS
  Modulus = 14
  MaxRange = 2
  Concurrency = 3
  PrintTime = 1
  MaxHeight = 13
  Conforming = TRUE
  MaxFail = 2
  Nonce <- MCNonce
  Chain <- MCChain
  Stored <- MCStored
CHECK_DEADLOCK FALSE
INVARIANTS
  ConcurrencyBound
  Coverage
  NoMissingHeader
  NoDuplicateWork
  RemainingNotNegative
  SuccessIsQuiet
  ReportsComplete
