SPECIFICATION Spec
CONSTANTS
  MaxHeight = 2
  MaxRuns = 3
  MaxFaults = 2
  Nonce <- MCNonce
  Chain <- MCChain
CHECK_DEADLOCK FALSE
INVARIANTS
  TornByFault
  ExitStatus
PROPERTIES
  NeverForLess
  Implements
