SPECIFICATION FairSpec
CONSTANTS
  HasTimer = TRUE
  Eof = Eof
  ConnectError = {Eof, Reset}
  Fingerprint = TRUE
  MaxRecords = 5
CHECK_DEADLOCK FALSE
INVARIANTS
  RequestProtected
  NothingHeldBack
PROPERTIES
  Implements
  EndsInTime
