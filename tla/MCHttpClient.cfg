SPECIFICATION FairSpec
CONSTANTS
  HasTimer = TRUE
  Eof = Eof
  ConnectError = {Eof, Refused, Reset}
CHECK_DEADLOCK FALSE
INVARIANTS
  HonestOutcome
  WillBeTold
PROPERTIES
  EndsInTime
  Implements
