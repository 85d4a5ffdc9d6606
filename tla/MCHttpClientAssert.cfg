SPECIFICATION Spec
CONSTANTS
  HasTimer = TRUE
  Eof = Eof
  ConnectError = {Eof, Refused, Reset}
CHECK_DEADLOCK FALSE
INVARIANT
  KeyIsStored
