SPECIFICATION FairSpec
CONSTANTS
  InitSize = 2
  Exchanges = {1, 2, 3}
  Signals = {SIGINT}
  Ignored = {}
CHECK_DEADLOCK FALSE
INVARIANTS
  NoSharedChunk
  OwnersAlive
  NothingLeft
PROPERTIES
  LeavesClosed
  Leaves
