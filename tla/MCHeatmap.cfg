SPECIFICATION Spec
CONSTANTS
  Modulus = 128
  Mantissa = 3
  Lists <- MCLists
  Jobs <- MCJobs
CHECK_DEADLOCK FALSE
INVARIANTS
  ShowsDenoted
  ColumnsFit
  ImageFits
  OnlyLowestLost
  CrashIsNarrow
