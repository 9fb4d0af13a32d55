SPECIFICATION Spec
CONSTANTS
  a = a
  b = b
  Key = {a, b}
  Write <- MCWrite
  MaxId = 3
  MaxBoot = 1
  MaxWipe = 1
PROPERTIES
  CommitsAfterFlushStay
CHECK_DEADLOCK FALSE
