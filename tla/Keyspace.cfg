CONSTANTS
  Keys = {k1, k2}
  Members = {a, b}
  Scores = {1, 2}
  MaxInt = 1
  MaxLen = 2
  Reach = 2
  Deadlines = {1}
  MaxNow = 1
  Callers = {v1, v2}
  None = None
  Owner <- MCOwner
  Values = {1}
  Branches = {"main", "dev"}
  MaxCommits = 5
  MaxOps = 6
  MaxWrites = 2
  MaxFlush = 1
  MaxBoot = 1
  Ids = {1, 2}
  MaxCommands = 4
SPECIFICATION MCSpec
SYMMETRY MCSymmetry
INVARIANTS NothingIsMissed MergesCommute KeysAreWhole RecordsAreWhole
PROPERTIES WorkingCopyIsHead ImplementsKeyTypes
CHECK_DEADLOCK FALSE
