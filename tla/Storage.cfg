CONSTANTS
  a = a
  b = b
  NoClient = NoClient
  Client = {c1, c2}
  Key = {a, b}
  Blind <- MCBlind
  Txn <- MCTxn
  MaxVersions = 2
  MaxInt = 2
  MaxTs = 5
  GroupLimit = 1
  MaxBoot = 1
  Committers = {m1, m2}
  m1 = m1
  i1 = i1
  y = y
  m2 = m2
  Prefixes = 1
  LogCap = 4
  MaxCommits = 5
  Ids = {i1, i2}
  Dims = {1, 2}
  Tags = {x, y}
  RebuildRatio = 1
  MaxCommands = 3
SPECIFICATION MCSpec
SYMMETRY MCSymmetry
INVARIANTS
  TxnReadsStand
  ExecMissesOnlyDeletes
  TombstonesAreTracked
  AsOfIsExactOrRefused
  JoinerMissesNothing
  GraphIsStore
PROPERTIES
  ImplementsSerialStore
CHECK_DEADLOCK FALSE
