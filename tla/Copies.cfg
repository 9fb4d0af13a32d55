CONSTANTS
  Capacity = 19
  Align = 2
  MaxBytes = 7
  Key = {a, b}
  FlushAll = FlushAll
  MaxTs = 3
  MaxGroup = 2
  MaxLinks = 2
  QueueLimit = 2
  SocketLimit = 1
  SnapBatch = 2
  Pages = {p, q}
  Gpus = 1
  Sizes = {1}
  DramCap = 2
  VramCap = 2
  SpillCap = 1
  RingCap = 1
  Budget = 1
SPECIFICATION MCSpec
SYMMETRY MCSymmetry
INVARIANTS
  CleanSyncConverges
  BlocksHaveOneOwner
  AuthorityIsCurrent
  NoAliasing
  NothingIsLost
  RefusedOnlyWhenFull
PROPERTIES
  CopyMovesForward
CHECK_DEADLOCK FALSE
