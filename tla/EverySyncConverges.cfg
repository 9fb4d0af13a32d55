CONSTANTS
  Key = {a, b}
  FlushAll = FlushAll
  MaxTs = 3
  MaxGroup = 2
  MaxLinks = 2
  QueueLimit = 2
  SocketLimit = 1
  SnapBatch = 2
SPECIFICATION Spec
SYMMETRY MCSymmetry
INVARIANTS EverySyncConverges
CHECK_DEADLOCK FALSE
