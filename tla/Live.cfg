CONSTANTS
  a = a
  b = b
  Key = {a, b}
  Write <- MCWrite
  MaxId = 2
  MaxBoot = 1
  MaxWipe = 1
  FlushAll = FlushAll
  MaxTs = 2
  MaxGroup = 1
  MaxLinks = 2
  QueueLimit = 1
  SocketLimit = 1
  SnapBatch = 2
SPECIFICATION MCSpec
INVARIANTS AckedSurvive RecoveryIsAPrefix ReadYourWrites
PROPERTIES SnapshotsAreStable PoisonIsFinal EveryCommitIsAnswered CheckpointsEnd EveryWaitEnds
CHECK_DEADLOCK FALSE
