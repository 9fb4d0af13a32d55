CONSTANTS
  c1 = c1
  c2 = c2
  Clients = {c1, c2}
  Threads = {t1, t2}
  Scripts <- MCScripts
  SockOut = 1
  HighWater = 2
  PausedLimit = 1
  Big = 3
SPECIFICATION Spec
INVARIANTS RepliesInOrder ClosedAfterLastReply NoJobIsForgotten
CHECK_DEADLOCK FALSE
PROPERTIES EveryCommandAnswered
