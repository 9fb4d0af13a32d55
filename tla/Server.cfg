CONSTANTS
  Clients = {t1, t2}
  Reaper = Reaper
  MaxNow = 1
  Publishers = {p1, p2}
  QueueLimit = 1
  SocketLimit = 1
  Consumers = {c1, c2}
  Blockers = {c2}
  MaxId = 2
  MaxAdded = 2
  Searchers = {s1, s2, s3}
  Shapes = {1, 2}
  MaxLeaders = 2
  Cap = 2
  MaxFailures = 2
SPECIFICATION MCSpec
INVARIANTS ExactUntilTheyMeet NoSilentLoss NothingSlipsThrough LagIsExact
PROPERTIES OverdueEntriesGo ClosedSessionsEnd BlockedReadersAreServed EveryQueryGetsItsRow
CHECK_DEADLOCK FALSE
