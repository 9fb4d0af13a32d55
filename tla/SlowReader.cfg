CONSTANTS
  c1 = c1
  c2 = c2
  Clients = {c1, c2}
  Threads = {t1}
  Scripts <- PausingScripts
  SockOut = 1
  HighWater = 1
  PausedLimit = 1
  Big = 1
SPECIFICATION Spec
PROPERTIES ResumesOnceDrained
CHECK_DEADLOCK FALSE
