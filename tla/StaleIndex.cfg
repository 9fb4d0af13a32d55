CONSTANTS
  Clients = {c1, c2}
  Reaper = Reaper
  MaxNow = 1
SPECIFICATION Spec
INVARIANTS ExactReads
CHECK_DEADLOCK FALSE
