CONSTANTS
  a = a
  b = b
  NoClient = NoClient
  Client = {c1}
  Key = {a}
  Blind <- MCBlind
  Txn <- MCOverwrite
  MaxVersions = 2
  MaxInt = 2
  MaxTs = 5
  GroupLimit = 3
SPECIFICATION Spec
INVARIANTS PublishedIsReadable
CHECK_DEADLOCK FALSE
