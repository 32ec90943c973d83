SPECIFICATION SettlesSpec
CONSTANTS
  Requests = {r1}
  Procs = {p1, p2}
  NoProc = NoProc
  a = a
  b = b
  MaxRevision = 3
  MaxEpoch = 2
  Items = {a}
  Commands = 1
  Foreign = Foreign
  Proc = {l1, l2, l3}
  NoOwner = NoOwner
  Empty = Empty
  LockKinds = {"session", "model", "plan"}
  MaxDeaths = 2
  MaxRepairs = 2
PROPERTIES
  JournaledSettles
  RepairsEnd
  CancelledOperationCloses
  LocksAreGivenBack
  CancellationEnds
  ImplementsAttempt
  ImplementsRegister
CHECK_DEADLOCK FALSE
