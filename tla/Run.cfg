CONSTANTS
  a = a
  b = b
  d = d
  p = p
  q = q
  c1 = c1
  c2 = c2
  d1 = d1
  Items = {a, b}
  Order <- SerialOrder
  Deps <- SerialDeps
  Scope = {a, b}
  Serial = TRUE
  Lanes = 2
  Resources = {}
  Demand <- Unlimited
  Capacity <- Unlimited
  Mutexes = {}
  Gates = {"g"}
  GatesOf <- SerialGates
  Procs = {p, q}
  Calls = {c1, c2, d1}
  Process <- TwoProcesses
  None = None
  MaxGen = 2
SPECIFICATION MCSpec
INVARIANTS
  AuditSnapshot
  ParallelAuditPasses
  CancelledIsQuiet
PROPERTIES
  CancellationSettles
  NothingStartsUnlessActive
  BaseIsAcceptedPrefix
  ImplementsItemLife
CHECK_DEADLOCK FALSE
