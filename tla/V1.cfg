SPECIFICATION MCSpec
CONSTANTS
  None = None
  i1 = i1
  i2 = i2
  i3 = i3
  Item = {i1, i2}
  Chain <- Coding
  Shared = {i1, i2}
  MaxLanes = 2
  Capacity = 2
  Replacements = 1
  MaxEpoch = 2
  MaxReroutes = 2
  Nobody = Nobody
  Proc = {p1, p2, p3}
  Starters = {p1, p2}
  Times = {1, 2}
  MaxRevision = 2
  NoItem = None
  Elsewhere = Foreign
  Order <- ThreeItems
INVARIANTS
  WorkersHoldTheirReservations
  Audit
  ClosedIsQuiet
PROPERTIES
  FencedStaysFenced
  CancellationEndsUnlessStranded
  SnapshotsAreSafe
  TrainKeepsThePromise
CHECK_DEADLOCK FALSE
