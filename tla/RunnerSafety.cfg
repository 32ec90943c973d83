CONSTANTS
  Requests = {r1, r2}
  Procs = {p1, p2}
  MaxEpoch = 1
SPECIFICATION Spec
SYMMETRY Symmetric
INVARIANTS
  WorkspaceExclusive
  SettledIsExtinct
PROPERTIES
  FencedNeverStarts
CHECK_DEADLOCK FALSE
