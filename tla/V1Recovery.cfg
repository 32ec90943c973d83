SPECIFICATION FairSpec
CONSTANTS
  None = None
  Proc = {p1, p2, p3}
  Starters = {p1}
  Times = {1, 2}
  MaxRevision = 2
PROPERTIES
  DeadOwnerIsReplaced
CHECK_DEADLOCK FALSE
