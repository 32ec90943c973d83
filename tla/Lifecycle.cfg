CONSTANTS
  a = a
  b = b
  Items = {a, b}
  Checks <- SevenChecks
  StageOf <- OneEach
  Candidates = {"x", "y"}
  Tree <- TreeOf
  Baseline = "base"
  Outcomes <- AllOutcomes
  WorkerId <- WorkerIds
  MaxGen = 2
  Limit <- SmallLimits
  Parts = {"item", "replaced", "produced", "ledger"}
  Ceiling <- CodeLimits
  Stages = {3, 7}
  Procedures = {"p"}
  Fingerprints = {"f", "g"}
  Trees = {"t", "u", "v"}
SPECIFICATION MCSpec
INVARIANTS
  AuditLifecycle
  EvidenceInForce
  RetriesAreBounded
PROPERTIES
  ItemLivesAsAssumed
  AttemptsDoNotMix
CHECK_DEADLOCK FALSE
