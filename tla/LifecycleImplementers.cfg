CONSTANTS
  a = a
  b = b
  Items = {a, b}
  Checks <- SevenChecks
  StageOf <- OneEach
  Candidates = {"x"}
  Tree <- TreeOf
  Baseline = "base"
  Outcomes <- AllOutcomes
  WorkerId <- WorkerIds
  MaxGen = 2
  Limit <- SmallLimits
  Parts = {"implementers"}
  Ceiling <- CodeLimits
  Stages = {3, 7}
  Procedures = {"p"}
  Fingerprints = {"f", "g"}
  Trees = {"t", "u", "v"}
SPECIFICATION MCSpec
INVARIANTS
  EvaluatorsDidNotImplement
CHECK_DEADLOCK FALSE
