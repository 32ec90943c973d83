CONSTANTS
  Items = {a, b}
  Commands = 1
  Foreign = Foreign
SPECIFICATION LandingSpec
SYMMETRY Symmetric
INVARIANTS
  AuditGit
  RecordsAreTrue
PROPERTIES
  ChangesSurvive
  LandsWhatWasChecked
  ImplementsTargetBranch
