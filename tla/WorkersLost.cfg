SPECIFICATION FairSpec
CONSTANTS
  MaxAttempts = 1
PROPERTIES
  DeadAttemptsAreMarked
CHECK_DEADLOCK FALSE
