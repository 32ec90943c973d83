SPECIFICATION MCSpec
CONSTANTS
  MaxAttempts = 2
  MaxFaults = 2
VIEW View
INVARIANTS
  CancelWins
  AdoptedIsExtinct
  CompletionsAreKept
CHECK_DEADLOCK FALSE
