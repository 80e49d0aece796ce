SPECIFICATION Spec
CONSTANTS
  Policy <- MCPolicy
  MissLimit = 2
  MaxNow = 9
  MaxMisses = 6
  MaxBack = 1
  MaxStarts = 1
INVARIANTS TypeOK BudgetHolds Ascending Spaced
PROPERTIES FailedIsHeld
CHECK_DEADLOCK FALSE
