SPECIFICATION FairSpec
CONSTANTS
  Caller = {c1, c2}
  MaxProcesses = 3
  WorkCodes = {1}
  Suspended = {1}
  MaxCalls = 3
INVARIANTS TypeOK Tracked ExitedIsTold CodeIsHonest
PROPERTIES RunningEnds
CHECK_DEADLOCK FALSE
