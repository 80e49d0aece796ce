SPECIFICATION Spec
CONSTANTS
  Iid = {i1}
  Decision = {d1}
  None = None
  MaxGeneration = 20
  MaxRestoreTries = 2
  ChainModes = {TRUE}
  FileEvents = {}
  MaxFileEvents = 0
  MaxBoots = 1
  WriteMayFail = FALSE
  CrashPoints = {"serving"}
  Continuous = {i1}
  Local = {}
  MissLimit = 1
  MaxRestarts = 1
  DepartedCap = 2
  Faults = {"launch", "stop", "prepare", "rmdir", "deny"}
  Overlap = TRUE
  Budget <- TaskBudget
INVARIANTS ListedIsWhole
CHECK_DEADLOCK FALSE
