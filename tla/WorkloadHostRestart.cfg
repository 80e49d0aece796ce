SPECIFICATION Spec
CONSTANTS
  Iid = {i1}
  Decision = {d1}
  None = None
  MaxGeneration = 20
  MaxRestoreTries = 2
  ChainModes = {TRUE}
  FileEvents = {}
  MaxFileEvents = 0
  MaxBoots = 3
  WriteMayFail = FALSE
  CrashPoints = {"serving", "restoring"}
  Continuous = {i1}
  Local = {}
  MissLimit = 1
  MaxRestarts = 1
  DepartedCap = 2
  Faults = {"launch", "stop", "fetch"}
  Overlap = FALSE
  Budget <- RestartBudget
INVARIANTS StopHolds NothingLeftBehind
PROPERTIES ImplementsView UsesJournal
CHECK_DEADLOCK FALSE
