SPECIFICATION Spec
CONSTANTS
  Iid = {i1}
  Decision = {d1, d2}
  None = None
  MaxGeneration = 20
  MaxRestoreTries = 2
  ChainModes = {TRUE}
  FileEvents = {}
  MaxFileEvents = 0
  MaxBoots = 1
  WriteMayFail = FALSE
  CrashPoints = {"serving"}
  Continuous = {i1}
  Local = {}
  MissLimit = 1
  MaxRestarts = 1
  DepartedCap = 2
  Faults = {"launch", "prepare", "fetch", "rmdir", "deny"}
  Overlap = FALSE
  Budget <- PlaceBudget
SYMMETRY Symmetry
INVARIANTS TypeOK StatusSettles  NothingLeftBehind
CHECK_DEADLOCK FALSE
