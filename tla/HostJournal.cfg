SPECIFICATION JournalSpec
CONSTANTS
  Iid = {i1, i2}
  Decision = {d1}
  None = None
  MaxGeneration = 3
  MaxRestoreTries = 2
  ChainModes = {TRUE, FALSE}
  FileEvents = {"delete", "damage", "edit", "rollback"}
  MaxFileEvents = 1
  MaxBoots = 3
  WriteMayFail = TRUE
  CrashPoints = {"serving", "restoring"}
SYMMETRY Symmetry
INVARIANTS JournalTypeOK OwnFileIsNoReplay NoStaleStart IntentOnDisk
CHECK_DEADLOCK FALSE
