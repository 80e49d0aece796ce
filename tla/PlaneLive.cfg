SPECIFICATION FairSpec
CONSTANTS
  Node = {n1, n2}
  Decision = {1, 2, 3, 4, 5, 6}
  None = None
  MaxReschedules = 1
  Movable = {TRUE}
  Verbs = {"UNLOAD"}
  Cached = {}
  Budget <- LiveBudget
INVARIANTS TypeOK
PROPERTIES NotPlacedAgain OrphanGoes Recovers
