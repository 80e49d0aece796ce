SPECIFICATION Spec
CONSTANTS
  Node = {n1, n2}
  Decision = {1, 2, 3, 4, 5, 6}
  None = None
  MaxReschedules = 2
  Movable = {TRUE}
  Verbs = {"STOP"}
  Cached = {}
  Budget <- TwoCuts
PROPERTIES StoppedNotMoved
