SPECIFICATION Spec
CONSTANTS
  Request = {r1, r2}
  Handler = {h1, h2}
  MaxNonces = 1
  MaxTtl = 1
  MaxSkew = 1
  Ttls = {1, 2}
  MaxClock = 2
  MaxBack = 1
  MaxPolicy = 1
  MaxRestarts = 1
  None = None
SYMMETRY Symmetric
INVARIANTS ServedOnce GuardFrees OwnAnswer
PROPERTIES RefusalIsDue
