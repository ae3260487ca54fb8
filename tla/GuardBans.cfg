\* Both stores, two requests, bans of one tick doubled up to three, a threshold of three.
SPECIFICATION Spec
CONSTANTS
  Requests = {r1, r2}
  Stores = {"memory", "redis"}
  MaxMisses = 3
  Window = 2
  Base = 1
  MaxBan = 3
  MaxDelay = 2
  MaxTime = 5
  MaxCount = 3
SYMMETRY Symmetry
INVARIANTS StrikesOutliveBan ScannerIsCaught
PROPERTY BansEscalate
