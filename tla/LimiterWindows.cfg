\* Both stores, two requests, a limit of three in three ticks, clocks up to two ticks behind.
SPECIFICATION Spec
CONSTANTS
  Requests = {r1, r2}
  Stores = {"memory", "redis"}
  Limit = 3
  Window = 3
  MaxDelay = 2
  MaxTime = 8
SYMMETRY Symmetry
INVARIANT WindowSlides
PROPERTY BlockedForRecent
