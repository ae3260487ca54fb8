SPECIFICATION Spec
CONSTANTS
  Threads = {t1, t2}
  Sources = {s1}
  MaxVersion = 2
  Large = {}
  DiskFails = FALSE
  OnError = "stale"
INVARIANTS ResultIsWhole
