\* One thread, three documents that come and go, one of them too long, and an unreliable disk.
SPECIFICATION Spec
CONSTANTS
  Threads = {t1}
  Sources = {s1}
  MaxVersion = 3
  Large = {3}
  DiskFails = TRUE
  OnError = "stale"
INVARIANTS ResultIsWhole FreshUnlessSpoilt ValidatorHasCopy NextAttemptUnconditional
