\* Two requests racing one reload and a shutdown.
SPECIFICATION Spec
CONSTANTS
  Requests = {r1, r2}
  MaxGen = 2
  MaxTries = 2
SYMMETRY RequestSymmetry
INVARIANTS
  TypeOK
  DrainedCloseIsSafe
  PublishedIsLive
  NothingLeaks
  SettingsFollowRuntime
PROPERTY ServesAsPromised
CHECK_DEADLOCK FALSE
