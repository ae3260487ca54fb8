\* One request against two reloads and a shutdown: the acquire loop may be
\* exhausted, and a handler may never return.
SPECIFICATION FairSpec
CONSTANTS
  Requests = {r1}
  MaxGen = 3
  MaxTries = 2
INVARIANT RefusedOnlyByReloads
PROPERTY RetiredIsClosed
CHECK_DEADLOCK FALSE
