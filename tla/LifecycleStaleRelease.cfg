SPECIFICATION Spec
CONSTANTS
  Requests = {r1, r2}
  MaxGen = 2
  MaxTries = 2
INVARIANT InFlightRequestsFinish
CHECK_DEADLOCK FALSE
