\* Enough calls to trip the breaker twice with one of them still out.
SPECIFICATION FairSpec
CONSTANTS
  Calls = {c1, c2, c3, c4}
  MinRequests = 2
  OpenFor = 2
  RatioNum = 1
  RatioDen = 2
INVARIANTS NeverWedged OneProbeUnlessInterrupted StaysOpenFor
PROPERTY Recovers
