\* Two requests, two hosts, one retry.
SPECIFICATION Spec
CONSTANTS
  Requests = {r1, r2}
  Hosts = {h1, h2}
  Kinds <- MCKinds
  Attempts = 1
  IdempotentOnly = TRUE
  LeastConn = TRUE
  UnhealthyAfter = 1
  HealthyAfter = 1
  MinRequests = 2
  OpenFor = 1
  RatioNum = 1
  RatioDen = 2
SYMMETRY Symmetry
INVARIANTS CallsAreInDo InflightIsExact RetriesAreSafe ContextIsReleased ProbeIsCarried
