\* Every selection from four operations of one backend, with overrides, prefixes and
\* middleware, beside none, one or both operations of another; every step may fail.
SPECIFICATION BuildSpec
CONSTANTS
  ParamSegments <- MCParams
  Unescape <- MCUnescape
  PathEscape <- MCPathEscape
  EncodePath <- MCEncodePath
  Category <- MCCategory
  AllowMethods <- MCAllowMethods
  Configs <- MCConfigs
  Paths <- MCPaths
  Instances = {"cors", "listed", "auth", "limit"}
  Backends = {"p", "q"}
INVARIANTS
  AnswersAsConfigured AsksForTheResource DocumentIsServed AdvertisedIsServed
  RefusedForAReason NoBuildLeaks
CHECK_DEADLOCK FALSE
