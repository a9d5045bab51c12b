SPECIFICATION Spec
CONSTANTS
  ApiKeys = {"owner", "dotted"}
  Legacy = "boot"
  NoKey = "no"
  NameParts = {"", "ann", "root", "bob@site", "org"}
  Identity <- MCIdentity
  Lifetime <- MCLifetime
  Jobs = {"j1", "j2"}
  JobOwner <- MCJobOwner
  Rings <- MCRings
  Ttl = 1
  MaxTtl = 3
  MaxTime = 3
  MaxUrls = 2
  Pages = 2
  Share = 85
  MaxAttempts = 2
  MaxCrashes = 1
  Processes = {"api1", "api2"}
  Callers = {"header", "bearer", "stranger"}
  Bucket <- MCBucket
  Known = {"header", "bearer"}
  Routes = {"ai-fill-form"}
  RateMax = 1
  Window = 1
  Limit = 1
  MaxHour = 2
  MaxAiCalls = 3
INVARIANTS
  IInv
  DownloadsRight
  RateBounded
  PagesMissNothing
PROPERTY ProgressTrue
CHECK_DEADLOCK FALSE
