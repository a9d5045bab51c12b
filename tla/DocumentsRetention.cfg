SPECIFICATION FairSpec
CONSTANTS
  Docs = {d1, d2}
  NoDoc = NoDoc
  Keys = {k1}
  Contents = {c1}
  Callers = {}
  Sweepers = {s1}
  MaxCrashes = 0
  MaxFailures = 1
CHECK_DEADLOCK FALSE
PROPERTIES
  RetentionEnforced
  DeletedResultsVanish
