SPECIFICATION FairSpec
CONSTANTS
  Docs = {d1}
  NoDoc = NoDoc
  Keys = {k1}
  Contents = {c1}
  Callers = {}
  Sweepers = {s1}
  MaxCrashes = 1
  MaxFailures = 0
CHECK_DEADLOCK FALSE
PROPERTY DeletionLeavesNothing
