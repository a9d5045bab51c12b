SPECIFICATION Spec
CONSTANTS
  Docs = {d1, d2}
  NoDoc = NoDoc
  Keys = {k1}
  Contents = {c1, c2}
  Callers = {a1}
  Sweepers = {s1}
  MaxCrashes = 1
  MaxFailures = 0
CHECK_DEADLOCK FALSE
SYMMETRY InputSymmetry
INVARIANTS
  IInv
  OpenJobHasSource
  RetriesShareOneJob
  DeletionStopsJobs
PROPERTY JobsKeepPromise
