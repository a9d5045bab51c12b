SPECIFICATION FairSpec
CONSTANTS
  Jobs = {j1, j2}
  Workers = {w1, w2}
  NoWorker = NoWorker
  NoJob = NoJob
  MaxAttempts = 1
  MaxExits = 1
  MaxStalls = 0
  UnlinkFails = FALSE
CHECK_DEADLOCK FALSE
PROPERTIES
  UncancelledJobsSettle
  SettledJobsExpire
  KeepsPromise
