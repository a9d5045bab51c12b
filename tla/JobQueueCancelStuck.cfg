SPECIFICATION FairSpec
CONSTANTS
  Jobs = {j1}
  Workers = {w1}
  NoWorker = NoWorker
  NoJob = NoJob
  MaxAttempts = 2
  MaxExits = 0
  MaxStalls = 0
  UnlinkFails = FALSE
CHECK_DEADLOCK FALSE
PROPERTY CancelledJobsSettle
