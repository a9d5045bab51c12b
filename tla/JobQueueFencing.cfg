SPECIFICATION Spec
CONSTANTS
  Jobs = {j1}
  Workers = {w1, w2, w3}
  NoWorker = NoWorker
  NoJob = NoJob
  MaxAttempts = 2
  MaxExits = 2
  MaxStalls = 2
  UnlinkFails = TRUE
CHECK_DEADLOCK FALSE
SYMMETRY WorkerSymmetry
INVARIANTS
  IInv
  ResultIsFromLatestClaim
  ExclusiveExecution
  ResultKeptUntilTtl
  AttemptsBoundedByRecoveries
PROPERTY
  ResultNeverReplaced
