SPECIFICATION Spec
CONSTANTS
  Tenants = {t1, t2}
  Keys = {k1, k2, k3}
  NoKey = NoKey
  Procs = {p1, p2}
  Quota = 1
  MaxHandlers = 4
  MaxCrashes = 1
CHECK_DEADLOCK FALSE
SYMMETRY ProcSymmetry
INVARIANTS
  AuditVerifies
  AuditIsTrue
  RotationKeepsAccess
  ExportsAgree
  UsageIsAdmitted
  IInv
