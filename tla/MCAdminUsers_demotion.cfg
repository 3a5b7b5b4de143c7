\* Two administrators step down at the same time.
CONSTANTS
  Users = {a, b}
  Requests = {r1, r2}
  MaxActions = 3
  AuditFails = FALSE
  None = None
SPECIFICATION Spec
SYMMETRY MCSymmetry
PROPERTIES
  SelfDemotionLeavesAnAdmin
CHECK_DEADLOCK FALSE
