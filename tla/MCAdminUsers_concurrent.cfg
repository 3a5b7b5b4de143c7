\* Two administrators or users, two requests at a time, two mutations: one
\* can fall between the checks and the write of the other.  Audit inserts may
\* fail.
CONSTANTS
  Users = {a, b}
  Requests = {r1, r2}
  MaxActions = 2
  AuditFails = TRUE
  None = None
SPECIFICATION Spec
SYMMETRY MCSymmetry
INVARIANTS
  AuditNeverInvents
PROPERTIES
  SomeAdminRemains
CHECK_DEADLOCK FALSE
