\* Two users, two links, followed at the same time, failing and expiring.
CONSTANTS
  Users = {u, v}
  Tokens = {t1, t2}
  Requests = {r1, r2}
  Max = 2
  Win = 2
  Null = Null
SPECIFICATION LinkSpec
SYMMETRY MCSymmetry
INVARIANTS
  LinkTypeOK
  QuotaBound
PROPERTIES
  VerifiedOnce
  LinkKeepsWorking
