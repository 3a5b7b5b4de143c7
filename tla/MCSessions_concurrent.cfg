\* One account, two requests at a time, three refresh tokens; the ignored errors
\* of Redis DEL and of the rehash UPDATE may occur.  Three versions: a change of
\* password meets another bump.
CONSTANTS
  Users = {u1}
  Tokens = {t1, t2, t3}
  Passwords = {p1, p2}
  Requests = {r1, r2}
  MaxVersion = 3
  Faults = {"del", "rehash"}
  None = None
SPECIFICATION Spec
SYMMETRY MCSymmetry
INVARIANTS
  NeverAhead
  RotationAddsNone
PROPERTIES
  RevocationFinal
  SpentStaysSpent
  BumpEndsSessions
  BookSpec
