\* Three requests of any kind, two at a time, everything failing that can, on a
\* book created with one slug, renamed as often as one likes, and the one created
\* after it; in one second or two.
CONSTANTS
  Slugs = {b, c}
  FirstSlugs = {b}
  Requests = {r1, r2}
  MaxClock = 1
  MaxRows = 2
  MaxRequests = 3
  Faults = {"crash", "put", "delete", "lost"}
  None = None
SPECIFICATION Spec
SYMMETRY MCSymmetry
INVARIANTS
  TypeOK
  NoDanglingReference
  NoOrphans
\* The clock's bound ends the model.
CHECK_DEADLOCK FALSE
