\* Two requests on one book with a title and one more column, three commits: two
\* that overlap after the one that creates it.  A name may be blank.
CONSTANTS
  Columns = {"title", "short"}
  Texts = {x}
  Tables = {"authors"}
  Names = {a, Blank}
  Blank = Blank
  Requests = {r1, r2}
  MaxRows = 1
  MaxCommits = 3
  None = None
SPECIFICATION Spec
SYMMETRY MCSymmetry
INVARIANTS
  Whole
PROPERTIES
  PatchInventsNothing
  DeletionLeavesNothingOld
CHECK_DEADLOCK FALSE
