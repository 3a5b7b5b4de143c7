\* Lists of up to four items, two of them created at once, pages of one to three,
\* the greatest offset within the list; filters that get through and filters that
\* do not.
CONSTANTS
  MaxItem = 4
  MaxFailures = 1
  Matching = {1, 3, 4}
  Ties = {{2, 3}}
  Asked = {Absent, 0, 9}
  AskedFilters = {"q", "query", "author", "action"}
  Offsets = {0, 1, 3}
  DefaultLimit = 2
  MaxLimit = 3
  MaxOffset = 3
  DefaultSize = 2
  MaxSize = 3
  Absent = Absent
SPECIFICATION ListSpec
INVARIANTS
  ListTypeOK
  NothingMissed
  ShownRight
