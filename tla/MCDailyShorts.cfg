\* Three books, two shorts a day, one row read for a pick, a day of cooldown;
\* two requests, two midnights, one change of a book.
CONSTANTS
  Books = {1, 2, 3}
  Calls = {r1, r2}
  Limit = 2
  Factor = 1
  Cooldown = 1
  MaxDay = 2
  MaxEdits = 1
SPECIFICATION ShortsSpec
SYMMETRY MCSymmetry
INVARIANTS
  Filled
  SameForAll
PROPERTIES
  LimitKept
  CooldownKept
