\* Two logins of one address and two lists of a book on a pool of two; two
\* attempts in two ticks, Redis failing at will.  A list holds one connection
\* and waits for a second, so the two lists can stop everybody.
CONSTANTS
  Listers = {l1, l2}
  Others = {o1, o2}
  MaxOpen = 2
  MaxBooks = 1
  ClientsLeave = TRUE
  Logins = {o1, o2}
  Max = 2
  Win = 2
  Faults = TRUE
SPECIFICATION RouteSpec
INVARIANTS
  LimiterTypeOK
  WindowBound
  OnlyListsGridlock
PROPERTIES
  GridlockLasts
  Answered
  Reopens
