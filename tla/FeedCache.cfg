\* One feed at a time, two changes of books committed and bumped in any order,
\* three in all, and one restart of Redis.  The shorts, whose errors are stored,
\* and one list, whose errors are not.  What feeds share is the cache.
CONSTANTS
  Requests = {r1}
  Writers = {w1, w2}
  Lists = {"trending"}
  MaxChanges = 3
  MaxLosses = 1
  None = None
SPECIFICATION Spec
INVARIANTS
  FreshFeed
  CacheSound
