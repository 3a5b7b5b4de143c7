\* Three views through a channel of one, in batches of two, by two workers: the
\* channel is full while both workers hold a view, and the queue ends either way.
\* No symmetry: it is unsound for liveness.
CONSTANTS
  Events = {e1, e2, e3}
  Workers = {w1, w2}
  Buffer = 1
  BatchSize = 2
  Ends = {"shutdown", "fatal"}
SPECIFICATION FairSpec
INVARIANTS
  TypeOK
  Conserved
  ShutdownFlushes
PROPERTIES
  AcceptedIsAttempted
  ShutdownReturns
CHECK_DEADLOCK FALSE
