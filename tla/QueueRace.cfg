SPECIFICATION RaceSpec
CONSTANTS
  Proc = {p1, p2, p3}
  Queued = {p3}
  CPU = {c1, c2}
  MAX_QUEUE_SIZE = 10
  NULL = NULL
INVARIANTS
  QueuedSafely
CHECK_DEADLOCK FALSE
