SPECIFICATION KillSpec
CONSTANTS
  p1 = p1
  p2 = p2
  p3 = p3
  p4 = p4
  sh = sh
  other = other
  Proc = {p1, p2}
  Name = {sh, other}
  CPU = {c1}
  NULL = NULL
  MAX_PRIO = 1
  MAX_QUEUE_SIZE = 2
  prio <- PrioSame
  path <- PathSame
INVARIANTS
  ReadsLiveProcs
