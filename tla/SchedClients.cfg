SPECIFICATION LiveSpec
CONSTANTS
  p1 = p1
  p2 = p2
  p3 = p3
  p4 = p4
  Proc = {p1, p2, p3, p4}
  CPU = {c1, c2}
  NULL = NULL
  MAX_PRIO = 3
  MAX_QUEUE_SIZE = 2
  prio <- PrioMixed
INVARIANTS
  TypeOK
  OnePlace
  LevelShare
  TurnInv
PROPERTIES
  NoStarvation
