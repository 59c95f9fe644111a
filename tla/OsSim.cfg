SPECIFICATION LiveSpec
CONSTANTS
  p1 = p1
  p2 = p2
  p3 = p3
  Proc = {p1, p2, p3}
  CPU = {c1, c2}
  loader = loader
  NULL = NULL
  MAX_PRIO = 5
  MAX_QUEUE_SIZE = 3
  Horizon = 2
  TimeSlots = {0, 1, 2}
  prio <- Prio3
  program <- Program3
  start_time <- Start3
  order <- Order3
INVARIANTS
  TypeOK
  ExactSlice
  NotBeforeStart
  NoneStranded
PROPERTIES
  ImplementsOwner
  OneInstructionPerSlot
  AllFinish
