SPECIFICATION LiveSpec
CONSTANTS
  p1 = p1
  p2 = p2
  p3 = p3
  Proc = {p1}
  CPU = {c1, c2}
  loader = loader
  NULL = NULL
  MAX_PRIO = 2
  MAX_QUEUE_SIZE = 3
  Horizon = 2
  TimeSlots = {1}
  prio <- PrioTop1
  program <- Program1
  start_time <- Start1
  order <- Order1
PROPERTIES
  SimulationEnds
