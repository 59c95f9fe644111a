SPECIFICATION LiveSpec
CONSTANTS
  Device = {d1, d2, d3}
  MaxSlot = 2
INVARIANTS
  TypeOK
  InCurrentSlot
  NoDataRace
  OrderlyStop
  IInv
PROPERTIES
  ImplementsBarrier
  ImplementsLockstep
  Termination
  ImplementsLiveBarrier
