SPECIFICATION PagingSpec
CONSTANTS
  CPU = {c1}
  Reg = {r1, r2}
  Size = {1, 3}
  PAGESZ = 2
  MAX_PGN = 3
  FpnRange = 8192
  NumFrames = 3
  OtherFrames = 1
  MaxBrk = 4
  MaxRegions = 4
  NoFrame = NoFrame
  Garbage <- GarbageSome
  SwpFrames = 1
  StaleFpn = {2}
  StalePresent = {2}
INVARIANTS
  TypeOK
  RegionsApart
  LiveIsMapped
  FramesApart
  NoFrameLost
  ReadsLastWrite
PROPERTIES
  ImplementsAllocator
