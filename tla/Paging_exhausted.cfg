SPECIFICATION PagingSpec
CONSTANTS
  CPU = {c1}
  Reg = {r1, r2}
  Size = {1, 3}
  PAGESZ = 2
  MAX_PGN = 4
  FpnRange = 8192
  NumFrames = 2
  OtherFrames = 1
  MaxBrk = 6
  MaxRegions = 4
  NoFrame = NoFrame
  Garbage <- GarbageNone
  SwpFrames = 2
  StaleFpn = {0}
  StalePresent = {}
INVARIANTS
  ReadsLastWrite
