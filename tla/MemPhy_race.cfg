SPECIFICATION Spec
CONSTANTS
  CPU = {c1, c2}
  Proc = {q1, q2}
  NumFrames = 3
  MaxRequest = 2
  NULL = NULL
  Wild = Wild
INVARIANTS
  FreshFrame
