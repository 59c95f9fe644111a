SPECIFICATION Spec
CONSTANTS
  CPU = {c1}
  Proc = {q1, q2}
  NumFrames = 5
  MaxRequest = 2
  NULL = NULL
  Wild = Wild
INVARIANTS
  TypeOK
  FreshFrame
  ListIntact
PROPERTIES
  ImplementsPool
