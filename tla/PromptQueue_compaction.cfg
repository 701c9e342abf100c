SPECIFICATION FairSpec
CONSTANTS
  p1 = p1
  p2 = p2
  p3 = p3
  Prompts = {p1, p2, p3}
  System = System
  MaxSystem = 1
  MaxUnwinding = 1
  None = None
CHECK_DEADLOCK FALSE
INVARIANT DefersDuringCompaction
