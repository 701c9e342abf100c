SPECIFICATION Spec
CONSTANTS
  Records = {a, b}
  Snapshots <- MCSnapshots
  Garbled = Garbled
  Tears = TRUE
  MaxGens = 2
  MaxOps = 2
  MaxRefs = 1
  MaxRewrites = 1
  MaxPending = 2
  MaxLines = 1
  a = a
  b = b
INVARIANT NeverCorrupted
