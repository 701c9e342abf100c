SPECIFICATION FairSpec
CONSTANTS
  Records = {a, b}
  Snapshots <- MCSnapshots
  Garbled = Garbled
  Tears = FALSE
  MaxGens = 2
  MaxOps = 2
  MaxRefs = 1
  MaxRewrites = 1
  MaxPending = 2
  MaxLines = 1
  a = a
  b = b
INVARIANT OneAtStorage
INVARIANT NothingWrittenTwice
PROPERTY NothingDroppedQuietly
PROPERTY FlushMeansDurable
PROPERTY ContractSpec
PROPERTY HandsOver
