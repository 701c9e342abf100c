SPECIFICATION FairSpec
CONSTANTS
  t1 = t1
  t2 = t2
  Tasks = {t1}
  Anchor = Anchor
  MaxAnchors = 2
  MaxUndos = 0
  MaxCrashes = 0
  None = None
PROPERTY CompletionArrives
CHECK_DEADLOCK FALSE
