SPECIFICATION FairSpec
CONSTANTS
  t1 = t1
  t2 = t2
  Tasks = {t1}
  Anchor = Anchor
  MaxAnchors = 2
  MaxUndos = 2
  MaxCrashes = 2
  None = None
INVARIANT OneOutcome
INVARIANT NoStuckNotice
PROPERTY NeverTwice
PROPERTY Silenced
PROPERTY NoticesArrive
CHECK_DEADLOCK FALSE
