SPECIFICATION FairSpec
CONSTANTS
  w1 = w1
  w2 = w2
  w3 = w3
  Waits = {w1, w2}
  MaxCrashes = 2
  Failures = {"own", "other"}
  None = None
INVARIANT TimerFollowsWait
INVARIANT TimeoutToldOnce
PROPERTY WaitsEnd
PROPERTY TimeoutsTold
CHECK_DEADLOCK FALSE
