SPECIFICATION FairSpec
CONSTANTS
  prompt1 = prompt1
  prompt2 = prompt2
  prompt3 = prompt3
  prompt4 = prompt4
  notice = notice
  steer = steer
  continuation = continuation
  Requests = {prompt1, prompt2, notice}
  Admission <- MCAdmission
  Mergeable <- MCMergeable
  TurnScoped <- MCTurnScoped
  MaxSteps = 1
  MaxLeases = 1
  MaxWaiters = 1
  MaxRestarts = 1
  None = None
INVARIANT NoReuseOfStartedIds
PROPERTY StartsOnClock
PROPERTY TurnsSettle
PROPERTY SettledResolves
CHECK_DEADLOCK FALSE
