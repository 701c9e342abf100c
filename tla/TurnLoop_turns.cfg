SPECIFICATION Spec
CONSTANTS
  prompt1 = prompt1
  prompt2 = prompt2
  prompt3 = prompt3
  prompt4 = prompt4
  notice = notice
  steer = steer
  continuation = continuation
  Requests = {prompt1, prompt2, steer, continuation}
  Admission <- MCAdmission
  Mergeable <- MCMergeable
  TurnScoped <- MCTurnScoped
  MaxSteps = 2
  MaxLeases = 1
  MaxWaiters = 1
  MaxRestarts = 0
  None = None
INVARIANT NoStrandedTurn
INVARIANT QuiescentWhileLeased
INVARIANT ReservationsCovered
INVARIANT RequestsConserved
INVARIANT OpenStepsHaveTurns
PROPERTY SettleIsQuiet
PROPERTY DisposedStaysDown
PROPERTY NoStepAfterCancel
CHECK_DEADLOCK FALSE
