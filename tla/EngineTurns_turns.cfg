SPECIFICATION FairSpec
CONSTANTS
  prompt1 = prompt1
  prompt2 = prompt2
  steer = steer
  notice = notice
  stop1 = stop1
  Inputs = {prompt1, steer, notice, stop1}
  Kind <- MCKind
  MaxStepsPerTurn = 2
  ReviewMinSteps = 2
  None = None
INVARIANT RecordedOnce
INVARIANT NoStrandedInput
INVARIANT TurnsInOrder
INVARIANT ClockCountsTurns
INVARIANT OneLeftOpen
PROPERTY TurnsGetOver
PROPERTY CancelledSessionStops
PROPERTY DisposedRecordsNothing
CHECK_DEADLOCK FALSE
