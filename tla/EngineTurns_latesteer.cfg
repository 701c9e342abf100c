SPECIFICATION Spec
CONSTANTS
  prompt1 = prompt1
  prompt2 = prompt2
  steer = steer
  notice = notice
  stop1 = stop1
  Inputs = {prompt1, steer}
  Kind <- MCKind
  MaxStepsPerTurn = 2
  ReviewMinSteps = 2
  None = None
PROPERTY LateSteerRefused
CHECK_DEADLOCK FALSE
