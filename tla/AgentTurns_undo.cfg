SPECIFICATION Spec
CONSTANTS
  cron = cron
  skill = skill
  prompt = prompt
  Requests = {cron}
  Admission <- MCAdmission
  Mergeable <- MCMergeable
  TurnScoped <- MCTurnScoped
  MaxSteps = 1
  MaxLeases = 1
  MaxWaiters = 0
  MaxRestarts = 0
  Inputs = {prompt}
  Kind <- MCKind
  MaxStepsPerTurn = 1
  ReviewMinSteps = 1
  None = None
PROPERTY UndoRefusedWhileBusy
CHECK_DEADLOCK FALSE
