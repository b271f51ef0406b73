SPECIFICATION Spec
CONSTANTS
  MaxCommands = 1
  MaxExcess = 0
  MaxOpens = 1
  Disturbances = {"LOG"}
  MaxDisturbances = 1
INVARIANT AnswersCommand
CHECK_DEADLOCK FALSE
