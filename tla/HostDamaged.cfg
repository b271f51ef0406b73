SPECIFICATION Spec
CONSTANTS
  MaxCommands = 1
  MaxExcess = 0
  MaxOpens = 1
  Disturbances = {"damaged"}
  MaxDisturbances = 1
INVARIANT NoErrorMeansNone
CHECK_DEADLOCK FALSE
