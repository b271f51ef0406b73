SPECIFICATION FairSpec
CONSTANTS
  MaxCommands = 2
  MaxExcess = 1
  MaxOpens = 2
  Disturbances = {"writeError", "LOG", "rawText", "EVENT", "damaged", "pollError"}
  MaxDisturbances = 2
INVARIANTS TypeOK Correlated AnswersUndisturbed BoundedDrift ReaderSurvives NoReaderWhenClosed
PROPERTIES CallReturns CloseReturns ReaderKeepsUp
CHECK_DEADLOCK FALSE
