SPECIFICATION FairSpec
CONSTANTS
  FifoCap = 2
  RxCap = 2
  PacketLen = 3
  MaxPackets = 2
  MaxCuts = 2
INVARIANTS TypeOK AnswersHold
PROPERTIES ImplementsStream PacketsLeave
CHECK_DEADLOCK FALSE
