SPECIFICATION FairSpec
CONSTANTS
  CmdCap = 6
  RspCap = 5
  LogCap = 4
  WordLen = 1
  ByteRange = 3
  MaxText = 2
  MaxCommands = 2
  MaxNotices = 1
  MaxToggles = 1
  MaxDepth = 3
INVARIANTS TypeOK InCapacity StrLenExact NotMixed OverflowOnlyByDebug
CHECK_DEADLOCK FALSE
PROPERTIES ImplementsDevice WritesEnd
