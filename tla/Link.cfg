SPECIFICATION FairSpec
CONSTANTS
  Byte <- MCByte
  END = 4
  ESC = 5
  ESC_END = 6
  ESC_ESC = 7
  MaxDataLen = 3
  Crc8 <- MCCrc8
  Payload <- MCPayload
  Uninit = {0, 6}
  WireCap = 2
  MaxPackets = 2
INVARIANTS TypeOK InOrder NoDecodeError Drained
PROPERTIES ImplementsPipe ImplementsFairPipe
CHECK_DEADLOCK FALSE
