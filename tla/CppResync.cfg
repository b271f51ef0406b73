SPECIFICATION Spec
CONSTANTS
  Byte <- MCByte
  END = 1
  ESC = 2
  ESC_END = 3
  ESC_ESC = 0
  MaxDataLen = 2
  Crc8 <- MCCrc8
  Uninit = {0, 3}
PROPERTY EndMarksPacket
