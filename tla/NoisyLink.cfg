SPECIFICATION NoisySpec
CONSTANTS
  Byte <- MCByte
  END = 4
  ESC = 5
  ESC_END = 6
  ESC_ESC = 7
  MaxDataLen = 2
  Crc8 <- MCCrc8
  Payload <- MCPayload
  Uninit = {0}
  WireCap = 1
  MaxPackets = 4
  MaxFaults = 2
INVARIANTS Unhit HostRecovers
CHECK_DEADLOCK FALSE
