------------------------------- MODULE LinkMC -------------------------------
(***************************************************************************)
(* Small instance of Link: an 8-value byte alphabet holding the four       *)
(* framing bytes, and a CRC over it that is a true CRC (x^3 + x + 1).      *)
(***************************************************************************)
EXTENDS Link, SequencesExt

MCByte == 0..7

\* The XOR of two 3-bit values, and the CRC-3 of one.
Bit(v, i) == (v \div 2^i) % 2
XorTable == [a, b \in MCByte |->
               LET bit(i) == (Bit(a, i) + Bit(b, i)) % 2
               IN  bit(0) + 2 * bit(1) + 4 * bit(2)]
CrcTable == [v \in MCByte |-> <<0, 3, 6, 5, 7, 4, 1, 2>>[v + 1]]

MCCrc8(crc, data) == FoldLeft(LAMBDA c, b : CrcTable[XorTable[c, b]], crc, data)

MCPayloadByte == {1, END, ESC, ESC_END}
MCPayload ==
  [command : MCPayloadByte, data : UNION {[1..n -> MCPayloadByte] : n \in 0..(MaxDataLen - 1)}]
=============================================================================
