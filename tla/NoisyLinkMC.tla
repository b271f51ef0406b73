----------------------------- MODULE NoisyLinkMC -----------------------------
(***************************************************************************)
(* Small instance of NoisyLink: the byte alphabet and the CRC of LinkMC,   *)
(* and two packets: framing bytes as command and data, and no data but a   *)
(* CRC that must be escaped (CrcTable[3] = ESC).                           *)
(***************************************************************************)
EXTENDS NoisyLink, SequencesExt

MCByte == 0..7

Bit(v, i) == (v \div 2^i) % 2
XorTable == [a, b \in MCByte |->
               LET bit(i) == (Bit(a, i) + Bit(b, i)) % 2
               IN  bit(0) + 2 * bit(1) + 4 * bit(2)]
CrcTable == [v \in MCByte |-> <<0, 3, 6, 5, 7, 4, 1, 2>>[v + 1]]

MCCrc8(crc, data) == FoldLeft(LAMBDA c, b : CrcTable[XorTable[c, b]], crc, data)

MCPayload == {[command |-> END, data |-> <<ESC>>],
              [command |-> 3, data |-> <<>>]}
=============================================================================
