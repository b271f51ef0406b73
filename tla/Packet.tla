------------------------------- MODULE Packet -------------------------------
(***************************************************************************)
(* The packet shared by every part of duino_bus: a command byte, a data    *)
(* buffer and a CRC byte (src/src/duino_bus/Packet.h, src/src/Packet.cpp). *)
(* On the wire a packet is framed the SLIP way: END, the escaped command,  *)
(* data and CRC bytes, END.                                                *)
(*                                                                         *)
(* The byte alphabet is a parameter. The code works with the 256 bytes and *)
(* END = 0xC0, ESC = 0xDB, ESC_END = 0xDC, ESC_ESC = 0xDD; nothing in it   *)
(* depends on more than the four framing bytes being distinct.             *)
(***************************************************************************)
EXTENDS Integers, Sequences

CONSTANTS
  Byte,          \* the byte values
  END,           \* start/end of frame
  ESC,           \* next byte is escaped
  ESC_END,       \* stands for END after an ESC
  ESC_ESC,       \* stands for ESC after an ESC
  MaxDataLen,    \* m_maxDataLen: capacity of a packet's data buffer
  Crc8(_, _)     \* duino_util's Crc8(crc, data): CRC of a byte sequence

ASSUME FramingAssumption ==
  /\ {0, END, ESC, ESC_END, ESC_ESC} \subseteq Byte
  /\ END # ESC /\ END # ESC_END /\ END # ESC_ESC
  /\ ESC # ESC_END /\ ESC # ESC_ESC /\ ESC_END # ESC_ESC

ASSUME MaxDataLenAssumption == MaxDataLen \in Nat \ {0}

\* A CRC is a byte. Only sequences that fit a packet are ever summed.
ASSUME Crc8Assumption ==
  \A crc \in Byte : \A n \in 0..MaxDataLen :
    \A data \in [1..n -> Byte] : Crc8(crc, data) \in Byte

\* Packet::Error. NO_DEVICE and NOT_OPEN exist in the Python ErrorCode only.
Error == {"NONE", "NOT_DONE", "CRC", "TIMEOUT", "TOO_MUCH_DATA", "TOO_SMALL",
          "BAD_STATE", "OS", "NO_DEVICE", "NOT_OPEN"}

PacketType == [command : Byte, data : Seq(Byte), crc : Byte]

setCommand(pkt, cmd) == [command |-> cmd, data |-> pkt.data, crc |-> pkt.crc]

setData(pkt, data) == [command |-> pkt.command, data |-> data, crc |-> pkt.crc]

appendByte(pkt, byte) == setData(pkt, Append(pkt.data, byte))

\* The CRC covers the command and the data.
calcCrc(pkt) == Crc8(Crc8(0, <<pkt.command>>), pkt.data)

calcAndStoreCrc(pkt) == [command |-> pkt.command, data |-> pkt.data, crc |-> calcCrc(pkt)]

\* The received CRC is the last data byte until the frame's end is seen.
extractCrc(pkt) ==
  LET n == Len(pkt.data)
  IN  [command |-> pkt.command, data |-> SubSeq(pkt.data, 1, n - 1), crc |-> pkt.data[n]]
=============================================================================
