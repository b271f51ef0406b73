---------------------------- MODULE PacketDecoder ----------------------------
(***************************************************************************)
(* The C++ PacketDecoder (src/src/PacketDecoder.cpp). decodeByte takes a   *)
(* decoder and a byte and returns the new decoder and the error code. The  *)
(* decoder writes into the one Packet it was constructed with.             *)
(***************************************************************************)
EXTENDS Packet

DecoderState == {"IDLE", "COMMAND", "DATA"}

DecoderType == [packet : PacketType, state : DecoderState, escape : BOOLEAN]

Decoder(pkt, state, escape) == [packet |-> pkt, state |-> state, escape |-> escape]

\* Faulty Unescape: the stand-ins are mixed up.
UnescapeSwapped(dec, byte) ==
  IF dec.escape /\ byte = ESC_END THEN ESC
  ELSE IF dec.escape /\ byte = ESC_ESC THEN END
  ELSE byte

\* What a byte after ESC stands for; any other escaped byte stands for itself.
Unescape(dec, byte) ==
  IF dec.escape /\ byte = ESC_END THEN END
  ELSE IF dec.escape /\ byte = ESC_ESC THEN ESC
  ELSE byte

\* Faulty IsDelimiter: an END is one even after an ESC.
IsEnd(dec, byte) == byte = END

\* A regular END: not the second byte of an escape.
IsDelimiter(dec, byte) == byte = END /\ ~dec.escape

NotDone(dec) == [err |-> "NOT_DONE", dec |-> dec]

\* State::IDLE: everything before the opening END is skipped.
decodeIdle(dec, byte) ==
  NotDone(Decoder(dec.packet, IF byte = END THEN "COMMAND" ELSE "IDLE", dec.escape))

\* State::COMMAND: back-to-back ENDs are an empty packet, which is ignored.
decodeCommand(dec, byte) ==
  IF IsDelimiter(dec, byte)
  THEN NotDone(dec)
  ELSE NotDone(Decoder(setData(setCommand(dec.packet, Unescape(dec, byte)), <<>>),
                       "DATA", FALSE))

\* Faulty decodeEnd: the CRC is left in the data of the packet.
decodeEndKeepingCrc(dec) ==
  LET pkt == extractCrc(dec.packet)
  IN  IF Len(dec.packet.data) = 0
      THEN [err |-> "TOO_SMALL", dec |-> dec]
      ELSE IF pkt.crc = calcCrc(pkt)
           THEN [err |-> "NONE", dec |-> Decoder(dec.packet, "IDLE", dec.escape)]
           ELSE [err |-> "CRC", dec |-> Decoder(dec.packet, "DATA", dec.escape)]

\* State::DATA at a regular END. Only a good CRC leaves State::DATA.
decodeEnd(dec) ==
  LET pkt == extractCrc(dec.packet)
  IN  IF Len(dec.packet.data) = 0
      THEN [err |-> "TOO_SMALL", dec |-> dec]
      ELSE IF pkt.crc = calcCrc(pkt)
           THEN [err |-> "NONE", dec |-> Decoder(pkt, "IDLE", dec.escape)]
           ELSE [err |-> "CRC", dec |-> Decoder(pkt, "DATA", dec.escape)]

\* Faulty decodeStore: the test for a full buffer is off by one.
decodeStoreOverrun(dec, byte) ==
  IF Len(dec.packet.data) > MaxDataLen
  THEN [err |-> "TOO_MUCH_DATA", dec |-> Decoder(dec.packet, "DATA", FALSE)]
  ELSE NotDone(Decoder(appendByte(dec.packet, Unescape(dec, byte)), "DATA", FALSE))

\* State::DATA for any other byte: a full buffer drops it and says so.
decodeStore(dec, byte) ==
  IF Len(dec.packet.data) >= MaxDataLen
  THEN [err |-> "TOO_MUCH_DATA", dec |-> Decoder(dec.packet, "DATA", FALSE)]
  ELSE NotDone(Decoder(appendByte(dec.packet, Unescape(dec, byte)), "DATA", FALSE))

\* The escape logic comes first, for every state but IDLE.
decodeByte(dec, byte) ==
  IF dec.state = "IDLE" THEN decodeIdle(dec, byte)
  ELSE IF ~dec.escape /\ byte = ESC THEN NotDone(Decoder(dec.packet, dec.state, TRUE))
  ELSE IF dec.state = "COMMAND" THEN decodeCommand(dec, byte)
  ELSE IF IsDelimiter(dec, byte) THEN decodeEnd(dec)
  ELSE decodeStore(dec, byte)
=============================================================================
