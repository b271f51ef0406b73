--------------------------- MODULE PyPacketDecoder ---------------------------
(***************************************************************************)
(* The Python PacketDecoder (src/duino_bus/packet_decoder.py), a port of   *)
(* the C++ one with the same states and the same escape handling. It       *)
(* differs in where an erroneous frame leaves it: between packets.         *)
(***************************************************************************)
EXTENDS PacketDecoder

\* Packet.calc_crc: CRC_FN over the command byte, then over the data.
calc_crc(pkt) == Crc8(Crc8(0, <<pkt.command>>), pkt.data)

\* Packet.extract_crc: self.crc = self.data[-1]; self.data = self.data[:-1].
extract_crc(pkt) ==
  LET n == Len(pkt.data)
  IN  [command |-> pkt.command, data |-> SubSeq(pkt.data, 1, n - 1), crc |-> pkt.data[n]]

decode_byte_idle(dec, byte) ==
  NotDone(Decoder(dec.packet, IF byte = END THEN "COMMAND" ELSE "IDLE", dec.escape))

\* Faulty decode_byte_command: the data of the previous packet is kept.
decode_byte_commandKeepingData(dec, byte) ==
  IF IsDelimiter(dec, byte)
  THEN NotDone(dec)
  ELSE NotDone(Decoder(setCommand(dec.packet, Unescape(dec, byte)), "DATA", FALSE))

decode_byte_command(dec, byte) ==
  IF IsDelimiter(dec, byte)
  THEN NotDone(dec)
  ELSE NotDone(Decoder(setData(setCommand(dec.packet, Unescape(dec, byte)), <<>>),
                       "DATA", FALSE))

\* Faulty decode_byte_data_end: an erroneous frame is not left, as in C++.
decode_byte_data_endStaying(dec) ==
  LET pkt == extract_crc(dec.packet)
  IN  IF Len(dec.packet.data) = 0
      THEN [err |-> "TOO_SMALL", dec |-> dec]
      ELSE IF pkt.crc = calc_crc(pkt)
           THEN [err |-> "NONE", dec |-> Decoder(pkt, "IDLE", dec.escape)]
           ELSE [err |-> "CRC", dec |-> Decoder(pkt, "DATA", dec.escape)]

\* A regular END always ends the frame: the END of a frame that is too short
\* is taken as the opening END of the next one.
decode_byte_data_end(dec) ==
  LET pkt == extract_crc(dec.packet)
  IN  IF Len(dec.packet.data) = 0
      THEN [err |-> "TOO_SMALL", dec |-> Decoder(dec.packet, "COMMAND", dec.escape)]
      ELSE [err |-> IF pkt.crc = calc_crc(pkt) THEN "NONE" ELSE "CRC",
            dec |-> Decoder(pkt, "IDLE", dec.escape)]

\* Faulty decode_byte_data: the test for a full buffer is off by one.
decode_byte_dataOverrun(dec, byte) ==
  IF IsDelimiter(dec, byte)
  THEN decode_byte_data_end(dec)
  ELSE IF Len(dec.packet.data) > MaxDataLen
  THEN [err |-> "TOO_MUCH_DATA", dec |-> Decoder(dec.packet, "DATA", FALSE)]
  ELSE NotDone(Decoder(appendByte(dec.packet, Unescape(dec, byte)), "DATA", FALSE))

decode_byte_data(dec, byte) ==
  IF IsDelimiter(dec, byte)
  THEN decode_byte_data_end(dec)
  ELSE IF Len(dec.packet.data) >= MaxDataLen
  THEN [err |-> "TOO_MUCH_DATA", dec |-> Decoder(dec.packet, "DATA", FALSE)]
  ELSE NotDone(Decoder(appendByte(dec.packet, Unescape(dec, byte)), "DATA", FALSE))

decode_byte(dec, byte) ==
  IF dec.state = "IDLE" THEN decode_byte_idle(dec, byte)
  ELSE IF ~dec.escape /\ byte = ESC THEN NotDone(Decoder(dec.packet, dec.state, TRUE))
  ELSE IF dec.state = "COMMAND" THEN decode_byte_command(dec, byte)
  ELSE decode_byte_data(dec, byte)
=============================================================================
