--------------------------- MODULE PyPacketEncoder ---------------------------
(***************************************************************************)
(* The Python PacketEncoder (src/duino_bus/packet_encoder.py), a port of   *)
(* the C++ one. encode_byte returns the pair (error code, byte).           *)
(***************************************************************************)
EXTENDS PacketEncoder

encode_start(enc, pkt) ==
  Encoder(calcAndStoreCrc(pkt), "IDLE", enc.encodeIdx, enc.escapeChar)

handle_escape(enc, idx, byte) ==
  LET escaped(char) == [byte |-> ESC,
                        err  |-> "NOT_DONE",
                        enc  |-> Encoder(enc.packet, "ESCAPE", idx, char)]
  IN  IF byte = END THEN escaped(ESC_END)
      ELSE IF byte = ESC THEN escaped(ESC_ESC)
      ELSE [byte |-> byte,
            err  |-> "NOT_DONE",
            enc  |-> Encoder(enc.packet, "DATA", idx, enc.escapeChar)]

encode_byte_idle(enc) ==
  [byte |-> END,
   err  |-> "NOT_DONE",
   enc  |-> Encoder(enc.packet, "COMMAND", enc.encodeIdx, enc.escapeChar)]

encode_byte_command(enc) == handle_escape(enc, 0, enc.packet.command)

\* Faulty encode_byte_data: the index stays on the CRC.
encode_byte_dataStuck(enc) ==
  LET idx  == enc.encodeIdx
      data == enc.packet.data
  IN  IF idx > Len(data)
      THEN [byte |-> END,
            err  |-> "NONE",
            enc  |-> Encoder(enc.packet, "IDLE", idx, enc.escapeChar)]
      ELSE IF idx < Len(data)
      THEN handle_escape(enc, idx + 1, data[idx + 1])
      ELSE handle_escape(enc, idx, calcCrc(enc.packet))

encode_byte_data(enc) ==
  LET idx  == enc.encodeIdx
      data == enc.packet.data
  IN  IF idx > Len(data)
      THEN [byte |-> END,
            err  |-> "NONE",
            enc  |-> Encoder(enc.packet, "IDLE", idx, enc.escapeChar)]
      ELSE handle_escape(enc, idx + 1,
                         IF idx < Len(data) THEN data[idx + 1] ELSE calcCrc(enc.packet))

encode_byte_escape(enc) ==
  [byte |-> enc.escapeChar,
   err  |-> "NOT_DONE",
   enc  |-> Encoder(enc.packet, "DATA", enc.encodeIdx, enc.escapeChar)]

encode_byte(enc) ==
  IF enc.state = "IDLE" THEN encode_byte_idle(enc)
  ELSE IF enc.state = "COMMAND" THEN encode_byte_command(enc)
  ELSE IF enc.state = "DATA" THEN encode_byte_data(enc)
  ELSE encode_byte_escape(enc)
=============================================================================
