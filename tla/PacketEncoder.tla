---------------------------- MODULE PacketEncoder ----------------------------
(***************************************************************************)
(* The C++ PacketEncoder (src/src/PacketEncoder.cpp): a state machine that *)
(* yields one wire byte per call. The operators take an encoder value and  *)
(* return the new one; encodeByte also returns the byte and the error code.*)
(***************************************************************************)
EXTENDS Packet

EncoderState == {"IDLE", "COMMAND", "DATA", "ESCAPE"}

EncoderType == [packet     : PacketType,
                state      : EncoderState,
                encodeIdx  : Nat,
                escapeChar : Byte]

Encoder(pkt, state, idx, char) ==
  [packet |-> pkt, state |-> state, encodeIdx |-> idx, escapeChar |-> char]

\* The packet's CRC is refreshed and encoding starts over.
encodeStart(enc, pkt) ==
  Encoder(calcAndStoreCrc(pkt), "IDLE", enc.encodeIdx, enc.escapeChar)

\* Faulty handleEscape: an escaped byte advances the index twice.
handleEscapeSkipping(enc, idx, byte) ==
  IF byte \in {END, ESC}
  THEN [byte |-> ESC,
        err  |-> "NOT_DONE",
        enc  |-> Encoder(enc.packet, "ESCAPE", idx + 1, IF byte = END THEN ESC_END ELSE ESC_ESC)]
  ELSE [byte |-> byte,
        err  |-> "NOT_DONE",
        enc  |-> Encoder(enc.packet, "DATA", idx, enc.escapeChar)]

\* Faulty handleEscape: only END is escaped.
handleEscapeEndOnly(enc, idx, byte) ==
  IF byte = END
  THEN [byte |-> ESC,
        err  |-> "NOT_DONE",
        enc  |-> Encoder(enc.packet, "ESCAPE", idx, ESC_END)]
  ELSE [byte |-> byte,
        err  |-> "NOT_DONE",
        enc  |-> Encoder(enc.packet, "DATA", idx, enc.escapeChar)]

\* A framing byte becomes ESC, with its stand-in pending in escapeChar. idx is
\* what the caller leaves in encodeIdx.
handleEscape(enc, idx, byte) ==
  IF byte \in {END, ESC}
  THEN [byte |-> ESC,
        err  |-> "NOT_DONE",
        enc  |-> Encoder(enc.packet, "ESCAPE", idx, IF byte = END THEN ESC_END ELSE ESC_ESC)]
  ELSE [byte |-> byte,
        err  |-> "NOT_DONE",
        enc  |-> Encoder(enc.packet, "DATA", idx, enc.escapeChar)]

\* Faulty encodeData: nothing after the CRC closes the frame.
encodeDataUnclosed(enc) ==
  LET idx == enc.encodeIdx
      len == Len(enc.packet.data)
      crc == handleEscape(enc, idx + 1, calcCrc(enc.packet))
  IN  IF idx < len
      THEN handleEscape(enc, idx + 1, enc.packet.data[idx + 1])
      ELSE [byte |-> crc.byte,
            err  |-> "NONE",
            enc  |-> Encoder(enc.packet, "IDLE", idx, enc.escapeChar)]

\* State::DATA: the data bytes, then the CRC, then the closing END.
encodeData(enc) ==
  LET idx == enc.encodeIdx
      len == Len(enc.packet.data)
  IN  IF idx < len
      THEN handleEscape(enc, idx + 1, enc.packet.data[idx + 1])
      ELSE IF idx = len
      THEN handleEscape(enc, idx + 1, calcCrc(enc.packet))
      ELSE [byte |-> END,
            err  |-> "NONE",
            enc  |-> Encoder(enc.packet, "IDLE", idx, enc.escapeChar)]

encodeByte(enc) ==
  IF enc.state = "IDLE"
  THEN [byte |-> END,
        err  |-> "NOT_DONE",
        enc  |-> Encoder(enc.packet, "COMMAND", enc.encodeIdx, enc.escapeChar)]
  ELSE IF enc.state = "COMMAND"
  THEN handleEscape(enc, 0, enc.packet.command)
  ELSE IF enc.state = "DATA"
  THEN encodeData(enc)
  ELSE [byte |-> enc.escapeChar,
        err  |-> "NOT_DONE",
        enc  |-> Encoder(enc.packet, "DATA", enc.encodeIdx, enc.escapeChar)]
=============================================================================
