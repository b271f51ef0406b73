----------------------------- MODULE LinkProofs -----------------------------
(***************************************************************************)
(* Link's invariants, and how far a fault reaches on NoisyLink, for every  *)
(* byte alphabet, CRC function, buffer size, set of packets, wire capacity *)
(* and number of faults. Nothing is assumed of the CRC: a damaged frame    *)
(* may pass it.                                                            *)
(***************************************************************************)
EXTENDS NoisyLink, CodecProofs

(***************************************************************************)
(* A frame's body: its data bytes, then its CRC.                           *)
(***************************************************************************)
LEMMA BodyFacts ==
  ASSUME NEW pkt, Fits(pkt)
  PROVE  /\ Body(pkt) \in Seq(Byte)
         /\ Len(pkt.data) \in Nat
         /\ Len(Body(pkt)) = Len(pkt.data) + 1
         /\ \A i \in 1..Len(pkt.data) : Body(pkt)[i] = pkt.data[i]
         /\ Body(pkt)[Len(pkt.data) + 1] = calcCrc(pkt)
         /\ \A i \in 1..(Len(pkt.data) + 1) : Body(pkt)[i] \in Byte
<1>1. pkt.data \in Seq(Byte) /\ Len(pkt.data) \in Nat /\ Len(pkt.data) <= MaxDataLen
  BY MaxDataLenAssumption DEF Fits, PacketType
<1>2. calcCrc(pkt) \in Byte
  BY <1>1, CrcIsByte DEF Fits
<1>3. QED
  BY <1>1, <1>2 DEF Body

(***************************************************************************)
(* State::DATA of encodeByte, in terms of the frame's body.                *)
(***************************************************************************)
LEMMA EncodeData ==
  ASSUME NEW e \in EncoderType, Fits(e.packet)
  PROVE  encodeData(e) =
           IF e.encodeIdx <= Len(e.packet.data)
           THEN handleEscape(e, e.encodeIdx + 1, Body(e.packet)[e.encodeIdx + 1])
           ELSE [byte |-> END,
                 err  |-> "NONE",
                 enc  |-> Encoder(e.packet, "IDLE", e.encodeIdx, e.escapeChar)]
<1>1. e.encodeIdx \in Nat
  BY DEF EncoderType
<1>2. QED
  BY <1>1, BodyFacts DEF encodeData

\* r, the outcome of an encodeByte of e, conveys byte b of the frame: it is b
\* itself, or ESC with the stand-in that the decoder maps back to b to follow.
Emits(r, e, idx, b) ==
  /\ r.byte \in Byte
  /\ r.err = "NOT_DONE"
  /\ r.enc \in EncoderType
  /\ r.enc.packet = e.packet
  /\ r.enc.encodeIdx = idx
  /\ \/ r.enc.state = "DATA" /\ r.byte = b /\ b # END /\ b # ESC
     \/ /\ r.enc.state = "ESCAPE"
        /\ r.byte = ESC
        /\ \/ b = END /\ r.enc.escapeChar = ESC_END
           \/ b = ESC /\ r.enc.escapeChar = ESC_ESC

(***************************************************************************)
(* handleEscape conveys the byte it is given.                              *)
(***************************************************************************)
LEMMA EscapeStep ==
  ASSUME NEW e \in EncoderType, NEW idx \in Nat, NEW b \in Byte
  PROVE  Emits(handleEscape(e, idx, b), e, idx, b)
BY FramingAssumption DEF handleEscape, Encoder, EncoderType, EncoderState, Emits

(***************************************************************************)
(* What one encodeByte does, state by state.                               *)
(***************************************************************************)
LEMMA EncodeCases ==
  ASSUME NEW e \in EncoderType, Fits(e.packet), Encoding(e)
  PROVE  LET r == encodeByte(e)
         IN  /\ e.state = "IDLE" =>
                  r = [byte |-> END,
                       err  |-> "NOT_DONE",
                       enc  |-> Encoder(e.packet, "COMMAND", e.encodeIdx, e.escapeChar)]
             /\ e.state = "COMMAND" => Emits(r, e, 0, e.packet.command)
             /\ e.state = "DATA" /\ e.encodeIdx <= Len(e.packet.data) =>
                  Emits(r, e, e.encodeIdx + 1, Body(e.packet)[e.encodeIdx + 1])
             /\ e.state = "DATA" /\ ~(e.encodeIdx <= Len(e.packet.data)) =>
                  r = [byte |-> END,
                       err  |-> "NONE",
                       enc  |-> Encoder(e.packet, "IDLE", e.encodeIdx, e.escapeChar)]
             /\ e.state = "ESCAPE" =>
                  r = [byte |-> e.escapeChar,
                       err  |-> "NOT_DONE",
                       enc  |-> Encoder(e.packet, "DATA", e.encodeIdx, e.escapeChar)]
<1> DEFINE r == encodeByte(e)
<1>0. e.encodeIdx \in Nat /\ e.packet.command \in Byte
  BY DEF EncoderType, PacketType
<1>1. CASE e.state = "IDLE"
  BY <1>1 DEF encodeByte
<1>2. CASE e.state = "COMMAND"
  <2>1. r = handleEscape(e, 0, e.packet.command)
    BY <1>2 DEF encodeByte
  <2>2. QED
    BY <1>0, <1>2, <2>1, EscapeStep
<1>3. CASE e.state = "DATA"
  <2>1. r = encodeData(e)
    BY <1>3 DEF encodeByte
  <2>2. CASE e.encodeIdx <= Len(e.packet.data)
    <3>1. r = handleEscape(e, e.encodeIdx + 1, Body(e.packet)[e.encodeIdx + 1])
      BY <2>1, <2>2, EncodeData
    <3>2. Body(e.packet)[e.encodeIdx + 1] \in Byte /\ e.encodeIdx + 1 \in Nat
      BY <1>0, <2>2, BodyFacts
    <3>3. Emits(r, e, e.encodeIdx + 1, Body(e.packet)[e.encodeIdx + 1])
      BY <3>1, <3>2, EscapeStep
    <3>4. QED
      BY <1>3, <2>2, <3>3
  <2>3. CASE ~(e.encodeIdx <= Len(e.packet.data))
    BY <1>3, <2>1, <2>3, EncodeData
  <2>4. QED
    BY <2>2, <2>3
<1>4. CASE e.state = "ESCAPE"
  BY <1>4 DEF encodeByte
<1>5. QED
  BY <1>1, <1>2, <1>3, <1>4 DEF EncoderType, EncoderState

(***************************************************************************)
(* One encodeByte keeps the encoder in a frame until it closes it.         *)
(***************************************************************************)
LEMMA EncodeStep ==
  ASSUME NEW e \in EncoderType, Fits(e.packet), Encoding(e)
  PROVE  LET r == encodeByte(e)
         IN  /\ r.byte \in Byte
             /\ r.enc \in EncoderType
             /\ r.enc.packet = e.packet
             /\ r.err \in {"NOT_DONE", "NONE"}
             /\ r.err = "NOT_DONE" => Encoding(r.enc)
             /\ r.err = "NONE" => r.enc.state = "IDLE"
<1> DEFINE r == encodeByte(e)
<1>0. /\ e.state \in EncoderState
      /\ e.encodeIdx \in Nat
      /\ e.escapeChar \in Byte
      /\ e.packet \in PacketType
      /\ END \in Byte
      /\ Len(e.packet.data) \in Nat
  BY FramingAssumption, BodyFacts DEF EncoderType
<1>1. CASE e.state = "IDLE"
  BY <1>0, <1>1, EncodeCases DEF Encoder, EncoderType, EncoderState, Encoding
<1>2. CASE e.state = "COMMAND"
  <2>1. Emits(r, e, 0, e.packet.command)
    BY <1>2, EncodeCases
  <2>2. QED
    BY <1>0, <2>1 DEF Emits, Encoding
<1>3. CASE e.state = "DATA"
  <2>2. CASE e.encodeIdx <= Len(e.packet.data)
    <3>1. Emits(r, e, e.encodeIdx + 1, Body(e.packet)[e.encodeIdx + 1])
      BY <1>3, <2>2, EncodeCases
    <3>2. Encoding(r.enc)
      BY <1>0, <2>2, <3>1 DEF Emits, Encoding
    <3>3. QED
      BY <3>1, <3>2 DEF Emits
  <2>3. CASE ~(e.encodeIdx <= Len(e.packet.data))
    BY <1>0, <1>3, <2>3, EncodeCases DEF Encoder, EncoderType, EncoderState
  <2>4. QED
    BY <2>2, <2>3
<1>4. CASE e.state = "ESCAPE"
  BY <1>0, <1>4, EncodeCases DEF Encoder, EncoderType, EncoderState, Encoding
<1>5. QED
  BY <1>0, <1>1, <1>2, <1>3, <1>4 DEF EncoderState

(***************************************************************************)
(* Storing the next byte of a frame's body (State::DATA of decodeByte).    *)
(***************************************************************************)
LEMMA StoreStep ==
  ASSUME NEW d \in DecoderType, NEW pkt, Fits(pkt),
         NEW k \in Nat, k <= Len(pkt.data), Stored(d, pkt, k),
         NEW b, Unescape(d, b) = Body(pkt)[k + 1]
  PROVE  /\ decodeStore(d, b).err = "NOT_DONE"
         /\ decodeStore(d, b).dec \in DecoderType
         /\ ~decodeStore(d, b).dec.escape
         /\ Stored(decodeStore(d, b).dec, pkt, k + 1)
<1> DEFINE v == Body(pkt)[k + 1]
           D == Decoder(appendByte(d.packet, v), "DATA", FALSE)
<1>1. /\ Len(pkt.data) \in Nat
      /\ Len(pkt.data) < MaxDataLen
      /\ v \in Byte
  BY BodyFacts DEF Fits
<1>2. /\ d.packet \in PacketType
      /\ d.packet.data \in Seq(Byte)
      /\ d.packet.command = pkt.command
      /\ Len(d.packet.data) = k
      /\ \A i \in 1..k : d.packet.data[i] = Body(pkt)[i]
  BY DEF Stored, DecoderType, PacketType
<1>3. decodeStore(d, b) = NotDone(D)
  BY <1>1, <1>2, MaxDataLenAssumption DEF decodeStore, Decoder, appendByte, setData, NotDone
<1>4. /\ D.packet.data = Append(d.packet.data, v)
      /\ D.packet.command = pkt.command
      /\ D.packet.crc = d.packet.crc
      /\ D.state = "DATA"
      /\ D.escape = FALSE
  BY <1>2 DEF Decoder, appendByte, setData
<1> HIDE DEF v
<1>5. LET s == Append(d.packet.data, v)
      IN  Len(s) = k + 1 /\ \A i \in 1..(k + 1) : s[i] = Body(pkt)[i]
  <2>1. /\ Len(Append(d.packet.data, v)) = k + 1
        /\ Append(d.packet.data, v)[k + 1] = v
        /\ \A i \in 1..k : Append(d.packet.data, v)[i] = d.packet.data[i]
    BY <1>1, <1>2
  <2>2. v = Body(pkt)[k + 1]
    BY DEF v
  <2>3. QED
    BY <1>2, <2>1, <2>2
<1>6. D \in DecoderType
  BY <1>1, <1>2 DEF Decoder, appendByte, setData, DecoderType, DecoderState, PacketType
<1>7. Stored(D, pkt, k + 1)
  BY <1>4, <1>5 DEF Stored
<1>8. decodeStore(d, b).err = "NOT_DONE" /\ decodeStore(d, b).dec = D
  BY <1>3 DEF NotDone
<1> HIDE DEF D
<1>9. QED
  BY <1>4, <1>6, <1>7, <1>8

(***************************************************************************)
(* Starting a frame's body (State::COMMAND of decodeByte).                 *)
(***************************************************************************)
LEMMA CommandStep ==
  ASSUME NEW d \in DecoderType, NEW pkt, Fits(pkt),
         NEW b, ~IsDelimiter(d, b), Unescape(d, b) = pkt.command
  PROVE  /\ decodeCommand(d, b).err = "NOT_DONE"
         /\ decodeCommand(d, b).dec \in DecoderType
         /\ ~decodeCommand(d, b).dec.escape
         /\ Stored(decodeCommand(d, b).dec, pkt, 0)
<1> DEFINE D == Decoder(setData(setCommand(d.packet, pkt.command), <<>>), "DATA", FALSE)
<1>1. decodeCommand(d, b) = NotDone(D)
  BY DEF decodeCommand
<1>2. pkt.command \in Byte /\ d.packet.crc \in Byte
  BY DEF Fits, DecoderType, PacketType
<1>3. D \in DecoderType
  BY <1>2 DEF Decoder, setData, setCommand, DecoderType, DecoderState, PacketType
<1>4. Stored(D, pkt, 0) /\ D.escape = FALSE
  BY DEF Stored, Decoder, setData, setCommand
<1>5. decodeCommand(d, b).err = "NOT_DONE" /\ decodeCommand(d, b).dec = D
  BY <1>1 DEF NotDone
<1> HIDE DEF D
<1>6. QED
  BY <1>3, <1>4, <1>5

(***************************************************************************)
(* The closing END: the stored body splits into the packet and its CRC.    *)
(***************************************************************************)
LEMMA EndStep ==
  ASSUME NEW d \in DecoderType, NEW pkt, Fits(pkt), pkt.crc = calcCrc(pkt),
         Stored(d, pkt, Len(pkt.data) + 1)
  PROVE  decodeEnd(d) = [err |-> "NONE", dec |-> Decoder(pkt, "IDLE", d.escape)]
<1> DEFINE n == Len(pkt.data)
           x == extractCrc(d.packet)
<1>1. /\ pkt \in PacketType
      /\ pkt.data \in Seq(Byte)
      /\ n \in Nat
      /\ \A i \in 1..n : Body(pkt)[i] = pkt.data[i]
      /\ Body(pkt)[n + 1] = pkt.crc
  BY BodyFacts DEF Fits, PacketType
<1>2. /\ d.packet.data \in Seq(Byte)
      /\ Len(d.packet.data) = n + 1
      /\ d.packet.command = pkt.command
      /\ \A i \in 1..(n + 1) : d.packet.data[i] = Body(pkt)[i]
  BY DEF Stored, DecoderType, PacketType
<1>3. SubSeq(d.packet.data, 1, n) = pkt.data
  BY <1>1, <1>2
<1>4. d.packet.data[n + 1] = pkt.crc
  BY <1>1, <1>2
<1>5. x = [command |-> pkt.command, data |-> pkt.data, crc |-> pkt.crc]
  BY <1>1, <1>2, <1>3, <1>4 DEF extractCrc
<1>6. x = pkt
  BY <1>1, <1>5 DEF PacketType
<1>7. QED
  BY <1>1, <1>2, <1>6 DEF decodeEnd

\* What the decoder owes a byte r.byte of a frame: it follows the encoder.
Tracks(q, r) ==
  /\ q.err = r.err
  /\ q.dec \in DecoderType
  /\ Mirrors(q.dec, r.enc)
  /\ r.err = "NONE" => q.dec.packet = r.enc.packet

(***************************************************************************)
(* A decoder that mirrors an encoder still does after a byte has passed    *)
(* from one to the other, and completes the packet with its last byte.     *)
(***************************************************************************)
LEMMA DecodeStep ==
  ASSUME NEW e \in EncoderType, Fits(e.packet), Encoding(e),
         e.packet.crc = calcCrc(e.packet),
         NEW d \in DecoderType, Mirrors(d, e)
  PROVE  Tracks(decodeByte(d, encodeByte(e).byte), encodeByte(e))
<1> DEFINE pkt == e.packet
           r == encodeByte(e)
           q == decodeByte(d, r.byte)
           escaped == NotDone(Decoder(d.packet, d.state, TRUE))
<1>0. /\ e.state \in EncoderState
      /\ e.encodeIdx \in Nat
      /\ d.state \in DecoderState
      /\ d.escape \in BOOLEAN
      /\ d.packet \in PacketType
      /\ Len(pkt.data) \in Nat
      /\ pkt.command \in Byte
  BY BodyFacts DEF EncoderType, DecoderType, Fits, PacketType
<1>esc. /\ escaped.err = "NOT_DONE"
        /\ escaped.dec \in DecoderType
        /\ escaped.dec.state = d.state
        /\ escaped.dec.packet = d.packet
        /\ escaped.dec.escape = TRUE
  BY <1>0 DEF NotDone, Decoder, DecoderType
<1>1. CASE e.state = "IDLE"
  <2>1. d.state = "IDLE" /\ ~d.escape
    BY <1>0, <1>1 DEF Mirrors
  <2>2. /\ r.byte = END
        /\ r.err = "NOT_DONE"
        /\ r.enc.state = "COMMAND"
    BY <1>1, EncodeCases DEF Encoder
  <2>3. /\ q.err = "NOT_DONE"
        /\ q.dec.state = "COMMAND"
        /\ q.dec.escape = FALSE
        /\ q.dec \in DecoderType
    BY <1>0, <2>1, <2>2
    DEF decodeByte, decodeIdle, NotDone, Decoder, DecoderType, DecoderState
  <2>4. QED
    BY <2>2, <2>3 DEF Tracks, Mirrors
<1>2. CASE e.state = "COMMAND"
  <2>1. d.state = "COMMAND" /\ ~d.escape
    BY <1>0, <1>2 DEF Mirrors
  <2>2. Emits(r, e, 0, pkt.command)
    BY <1>2, EncodeCases
  <2>3. CASE r.enc.state = "DATA"
    <3>1. r.byte = pkt.command /\ r.byte # END /\ r.byte # ESC
      BY <2>2, <2>3 DEF Emits
    <3>2. q = decodeCommand(d, r.byte)
      BY <2>1, <3>1 DEF decodeByte
    <3>3. ~IsDelimiter(d, r.byte) /\ Unescape(d, r.byte) = pkt.command
      BY <2>1, <3>1 DEF IsDelimiter, Unescape
    <3>4. QED
      BY <2>2, <2>3, <3>2, <3>3, CommandStep DEF Tracks, Mirrors, Emits
  <2>4. CASE r.enc.state = "ESCAPE"
    <3>1. r.byte = ESC
      BY <2>2, <2>4 DEF Emits
    <3>2. q = escaped
      BY <2>1, <3>1 DEF decodeByte
    <3>3. QED
      BY <1>esc, <2>1, <2>2, <2>4, <3>2 DEF Tracks, Mirrors, Emits
  <2>5. QED
    BY <2>2, <2>3, <2>4 DEF Emits
<1>3. CASE e.state = "DATA"
  <2>1. ~d.escape /\ Stored(d, pkt, e.encodeIdx) /\ d.state = "DATA"
    BY <1>0, <1>3 DEF Mirrors, Stored
  <2>2. CASE e.encodeIdx <= Len(pkt.data)
    <3> DEFINE b == Body(pkt)[e.encodeIdx + 1]
    <3>1. Emits(r, e, e.encodeIdx + 1, b)
      BY <1>3, <2>2, EncodeCases
    <3>2. CASE r.enc.state = "DATA"
      <4>1. r.byte = b /\ r.byte # END /\ r.byte # ESC
        BY <3>1, <3>2 DEF Emits
      <4>2. q = decodeStore(d, r.byte)
        BY <2>1, <4>1 DEF decodeByte, IsDelimiter
      <4>3. Unescape(d, r.byte) = b
        BY <2>1, <4>1 DEF Unescape
      <4>4. /\ q.err = "NOT_DONE"
            /\ q.dec \in DecoderType
            /\ ~q.dec.escape
            /\ Stored(q.dec, pkt, e.encodeIdx + 1)
        BY <1>0, <2>1, <2>2, <4>2, <4>3, StoreStep
      <4>5. QED
        BY <3>1, <3>2, <4>4 DEF Tracks, Mirrors, Emits
    <3>3. CASE r.enc.state = "ESCAPE"
      <4>1. r.byte = ESC
        BY <3>1, <3>3 DEF Emits
      <4>2. q = escaped
        BY <2>1, <4>1 DEF decodeByte
      <4>3. Stored(escaped.dec, pkt, e.encodeIdx)
        BY <1>esc, <2>1 DEF Stored
      <4> HIDE DEF escaped
      <4>4. Mirrors(q.dec, r.enc)
        BY <1>0, <1>esc, <3>1, <3>3, <4>2, <4>3 DEF Mirrors, Emits
      <4>5. QED
        BY <1>esc, <3>1, <4>2, <4>4 DEF Tracks, Emits
    <3>4. QED
      BY <3>1, <3>2, <3>3 DEF Emits
  <2>3. CASE ~(e.encodeIdx <= Len(pkt.data))
    <3>1. e.encodeIdx = Len(pkt.data) + 1
      BY <1>0, <1>3, <2>3 DEF Encoding
    <3>2. r = [byte |-> END,
               err  |-> "NONE",
               enc  |-> Encoder(pkt, "IDLE", e.encodeIdx, e.escapeChar)]
      BY <1>3, <2>3, EncodeCases
    <3>3. q = decodeEnd(d)
      BY <2>1, <3>2, FramingAssumption DEF decodeByte, IsDelimiter
    <3>4. q = [err |-> "NONE", dec |-> Decoder(pkt, "IDLE", d.escape)]
      BY <2>1, <3>1, <3>3, EndStep
    <3>5. QED
      BY <1>0, <2>1, <3>2, <3>4
      DEF Tracks, Mirrors, Decoder, Encoder, DecoderType, DecoderState, Fits
  <2>4. QED
    BY <2>2, <2>3
<1>4. CASE e.state = "ESCAPE"
  <2>1. d.escape = TRUE
    BY <1>0, <1>4 DEF Mirrors
  <2>2. r = [byte |-> e.escapeChar,
             err  |-> "NOT_DONE",
             enc  |-> Encoder(pkt, "DATA", e.encodeIdx, e.escapeChar)]
    BY <1>4, EncodeCases
  <2>3. /\ r.byte = e.escapeChar
        /\ r.err = "NOT_DONE"
        /\ r.enc.state = "DATA"
        /\ r.enc.packet = pkt
        /\ r.enc.encodeIdx = e.encodeIdx
    BY <2>2 DEF Encoder
  <2> DEFINE b == IF e.encodeIdx = 0 THEN pkt.command ELSE Body(pkt)[e.encodeIdx]
  <2>4. \/ b = END /\ r.byte = ESC_END
        \/ b = ESC /\ r.byte = ESC_ESC
    BY <1>4, <2>3 DEF Encoding
  <2>5. ~IsDelimiter(d, r.byte) /\ Unescape(d, r.byte) = b
    BY <2>1, <2>4, FramingAssumption DEF IsDelimiter, Unescape
  <2>6. CASE e.encodeIdx = 0
    <3>1. d.state = "COMMAND"
      BY <1>4, <2>6 DEF Mirrors
    <3>2. q = decodeCommand(d, r.byte)
      BY <2>1, <3>1 DEF decodeByte
    <3>3. Unescape(d, r.byte) = pkt.command
      BY <2>5, <2>6
    <3>4. /\ q.err = "NOT_DONE"
          /\ q.dec \in DecoderType
          /\ ~q.dec.escape
          /\ Stored(q.dec, pkt, 0)
      BY <2>5, <3>2, <3>3, CommandStep
    <3>5. QED
      BY <2>3, <2>6, <3>4 DEF Tracks, Mirrors
  <2>7. CASE e.encodeIdx # 0
    <3>1. Stored(d, pkt, e.encodeIdx - 1) /\ d.state = "DATA"
      BY <1>4, <2>7 DEF Mirrors, Stored
    <3>2. q = decodeStore(d, r.byte)
      BY <2>1, <2>5, <3>1 DEF decodeByte
    <3>3. Unescape(d, r.byte) = Body(pkt)[(e.encodeIdx - 1) + 1]
      BY <1>0, <2>5, <2>7
    <3>4. e.encodeIdx - 1 \in Nat /\ e.encodeIdx - 1 <= Len(pkt.data)
      BY <1>0, <1>4, <2>7 DEF Encoding
    <3>5. /\ q.err = "NOT_DONE"
          /\ q.dec \in DecoderType
          /\ ~q.dec.escape
          /\ Stored(q.dec, pkt, (e.encodeIdx - 1) + 1)
      BY <3>1, <3>2, <3>3, <3>4, StoreStep
    <3>6. (e.encodeIdx - 1) + 1 = e.encodeIdx
      BY <1>0
    <3>7. QED
      BY <2>3, <3>5, <3>6 DEF Tracks, Mirrors
  <2>8. QED
    BY <2>6, <2>7
<1>5. QED
  BY <1>0, <1>1, <1>2, <1>3, <1>4 DEF EncoderState
-----------------------------------------------------------------------------
(***************************************************************************)
(* The two directions compute the same bytes and, on an intact stream, the *)
(* same packets: what holds of the C++ codec holds of both.                *)
(***************************************************************************)
LEMMA OneEncoder ==
  ASSUME TypeOK
  PROVE  Encoded = encodeByte(enc)
BY EncodersAgree DEF TypeOK, Encoded

\* Where the C++ decoder reports no error, Decoded is what it does, in either direction.
LEMMA OneDecoder ==
  ASSUME TypeOK, NEW b \in Byte, decodeByte(dec, b).err \in {"NONE", "NOT_DONE"}
  PROVE  Decoded(b) = decodeByte(dec, b)
BY DecodersAgree DEF TypeOK, Decoded

(***************************************************************************)
(* The packet that encodeStart leaves in the encoder: its CRC is stored,   *)
(* and a receiver has room for it.                                         *)
(***************************************************************************)
LEMMA StartStep ==
  ASSUME TypeOK, NEW p \in Payload
  PROVE  /\ Start(PacketOf(p)) \in EncoderType
         /\ Start(PacketOf(p)).state = "IDLE"
         /\ Start(PacketOf(p)).packet = calcAndStoreCrc(PacketOf(p))
         /\ Fits(calcAndStoreCrc(PacketOf(p)))
         /\ calcAndStoreCrc(PacketOf(p)).crc = calcCrc(calcAndStoreCrc(PacketOf(p)))
<1> DEFINE pkt == PacketOf(p)
           stored == calcAndStoreCrc(pkt)
           started == Encoder(stored, "IDLE", enc.encodeIdx, enc.escapeChar)
<1>1. /\ pkt \in PacketType
      /\ pkt.data = p.data
      /\ Len(pkt.data) < MaxDataLen
      /\ Len(pkt.data) \in Nat
  BY PayloadAssumption, FramingAssumption DEF PacketOf, PacketType
<1>2. calcCrc(pkt) \in Byte
  BY <1>1, CrcIsByte, MaxDataLenAssumption
<1>3. Fits(stored)
  BY <1>1, <1>2 DEF calcAndStoreCrc, Fits, PacketType
<1>4. stored.crc = calcCrc(stored)
  BY DEF calcAndStoreCrc, calcCrc
<1>5. Start(pkt) = started
  BY DEF Start, encodeStart, encode_start
<1>6. enc.encodeIdx \in Nat /\ enc.escapeChar \in Byte /\ stored \in PacketType
  BY <1>3 DEF TypeOK, EncoderType, Fits
<1> HIDE DEF stored, pkt
<1>7. started \in EncoderType /\ started.state = "IDLE" /\ started.packet = stored
  BY <1>6 DEF Encoder, EncoderType, EncoderState
<1> HIDE DEF started
<1>8. QED
  BY <1>3, <1>4, <1>5, <1>7 DEF stored, pkt

(***************************************************************************)
(* The bytes in flight, as a chain of successive writers.                  *)
(***************************************************************************)
LEMMA ChainFacts ==
  ASSUME TypeOK
  PROVE  /\ Len(src) \in Nat
         /\ Len(Chain) = Len(src) + 1
         /\ \A i \in 1..Len(src) : /\ Chain[i] = src[i]
                                   /\ src[i].enc \in EncoderType
                                   /\ src[i].n \in Nat
         /\ Chain[Len(src) + 1] = Current
         /\ Current.enc = enc
         /\ Current.n = IF busy THEN Len(sent) ELSE Len(sent) + 1
<1>1. src \in Seq([enc : EncoderType, n : Nat])
  BY DEF TypeOK
<1>2. /\ Len(src) \in Nat
      /\ Len(Chain) = Len(src) + 1
      /\ Chain[Len(src) + 1] = Current
      /\ \A i \in 1..Len(src) : Chain[i] = src[i]
  BY <1>1 DEF Chain
<1>3. ASSUME NEW i \in 1..Len(src)
      PROVE  src[i].enc \in EncoderType /\ src[i].n \in Nat
  <2>1. src[i] \in [enc : EncoderType, n : Nat]
    BY <1>1, SeqElement
  <2>2. QED
    BY <2>1
<1>4. QED
  BY <1>2, <1>3 DEF Current

(***************************************************************************)
(* What a writer at work holds fits the receiver.                          *)
(***************************************************************************)
LEMMA WritingFits ==
  ASSUME TypeOK, SentOK, NEW s, Writing(s)
  PROVE  /\ Fits(s.enc.packet)
         /\ s.enc.packet.crc = calcCrc(s.enc.packet)
         /\ Encoding(s.enc)
<1>1. sent[s.n] \in PacketType
  BY DEF TypeOK, Writing
<1>2. QED
  BY <1>1 DEF SentOK, Writing, Fits

(***************************************************************************)
(* IInv holds initially: an empty chain, and both ends between frames.     *)
(***************************************************************************)
LEMMA InitIInv == Init => IInv
<1> SUFFICES ASSUME Init
             PROVE  IInv
  OBVIOUS
<1>1. PICK crc \in Uninit, char \in Uninit :
        /\ enc = [packet     |-> BlankPacket(crc),
                  state      |-> "IDLE",
                  encodeIdx  |-> 0,
                  escapeChar |-> char]
        /\ dec = [packet |-> BlankPacket(crc), state |-> "IDLE", escape |-> FALSE]
  BY DEF Init
<1>2. crc \in Byte /\ char \in Byte /\ BlankPacket(crc) \in PacketType
  BY UninitAssumption, FramingAssumption DEF BlankPacket, PacketType
<1>3. TypeOK
  <2>1. enc \in EncoderType /\ dec \in DecoderType
    BY <1>1, <1>2 DEF EncoderType, EncoderState, DecoderType, DecoderState
  <2>2. enc.state = "IDLE"
    BY <1>1
  <2>3. /\ dir \in Dir
        /\ busy \in BOOLEAN
        /\ wire = <<>> /\ sent = <<>> /\ rcvd = <<>> /\ src = <<>>
        /\ err = "NOT_DONE"
    BY DEF Init
  <2>4. err \in Error /\ Len(wire) = 0 /\ Len(src) = 0 /\ WireCap >= 0
    BY <2>3, BoundAssumption DEF Error
  <2>5. /\ wire \in Seq(Byte)
        /\ sent \in Seq(PacketType)
        /\ rcvd \in Seq(PacketType)
        /\ src \in Seq([enc : EncoderType, n : Nat])
    BY <2>3
  <2>6. QED
    BY <2>1, <2>2, <2>3, <2>4, <2>5 DEF TypeOK
<1>4. Len(src) = 0 /\ Len(rcvd) = 0 /\ Len(sent) = 0
  BY DEF Init
<1>5. Chain[1] = Current /\ Current.enc = enc /\ Current.n = 1
  BY <1>3, <1>4, ChainFacts DEF Init
<1>6. SentOK /\ InOrder
  BY <1>4 DEF SentOK, InOrder
<1>7. ChainOK
  BY <1>1, <1>4 DEF ChainOK, Init
<1>8. ReaderOK
  BY <1>1, <1>4, <1>5 DEF ReaderOK, Mirrors
<1>9. QED
  BY <1>3, <1>6, <1>7, <1>8 DEF IInv, NoDecodeError, Init

(***************************************************************************)
(* Entering writePacket: the writer takes up the packet it was standing    *)
(* before, and nothing in flight changes.                                  *)
(***************************************************************************)
LEMMA WritePacketStep ==
  ASSUME IInv, NEW p \in Payload, WritePacket(p)
  PROVE  /\ IInv'
         /\ sent' = Append(sent, calcAndStoreCrc(PacketOf(p)))
<1> DEFINE pkt == calcAndStoreCrc(PacketOf(p))
<1>0. TypeOK /\ SentOK /\ ChainOK /\ ReaderOK /\ InOrder /\ NoDecodeError
  BY DEF IInv
<1>1. /\ ~busy /\ busy' = TRUE
      /\ enc' = Start(PacketOf(p))
      /\ sent' = Append(sent, enc'.packet)
      /\ dir' = dir /\ wire' = wire /\ dec' = dec
      /\ err' = err /\ rcvd' = rcvd /\ src' = src
  BY DEF WritePacket
<1>2. /\ enc' \in EncoderType
      /\ enc'.state = "IDLE"
      /\ enc'.packet = pkt
      /\ Fits(pkt)
      /\ pkt.crc = calcCrc(pkt)
  BY <1>0, <1>1, StartStep
<1> HIDE DEF pkt
<1>3. /\ sent \in Seq(PacketType)
      /\ rcvd \in Seq(PacketType)
      /\ sent' = Append(sent, pkt)
      /\ pkt \in PacketType
  BY <1>0, <1>1, <1>2 DEF TypeOK, Fits
<1>4. /\ Len(sent) \in Nat
      /\ Len(rcvd) \in Nat
      /\ Len(sent') = Len(sent) + 1
      /\ \A i \in 1..Len(sent) : sent'[i] = sent[i]
      /\ sent'[Len(sent) + 1] = pkt
      /\ sent' \in Seq(PacketType)
  BY <1>3, AppendFacts
<1>5. TypeOK'
  BY <1>0, <1>1, <1>2, <1>4 DEF TypeOK
<1>6. SentOK'
  BY <1>0, <1>2, <1>4 DEF SentOK, Fits
<1>7. /\ Len(src) \in Nat
      /\ \A i \in 1..Len(src) : Chain[i] = src[i] /\ src[i].n \in Nat
      /\ Chain[Len(src) + 1] = Current
      /\ Current.n = Len(sent) + 1
      /\ Current.enc = enc
      /\ enc.state = "IDLE"
  BY <1>0, <1>1, ChainFacts DEF ChainOK
<1>8. Current' = [enc |-> enc', n |-> Len(sent) + 1]
  BY <1>1, <1>4 DEF Current
<1>9. /\ \A i \in 1..Len(src) : Chain'[i] = src[i]
      /\ Chain'[Len(src) + 1] = Current'
  BY <1>0, <1>1, AppendFacts DEF Chain, TypeOK
<1>10. ChainOK'
  <2>1. ASSUME NEW i \in 1..Len(src)
        PROVE  /\ Writing(src[i])'
               /\ wire[i] = encodeByte(src[i].enc).byte
               /\ Follows(src[i], Chain'[i + 1])
    <3>1. /\ Writing(src[i])
          /\ wire[i] = encodeByte(src[i].enc).byte
          /\ Follows(src[i], Chain[i + 1])
      BY <1>0 DEF ChainOK
    <3>2. Writing(src[i])'
      BY <1>1, <1>4, <1>7, <3>1 DEF Writing
    <3>3. CASE i < Len(src)
      <4>1. i + 1 \in 1..Len(src)
        BY <1>7, <3>3
      <4>2. QED
        BY <1>7, <1>9, <3>1, <3>2, <4>1
    <3>4. CASE i = Len(src)
      <4>1. Follows(src[i], Current)
        BY <1>7, <3>1, <3>4
      <4>2. src[i].n <= Len(sent)
        BY <1>4, <1>7, <3>1 DEF Writing
      <4>3. encodeByte(src[i].enc).err # "NOT_DONE" /\ src[i].n + 1 = Len(sent) + 1
        BY <1>4, <1>7, <4>1, <4>2 DEF Follows
      <4>4. Follows(src[i], Current')
        BY <1>2, <1>8, <4>3 DEF Follows
      <4>5. QED
        BY <1>9, <3>1, <3>2, <3>4, <4>4
    <3>5. QED
      BY <1>7, <3>3, <3>4
  <2>2. Writing(Current)'
    BY <1>2, <1>4, <1>8 DEF Writing, Encoding
  <2>3. QED
    BY <1>1, <2>1, <2>2 DEF ChainOK
<1>11. ReaderOK'
  <2>1. Mirrors(dec, Chain[1].enc) /\ Len(rcvd) = Chain[1].n - 1
    BY <1>0 DEF ReaderOK
  <2>2. CASE Len(src) = 0
    BY <1>1, <1>2, <1>7, <1>8, <1>9, <2>1, <2>2 DEF ReaderOK, Mirrors
  <2>3. CASE Len(src) # 0
    <3>1. Chain'[1] = Chain[1]
      BY <1>7, <1>9, <2>3
    <3>2. QED
      BY <1>1, <2>1, <3>1 DEF ReaderOK
  <2>4. QED
    BY <2>2, <2>3
<1>12. InOrder' /\ NoDecodeError'
  BY <1>0, <1>1, <1>4 DEF InOrder, NoDecodeError
<1>13. QED
  BY <1>3, <1>5, <1>6, <1>10, <1>11, <1>12 DEF IInv, pkt

(***************************************************************************)
(* One turn of writePacket's loop: the chain grows by a link.              *)
(***************************************************************************)
LEMMA WriteByteStep ==
  ASSUME IInv, WriteByte
  PROVE  IInv'
<1> DEFINE r == encodeByte(enc)
           link == [enc |-> enc, n |-> Len(sent)]
<1>0. TypeOK /\ SentOK /\ ChainOK /\ ReaderOK /\ InOrder /\ NoDecodeError
  BY DEF IInv
<1>1. /\ busy
      /\ Len(wire) < WireCap
      /\ enc' = r.enc
      /\ busy' = (r.err = "NOT_DONE")
      /\ wire' = Append(wire, r.byte)
      /\ src' = Append(src, link)
      /\ dir' = dir /\ dec' = dec /\ err' = err /\ sent' = sent /\ rcvd' = rcvd
  BY <1>0, OneEncoder DEF WriteByte
<1>2. /\ Writing(Current)
      /\ Current = link
      /\ Len(sent) \in Nat
  BY <1>0, <1>1 DEF ChainOK, Current, TypeOK
<1>3. /\ enc \in EncoderType
      /\ Fits(enc.packet)
      /\ Encoding(enc)
      /\ enc.packet = sent[Len(sent)]
      /\ Len(sent) \in 1..Len(sent)
  BY <1>0, <1>2, WritingFits DEF TypeOK, Writing
<1>4. /\ r.byte \in Byte
      /\ r.enc \in EncoderType
      /\ r.enc.packet = enc.packet
      /\ r.err \in {"NOT_DONE", "NONE"}
      /\ r.err = "NOT_DONE" => Encoding(r.enc)
      /\ r.err = "NONE" => r.enc.state = "IDLE"
  BY <1>3, EncodeStep
<1> HIDE DEF r
<1>5. /\ Len(src) \in Nat
      /\ Len(wire) = Len(src)
      /\ Len(wire') = Len(src) + 1
      /\ Len(src') = Len(src) + 1
      /\ wire' \in Seq(Byte)
      /\ src' \in Seq([enc : EncoderType, n : Nat])
      /\ \A i \in 1..Len(src) : src'[i] = src[i] /\ wire'[i] = wire[i]
      /\ src'[Len(src) + 1] = link
      /\ wire'[Len(src) + 1] = r.byte
  <2>1. /\ wire \in Seq(Byte)
        /\ src \in Seq([enc : EncoderType, n : Nat])
        /\ Len(src) = Len(wire)
    BY <1>0 DEF TypeOK
  <2>2. link \in [enc : EncoderType, n : Nat]
    BY <1>2, <1>3
  <2>3. QED
    BY <1>1, <1>4, <2>1, <2>2, AppendFacts
<1>6. TypeOK'
  <2>1. (enc.state \in {"DATA", "ESCAPE"} => enc.encodeIdx <= Len(enc.packet.data) + 1)'
    BY <1>1, <1>4 DEF Encoding
  <2>2. Len(wire') <= WireCap
    BY <1>1, <1>5, BoundAssumption
  <2>3. QED
    BY <1>0, <1>1, <1>4, <1>5, <2>1, <2>2 DEF TypeOK
<1>7. Current' = [enc |-> r.enc, n |-> IF r.err = "NOT_DONE" THEN Len(sent) ELSE Len(sent) + 1]
  BY <1>1 DEF Current
<1>8. /\ Len(Chain) = Len(src) + 1
      /\ \A i \in 1..Len(src) : Chain[i] = src[i]
      /\ Chain[Len(src) + 1] = link
      /\ \A i \in 1..(Len(src) + 1) : Chain'[i] = Chain[i]
      /\ Chain'[Len(src) + 2] = Current'
  <2>1. /\ Len(Chain) = Len(src) + 1
        /\ \A i \in 1..Len(src) : Chain[i] = src[i]
        /\ Chain[Len(src) + 1] = link
    BY <1>0, <1>2, ChainFacts
  <2>2. Chain' = Append(src', Current')
    BY DEF Chain
  <2>3. /\ \A i \in 1..Len(src') : Chain'[i] = src'[i]
        /\ Chain'[Len(src') + 1] = Current'
    BY <1>5, <2>2, AppendFacts
  <2>4. QED
    BY <1>5, <2>1, <2>3
<1>9. ChainOK'
  <2>1. ASSUME NEW i \in 1..Len(src')
        PROVE  /\ Writing(src[i])'
               /\ wire'[i] = encodeByte(src'[i].enc).byte
               /\ Follows(src'[i], Chain'[i + 1])
    <3>1. CASE i \in 1..Len(src)
      <4>1. /\ Writing(src[i])
            /\ wire[i] = encodeByte(src[i].enc).byte
            /\ Follows(src[i], Chain[i + 1])
        BY <1>0, <3>1 DEF ChainOK
      <4>2. src'[i] = src[i] /\ wire'[i] = wire[i] /\ Chain'[i + 1] = Chain[i + 1]
        BY <1>5, <1>8, <3>1
      <4>3. Writing(src[i])'
        BY <1>1, <4>1, <4>2 DEF Writing
      <4>4. QED
        BY <4>1, <4>2, <4>3
    <3>2. CASE i = Len(src) + 1
      <4>1. src'[i] = link /\ wire'[i] = r.byte /\ Chain'[i + 1] = Current'
        BY <1>5, <1>8, <3>2
      <4>2. Writing(src[i])'
        BY <1>1, <1>3, <4>1 DEF Writing
      <4>3. Follows(link, Current')
        BY <1>2, <1>4, <1>7 DEF Follows, r
      <4>4. QED
        BY <4>1, <4>2, <4>3 DEF r
    <3>3. QED
      BY <1>5, <3>1, <3>2
  <2>2. CASE r.err = "NOT_DONE"
    <3>1. busy' /\ Writing(Current)'
      BY <1>1, <1>3, <1>4, <1>7, <2>2 DEF Writing
    <3>2. QED
      BY <2>1, <3>1 DEF ChainOK
  <2>3. CASE r.err = "NONE"
    <3>1. ~busy' /\ enc'.state = "IDLE"
      BY <1>1, <1>4, <2>3
    <3>2. QED
      BY <2>1, <3>1 DEF ChainOK
  <2>4. QED
    BY <1>4, <2>2, <2>3
<1>10. ReaderOK'
  BY <1>0, <1>1, <1>5, <1>8 DEF ReaderOK
<1>11. SentOK' /\ InOrder' /\ NoDecodeError'
  BY <1>0, <1>1 DEF SentOK, InOrder, NoDecodeError
<1>12. QED
  BY <1>6, <1>9, <1>10, <1>11 DEF IInv

(***************************************************************************)
(* processByte: the decoder follows the chain's first link, which goes.    *)
(* The packet it completes is the one that link was encoding.              *)
(***************************************************************************)
LEMMA ProcessByteStep ==
  ASSUME IInv, ProcessByte
  PROVE  /\ IInv'
         /\ sent' = sent
         /\ \/ rcvd' = rcvd
            \/ Len(rcvd) < Len(sent) /\ rcvd' = Append(rcvd, sent[Len(rcvd) + 1])
<1> DEFINE s == src[1]
           r == encodeByte(s.enc)
           q == Decoded(Head(wire))
<1>0. TypeOK /\ SentOK /\ ChainOK /\ ReaderOK /\ InOrder /\ NoDecodeError
  BY DEF IInv
<1>1. /\ wire # <<>>
      /\ dec' = q.dec
      /\ err' = q.err
      /\ rcvd' = IF q.err = "NONE" THEN Append(rcvd, q.dec.packet) ELSE rcvd
      /\ wire' = Tail(wire)
      /\ src' = Tail(src)
      /\ dir' = dir /\ enc' = enc /\ busy' = busy /\ sent' = sent
  BY DEF ProcessByte
<1>2. /\ Len(src) \in Nat \ {0}
      /\ Len(wire) = Len(src)
      /\ Head(wire) = wire[1]
      /\ Head(wire) \in Byte
      /\ wire' \in Seq(Byte)
      /\ src' \in Seq([enc : EncoderType, n : Nat])
      /\ Len(wire') = Len(src) - 1
      /\ Len(src') = Len(src) - 1
      /\ \A i \in 1..(Len(src) - 1) : src'[i] = src[i + 1] /\ wire'[i] = wire[i + 1]
  <2>1. /\ wire \in Seq(Byte)
        /\ src \in Seq([enc : EncoderType, n : Nat])
        /\ Len(src) = Len(wire)
    BY <1>0 DEF TypeOK
  <2>2. src # <<>>
    BY <1>1, <2>1
  <2>3. QED
    BY <1>1, <2>1, <2>2, TailFacts
<1>3. /\ Writing(s)
      /\ Head(wire) = r.byte
      /\ Follows(s, Chain[2])
      /\ Mirrors(dec, s.enc)
      /\ Len(rcvd) = s.n - 1
      /\ s.enc \in EncoderType
      /\ s.n \in Nat
  <2>0. 1 \in 1..Len(src)
    BY <1>2
  <2>1. Chain[1] = s /\ s.enc \in EncoderType /\ s.n \in Nat
    BY <1>0, <2>0, ChainFacts
  <2>2. /\ Writing(s)
        /\ wire[1] = r.byte
        /\ Follows(s, Chain[1 + 1])
    BY <1>0, <2>0 DEF ChainOK
  <2>3. QED
    BY <1>0, <1>2, <2>1, <2>2 DEF ReaderOK
<1>4. /\ Fits(s.enc.packet)
      /\ s.enc.packet.crc = calcCrc(s.enc.packet)
      /\ Encoding(s.enc)
      /\ s.enc.packet = sent[s.n]
      /\ s.n \in 1..Len(sent)
      /\ sent[s.n] \in PacketType
  <2>1. Fits(s.enc.packet) /\ s.enc.packet.crc = calcCrc(s.enc.packet) /\ Encoding(s.enc)
    BY <1>0, <1>3, WritingFits
  <2>2. s.enc.packet = sent[s.n] /\ s.n \in 1..Len(sent)
    BY <1>3 DEF Writing
  <2>3. sent \in Seq(PacketType)
    BY <1>0 DEF TypeOK
  <2>4. QED
    BY <2>1, <2>2, <2>3, SeqElement
<1>5. /\ r.enc.packet = s.enc.packet
      /\ r.err \in {"NOT_DONE", "NONE"}
      /\ r.err = "NONE" => r.enc.state = "IDLE"
  BY <1>3, <1>4, EncodeStep
<1>6. Tracks(q, r)
  <2>1. dec \in DecoderType
    BY <1>0 DEF TypeOK
  <2>2. Tracks(decodeByte(dec, Head(wire)), r)
    BY <1>3, <1>4, <2>1, DecodeStep
  <2>3. q = decodeByte(dec, Head(wire))
    BY <1>0, <1>2, <1>5, <2>2, OneDecoder DEF Tracks
  <2>4. QED
    BY <2>2, <2>3
<1>7. /\ q.err = r.err
      /\ q.dec \in DecoderType
      /\ Mirrors(q.dec, r.enc)
      /\ r.err = "NONE" => q.dec.packet = sent[s.n]
  BY <1>4, <1>5, <1>6 DEF Tracks
<1> HIDE DEF r, q
<1>8. /\ rcvd \in Seq(PacketType)
      /\ Len(rcvd) \in Nat
      /\ Len(sent) \in Nat
  BY <1>0 DEF TypeOK
<1>9. /\ Len(rcvd) < Len(sent)
      /\ sent[s.n] = sent[Len(rcvd) + 1]
  BY <1>3, <1>4, <1>8
<1>10. \/ r.err = "NOT_DONE" /\ rcvd' = rcvd
       \/ /\ r.err = "NONE"
          /\ rcvd' = Append(rcvd, sent[Len(rcvd) + 1])
          /\ rcvd' \in Seq(PacketType)
          /\ Len(rcvd') = Len(rcvd) + 1
          /\ \A i \in 1..Len(rcvd) : rcvd'[i] = rcvd[i]
          /\ rcvd'[Len(rcvd) + 1] = sent[Len(rcvd) + 1]
  <2>1. CASE r.err = "NOT_DONE"
    BY <1>1, <1>7, <2>1
  <2>2. CASE r.err = "NONE"
    <3>1. rcvd' = Append(rcvd, sent[Len(rcvd) + 1])
      BY <1>1, <1>7, <1>9, <2>2
    <3>2. QED
      BY <1>4, <1>8, <1>9, <2>2, <3>1, AppendFacts
  <2>3. QED
    BY <1>5, <2>1, <2>2
<1>11. Current' = Current
  BY <1>1 DEF Current
<1>12. \A i \in 1..Len(src) : Chain'[i] = Chain[i + 1]
  <2>1. Chain' = Append(src', Current)
    BY <1>11 DEF Chain
  <2>2. /\ \A i \in 1..Len(src') : Chain'[i] = src'[i]
        /\ Chain'[Len(src') + 1] = Current
    BY <1>2, <2>1, AppendFacts
  <2>3. /\ \A i \in 1..Len(src) : Chain[i] = src[i]
        /\ Chain[Len(src) + 1] = Current
    BY <1>0, ChainFacts
  <2>4. ASSUME NEW i \in 1..Len(src)
        PROVE  Chain'[i] = Chain[i + 1]
    <3>1. CASE i = Len(src)
      BY <1>2, <2>2, <2>3, <3>1
    <3>2. CASE i \in 1..(Len(src) - 1)
      BY <1>2, <2>2, <2>3, <3>2
    <3>3. QED
      BY <1>2, <3>1, <3>2
  <2>5. QED
    BY <2>4
<1>13. TypeOK'
  <2>1. err' \in Error
    BY <1>1, <1>5, <1>7 DEF Error
  <2>2. rcvd' \in Seq(PacketType)
    BY <1>8, <1>10
  <2>3. Len(wire') <= WireCap
    BY <1>0, <1>2, BoundAssumption DEF TypeOK
  <2>4. QED
    BY <1>0, <1>1, <1>2, <1>7, <2>1, <2>2, <2>3 DEF TypeOK
<1>14. ChainOK'
  <2>1. ASSUME NEW i \in 1..Len(src')
        PROVE  /\ Writing(src[i])'
               /\ wire'[i] = encodeByte(src'[i].enc).byte
               /\ Follows(src'[i], Chain'[i + 1])
    <3>1. i + 1 \in 1..Len(src) /\ i \in 1..(Len(src) - 1)
      BY <1>2
    <3>2. /\ Writing(src[i + 1])
          /\ wire[i + 1] = encodeByte(src[i + 1].enc).byte
          /\ Follows(src[i + 1], Chain[(i + 1) + 1])
      BY <1>0, <3>1 DEF ChainOK
    <3>3. /\ src'[i] = src[i + 1]
          /\ wire'[i] = wire[i + 1]
          /\ Chain'[i + 1] = Chain[(i + 1) + 1]
      BY <1>2, <1>12, <3>1
    <3>4. Writing(src[i])'
      BY <1>1, <3>2, <3>3 DEF Writing
    <3>5. QED
      BY <3>2, <3>3, <3>4
  <2>2. IF busy THEN Writing(Current) ELSE enc.state = "IDLE"
    BY <1>0 DEF ChainOK
  <2>3. (IF busy THEN Writing(Current) ELSE enc.state = "IDLE")'
    BY <1>1, <1>11, <2>2 DEF Writing
  <2>4. QED
    BY <2>1, <2>3 DEF ChainOK
<1>15. ReaderOK'
  <2>1. Chain'[1] = Chain[2]
    BY <1>2, <1>12
  <2>2. CASE r.err = "NOT_DONE"
    <3>1. Chain[2] = [enc |-> r.enc, n |-> s.n]
      BY <1>3, <2>2 DEF Follows, r
    <3>2. QED
      BY <1>1, <1>3, <1>7, <1>10, <2>1, <2>2, <3>1 DEF ReaderOK
  <2>3. CASE r.err = "NONE"
    <3>1. Chain[2].enc.state = "IDLE" /\ Chain[2].n = s.n + 1
      BY <1>3, <2>3 DEF Follows, r
    <3>2. Mirrors(q.dec, Chain[2].enc)
      BY <1>5, <1>7, <2>3, <3>1 DEF Mirrors
    <3>3. QED
      BY <1>1, <1>3, <1>10, <2>1, <2>3, <3>1, <3>2 DEF ReaderOK
  <2>4. QED
    BY <1>5, <2>2, <2>3
<1>16. InOrder'
  <2>1. \A i \in 1..Len(rcvd) : rcvd[i] = sent[i]
    BY <1>0 DEF InOrder
  <2>2. CASE r.err = "NOT_DONE"
    BY <1>0, <1>1, <1>10, <2>2 DEF InOrder
  <2>3. CASE r.err = "NONE"
    <3>1. Len(rcvd') = Len(rcvd) + 1 /\ Len(rcvd') <= Len(sent)
      BY <1>8, <1>9, <1>10, <2>3
    <3>2. \A i \in 1..Len(rcvd') : rcvd'[i] = sent[i]
      BY <1>8, <1>10, <2>1, <2>3, <3>1
    <3>3. QED
      BY <1>1, <3>1, <3>2 DEF InOrder
  <2>4. QED
    BY <1>5, <2>2, <2>3
<1>17. SentOK' /\ NoDecodeError'
  BY <1>0, <1>1, <1>5, <1>7 DEF SentOK, NoDecodeError
<1>18. QED
  BY <1>1, <1>9, <1>10, <1>13, <1>14, <1>15, <1>16, <1>17 DEF IInv

(***************************************************************************)
(* IInv is inductive.                                                      *)
(***************************************************************************)
LEMMA NextIInv == IInv /\ [Next]_vars => IInv'
<1> SUFFICES ASSUME IInv, [Next]_vars
             PROVE  IInv'
  OBVIOUS
<1>1. CASE WriteByte
  BY <1>1, WriteByteStep
<1>2. CASE ProcessByte
  BY <1>2, ProcessByteStep
<1>3. ASSUME NEW p \in Payload, WritePacket(p)
      PROVE  IInv'
  BY <1>3, WritePacketStep
<1>4. CASE UNCHANGED vars
  BY <1>4 DEF vars, IInv, TypeOK, SentOK, ChainOK, ReaderOK, InOrder, NoDecodeError,
              Chain, Current, Writing
<1>5. QED
  BY <1>1, <1>2, <1>3, <1>4 DEF Next

(***************************************************************************)
(* The inductive invariant holds throughout: the bytes in flight are what  *)
(* successive calls of encodeByte produced, and the decoder is where the   *)
(* encoder was when it produced the first of them.                         *)
(***************************************************************************)
THEOREM Inductive == Spec => []IInv
<1>1. Init => IInv
  BY InitIInv
<1>2. IInv /\ [Next]_vars => IInv'
  BY NextIInv
<1>3. QED
  BY <1>1, <1>2, PTL DEF Spec

(***************************************************************************)
(* Every variable keeps its type; in particular encodeIdx never runs past  *)
(* the CRC, and the two histories stay aligned with the wire.              *)
(***************************************************************************)
THEOREM TypeCorrect == Spec => []TypeOK
<1>1. IInv => TypeOK
  BY DEF IInv
<1>2. QED
  BY <1>1, Inductive, PTL

(***************************************************************************)
(* What decodeByte completes is what writePacket was given, in order and   *)
(* once each, for packets holding any bytes, framing bytes included.       *)
(***************************************************************************)
THEOREM Fidelity == Spec => []InOrder
<1>1. IInv => InOrder
  BY DEF IInv
<1>2. QED
  BY <1>1, Inductive, PTL

(***************************************************************************)
(* On an intact stream decodeByte never returns an error.                  *)
(***************************************************************************)
THEOREM ErrorFree == Spec => []NoDecodeError
<1>1. IInv => NoDecodeError
  BY DEF IInv
<1>2. QED
  BY <1>1, Inductive, PTL

(***************************************************************************)
(* A quiet link has delivered everything: the closing END of a frame is    *)
(* enough to complete it.                                                  *)
(***************************************************************************)
THEOREM NothingHeldBack == Spec => []Drained
<1>1. IInv => Drained
  <2> SUFFICES ASSUME IInv, wire = <<>>, ~busy
               PROVE  rcvd = sent
    BY DEF Drained
  <2>1. TypeOK /\ ReaderOK /\ InOrder
    BY DEF IInv
  <2>2. Len(src) = 0
    BY <2>1 DEF TypeOK
  <2>3. Chain[1] = Current /\ Current.n = Len(sent) + 1
    BY <2>1, <2>2, ChainFacts
  <2>4. /\ sent \in Seq(PacketType) /\ Len(sent) \in Nat
        /\ rcvd \in Seq(PacketType) /\ Len(rcvd) \in Nat
    BY <2>1 DEF TypeOK
  <2>5. Len(rcvd) = Len(sent)
    BY <2>1, <2>3, <2>4 DEF ReaderOK
  <2>6. QED
    BY <2>1, <2>4, <2>5 DEF InOrder
<1>2. QED
  BY <1>1, Inductive, PTL

(***************************************************************************)
(* Byte for byte, the link implements the packet pipe: entering            *)
(* writePacket is Send, the last byte of a frame is Deliver, and every     *)
(* other byte written or read is a stuttering step.                        *)
(***************************************************************************)
THEOREM LinkImplementsPipe == Spec => ImplementsPipe
<1>1. Init => Pipe!Init
  BY DEF Init, Pipe!Init
<1>2. IInv /\ [Next]_vars => [Pipe!Next]_(Pipe!vars)
  <2> SUFFICES ASSUME IInv, [Next]_vars
               PROVE  [Pipe!Next]_(Pipe!vars)
    OBVIOUS
  <2>1. CASE WriteByte
    BY <2>1 DEF WriteByte, Pipe!vars
  <2>2. CASE ProcessByte
    <3>1. \/ sent' = sent /\ rcvd' = rcvd
          \/ /\ sent' = sent
             /\ Len(rcvd) < Len(sent)
             /\ rcvd' = Append(rcvd, sent[Len(rcvd) + 1])
      BY <2>2, ProcessByteStep
    <3>2. QED
      BY <3>1 DEF Pipe!Next, Pipe!Deliver, Pipe!vars
  <2>3. ASSUME NEW p \in Payload, WritePacket(p)
        PROVE  Pipe!Next
    <3>1. sent' = Append(sent, calcAndStoreCrc(PacketOf(p))) /\ rcvd' = rcvd
      BY <2>3, WritePacketStep DEF WritePacket
    <3>2. calcAndStoreCrc(PacketOf(p)) \in Framed
      BY DEF Framed
    <3>3. QED
      BY <3>1, <3>2 DEF Pipe!Next, Pipe!Send
  <2>4. CASE UNCHANGED vars
    BY <2>4 DEF vars, Pipe!vars
  <2>5. QED
    BY <2>1, <2>2, <2>3, <2>4 DEF Next
<1>3. QED
  BY <1>1, <1>2, Inductive, PTL DEF Spec, ImplementsPipe, Pipe!Spec
-----------------------------------------------------------------------------
(***************************************************************************)
(* NoisyLink: the chain of Link where no fault struck, and what the reader *)
(* makes of the bytes where one did.                                       *)
(***************************************************************************)

\* A packet that no fault has hit for sure: it was written before the first one that
\* a fault hit, or after the last.
Clean(n) == first = 0 \/ n < first \/ n > last

\* t follows s as on an intact line, except that the frame after the one that s
\* closed may have lost its first bytes. It is the first one hit, then: its number is f.
Leads(s, t, f) ==
  \/ Follows(s, t)
  \/ /\ encodeByte(s.enc).err # "NOT_DONE"
     /\ f = s.n + 1
     /\ t.n > s.n

\* What no fault takes from either end: types, the receiver's buffer, and the writer.
SidesOK ==
  /\ TypeOK
  /\ Sound(dec)
  /\ SentOK
  /\ IF busy THEN Writing(Current) ELSE enc.state = "IDLE"

\* No fault hits a packet later than the one being written.
Marks ==
  /\ faults \in Nat /\ first \in Nat /\ last \in Nat
  /\ first = 0 <=> last = 0
  /\ first <= last
  /\ last <= Current.n

\* Bytes are in flight in the order of their packets, which count from 1.
Ordered ==
  /\ \A i, j \in 1..(Len(src) + 1) : i <= j => Chain[i].n <= Chain[j].n
  /\ Chain[1].n # 0

\* t stands before the frame that follows the l-th.
Resumes(t, l) == t.enc.state = "IDLE" /\ t.n = l + 1

\* The bytes of packets that no fault hit are as the encoder made them, and the first
\* one after the last packet hit opens the next packet's frame.
CleanOK ==
  \A i \in 1..Len(src) :
    /\ Clean(src[i].n) => /\ Writing(src[i])
                          /\ wire[i] = encodeByte(src[i].enc).byte
                          /\ Leads(src[i], Chain[i + 1], first)
    /\ src[i].n <= last /\ Chain[i + 1].n > last => Resumes(Chain[i + 1], last)

\* The reader has not come to the first packet hit.
Unreached == first = 0 \/ Chain[1].n < first

\* Until the reader comes to a packet that a fault hit, all is as on an intact line.
BeforeOK ==
  Unreached => /\ Mirrors(dec, Chain[1].enc)
               /\ Len(rcvd) = Chain[1].n - 1
               /\ \A i \in 1..Len(rcvd) : rcvd[i] = sent[i]

\* From then on, what was received up to there stays.
AfterOK ==
  ~Unreached => /\ Len(rcvd) >= first - 1
                /\ \A i \in 1..(first - 1) : rcvd[i] = sent[i]

\* The decoder is where e left it, or between two frames inside the empty one that it
\* sees there when it took a closing END for an opening one.
Synced(d, e) ==
  \/ Mirrors(d, e)
  \/ e.state = "IDLE" /\ d.state = "COMMAND" /\ ~d.escape

\* The decoder reads a frame that it may take for anything, but past its opening END it
\* takes no byte for escaped that is not, unless it skips all of them.
Resyncing(d, e) ==
  e.state = "IDLE" \/ d.state = "IDLE" \/ (d.escape <=> e.state = "ESCAPE")

\* Past the last packet hit, the Python decoder needs one frame to come back, and
\* then receives all that follow.
RecoveryOK ==
  LET n == Chain[1].n
  IN  dir = "toHost" =>
        /\ n = last + 1 => Resyncing(dec, Chain[1].enc)
        /\ n > last + 1 =>
             /\ Synced(dec, Chain[1].enc)
             /\ Len(rcvd) >= n - last - 2
             /\ \A i \in (last + 2)..(n - 1) : rcvd[Len(rcvd) - (n - 1) + i] = sent[i]

NoisyInv ==
  SidesOK /\ Marks /\ Ordered /\ CleanOK /\ BeforeOK /\ AfterOK /\ RecoveryOK
-----------------------------------------------------------------------------
(***************************************************************************)
(* One byte, whatever it is, and one reader.                               *)
(***************************************************************************)
LEMMA ReaderStep ==
  ASSUME Sound(dec), NEW b \in Byte
  PROVE  /\ Sound(Decoded(b).dec)
         /\ Decoded(b).err \in Error
<1>1. Sound(decodeByte(dec, b).dec) /\ Sound(decode_byte(dec, b).dec)
  BY CppSound, PySound
<1>2. decodeByte(dec, b).err \in Error
  BY DEF decodeByte, decodeIdle, decodeCommand, decodeEnd, decodeStore, NotDone, Error
<1>3. decode_byte(dec, b).err \in Error
  BY DEF decode_byte, decode_byte_idle, decode_byte_command, decode_byte_data,
         decode_byte_data_end, NotDone, Error
<1>4. QED
  BY <1>1, <1>2, <1>3 DEF Decoded

\* What becomes of the escape flag of the Python decoder, and where a regular END takes it.
LEMMA PyEscape ==
  ASSUME NEW d, Sound(d), NEW b \in Byte
  PROVE  LET q == decode_byte(d, b).dec
         IN  /\ d.state = "IDLE" => q.state = IF b = END THEN "COMMAND" ELSE "IDLE"
             /\ d.state # "IDLE" /\ ~d.escape /\ b = ESC => q.escape
             /\ d.state = "IDLE" \/ d.escape \/ b # ESC => ~q.escape
             /\ ~d.escape /\ b = END => q.state \in {"IDLE", "COMMAND"}
             /\ ~d.escape /\ b = END /\ d.state = "COMMAND" =>
                  decode_byte(d, b).err = "NOT_DONE" /\ q = d
<1> DEFINE q == decode_byte(d, b).dec
<1>0. /\ d.state \in {"IDLE", "COMMAND", "DATA"}
      /\ d.state = "IDLE" => ~d.escape
      /\ END # ESC
  BY DecoderFields, FramingAssumption
<1>1. CASE d.state = "IDLE"
  <2>1. q = Decoder(d.packet, IF b = END THEN "COMMAND" ELSE "IDLE", d.escape)
    BY <1>1 DEF decode_byte, decode_byte_idle, NotDone
  <2>2. q.state = (IF b = END THEN "COMMAND" ELSE "IDLE") /\ q.escape = d.escape
    BY <2>1 DEF Decoder
  <2>3. QED
    BY <1>0, <1>1, <2>2
<1>2. CASE d.state # "IDLE" /\ ~d.escape /\ b = ESC
  <2>1. q = Decoder(d.packet, d.state, TRUE)
    BY <1>2 DEF decode_byte, NotDone
  <2>2. q.escape = TRUE
    BY <2>1 DEF Decoder
  <2>3. QED
    BY <1>0, <1>2, <2>2
<1>3. CASE d.state = "COMMAND" /\ (d.escape \/ b # ESC)
  <2>1. decode_byte(d, b) = decode_byte_command(d, b)
    BY <1>3 DEF decode_byte
  <2>2. CASE IsDelimiter(d, b)
    <3>1. decode_byte(d, b).err = "NOT_DONE" /\ q = d /\ ~d.escape
      BY <2>1, <2>2 DEF decode_byte_command, NotDone, IsDelimiter
    <3>2. QED
      BY <1>0, <1>3, <3>1
  <2>3. CASE ~IsDelimiter(d, b)
    <3>1. q.escape = FALSE
      BY <2>1, <2>3 DEF decode_byte_command, NotDone, Decoder
    <3>2. ~(~d.escape /\ b = END)
      BY <2>3 DEF IsDelimiter
    <3>3. QED
      BY <1>0, <1>3, <3>1, <3>2
  <2>4. QED
    BY <2>2, <2>3
<1>4. CASE d.state = "DATA" /\ (d.escape \/ b # ESC)
  <2>1. decode_byte(d, b) = decode_byte_data(d, b)
    BY <1>4 DEF decode_byte
  <2>2. CASE IsDelimiter(d, b)
    <3>1. q.state \in {"IDLE", "COMMAND"} /\ q.escape = d.escape /\ ~d.escape
      BY <2>1, <2>2 DEF decode_byte_data, decode_byte_data_end, Decoder, IsDelimiter
    <3>2. QED
      BY <1>0, <1>4, <3>1
  <2>3. CASE ~IsDelimiter(d, b)
    <3>1. q.escape = FALSE
      BY <2>1, <2>3 DEF decode_byte_data, NotDone, Decoder
    <3>2. ~(~d.escape /\ b = END)
      BY <2>3 DEF IsDelimiter
    <3>3. QED
      BY <1>0, <1>4, <3>1, <3>2
  <2>4. QED
    BY <2>2, <2>3
<1>5. QED
  BY <1>0, <1>1, <1>2, <1>3, <1>4

(***************************************************************************)
(* An intact frame brings the Python decoder back, whatever it was doing:  *)
(* past the frame's opening END the decoder agrees with the encoder on     *)
(* what is escaped, so that the closing END is one.                        *)
(***************************************************************************)
LEMMA ResyncStep ==
  ASSUME NEW e \in EncoderType, Fits(e.packet), Encoding(e),
         NEW d, Sound(d), Resyncing(d, e)
  PROVE  LET r == encodeByte(e)
             q == decode_byte(d, r.byte).dec
         IN  /\ r.err = "NOT_DONE" => Resyncing(q, r.enc)
             /\ r.err # "NOT_DONE" => ~q.escape /\ q.state \in {"IDLE", "COMMAND"}
<1> DEFINE r == encodeByte(e)
           q == decode_byte(d, r.byte).dec
<1>0. /\ r.byte \in Byte
      /\ e.state \in EncoderState
      /\ d.state = "IDLE" => ~d.escape
      /\ END # ESC /\ ESC_END # END /\ ESC_END # ESC /\ ESC_ESC # END /\ ESC_ESC # ESC
  BY EncodeStep, DecoderFields, FramingAssumption DEF EncoderType
<1> DEFINE Goal == /\ r.err = "NOT_DONE" => Resyncing(q, r.enc)
                   /\ r.err # "NOT_DONE" => ~q.escape /\ q.state \in {"IDLE", "COMMAND"}
<1>a. ASSUME NEW idx, NEW b, Emits(r, e, idx, b), e.state # "IDLE", e.state # "ESCAPE"
      PROVE  Goal
  <2>1. r.err = "NOT_DONE"
    BY <1>a DEF Emits
  <2>2. CASE d.state = "IDLE"
    <3>1. r.byte # END
      BY <1>0, <1>a DEF Emits
    <3>2. q.state = "IDLE"
      BY <1>0, <2>2, <3>1, PyEscape
    <3>3. QED
      BY <2>1, <3>2 DEF Resyncing
  <2>3. CASE d.state # "IDLE"
    <3>1. ~d.escape
      BY <1>a, <2>3 DEF Resyncing
    <3>2. CASE r.enc.state = "DATA"
      <4>1. r.byte # ESC
        BY <1>a, <3>2 DEF Emits
      <4>2. ~q.escape
        BY <1>0, <4>1, PyEscape
      <4>3. QED
        BY <2>1, <3>2, <4>2 DEF Resyncing
    <3>3. CASE r.enc.state = "ESCAPE"
      <4>1. r.byte = ESC
        BY <1>a, <3>3 DEF Emits
      <4>2. q.escape
        BY <1>0, <2>3, <3>1, <4>1, PyEscape
      <4>3. QED
        BY <2>1, <3>3, <4>2 DEF Resyncing
    <3>4. QED
      BY <1>a, <3>2, <3>3 DEF Emits
  <2>4. QED
    BY <2>2, <2>3
<1>1. CASE e.state = "IDLE"
  <2>1. r.byte = END /\ r.err = "NOT_DONE" /\ r.enc.state = "COMMAND"
    BY <1>1, EncodeCases DEF Encoder
  <2>2. ~q.escape
    BY <1>0, <2>1, PyEscape
  <2>3. QED
    BY <2>1, <2>2 DEF Resyncing
<1>2. CASE e.state = "COMMAND"
  <2>1. Emits(r, e, 0, e.packet.command)
    BY <1>2, EncodeCases
  <2>2. QED
    BY <1>2, <1>a, <2>1
<1>3. CASE e.state = "DATA"
  <2>1. CASE e.encodeIdx <= Len(e.packet.data)
    <3>1. Emits(r, e, e.encodeIdx + 1, Body(e.packet)[e.encodeIdx + 1])
      BY <1>3, <2>1, EncodeCases
    <3>2. QED
      BY <1>3, <1>a, <3>1
  <2>2. CASE ~(e.encodeIdx <= Len(e.packet.data))
    <3>1. r.byte = END /\ r.err = "NONE"
      BY <1>3, <2>2, EncodeCases
    <3>2. ~d.escape
      BY <1>0, <1>3 DEF Resyncing
    <3>3. ~q.escape /\ q.state \in {"IDLE", "COMMAND"}
      BY <1>0, <3>1, <3>2, PyEscape
    <3>4. QED
      BY <3>1, <3>3
  <2>3. QED
    BY <2>1, <2>2
<1>4. CASE e.state = "ESCAPE"
  <2>1. r.byte = e.escapeChar /\ r.err = "NOT_DONE" /\ r.enc.state = "DATA"
    BY <1>4, EncodeCases DEF Encoder
  <2>2. r.byte \in {ESC_END, ESC_ESC}
    BY <1>4, <2>1 DEF Encoding
  <2>3. ~q.escape
    BY <1>0, <2>2, PyEscape
  <2>4. QED
    BY <2>1, <2>3 DEF Resyncing
<1>5. QED
  BY <1>0, <1>1, <1>2, <1>3, <1>4 DEF EncoderState

(***************************************************************************)
(* A decoder that has come back stays so, and completes the next packet.   *)
(***************************************************************************)
LEMMA SyncedStep ==
  ASSUME NEW e \in EncoderType, Fits(e.packet), Encoding(e),
         e.packet.crc = calcCrc(e.packet),
         NEW d, Sound(d), Synced(d, e)
  PROVE  LET r == encodeByte(e)
             q == decode_byte(d, r.byte)
         IN  /\ q.err = r.err
             /\ Mirrors(q.dec, r.enc)
             /\ r.err = "NONE" => q.dec.packet = e.packet
<1> DEFINE r == encodeByte(e)
           q == decode_byte(d, r.byte)
<1>0. /\ r.byte \in Byte /\ r.err \in {"NOT_DONE", "NONE"} /\ r.enc.packet = e.packet
      /\ d \in DecoderType
  BY EncodeStep DEF Sound
<1>1. CASE Mirrors(d, e)
  <2>1. Tracks(decodeByte(d, r.byte), r)
    BY <1>0, <1>1, DecodeStep
  <2>2. q = decodeByte(d, r.byte)
    BY <1>0, <2>1, DecodersAgree DEF Tracks
  <2>3. QED
    BY <1>0, <2>1, <2>2 DEF Tracks
<1>2. CASE e.state = "IDLE" /\ d.state = "COMMAND" /\ ~d.escape
  <2>1. r.byte = END /\ r.err = "NOT_DONE" /\ r.enc.state = "COMMAND"
    BY <1>2, EncodeCases DEF Encoder
  <2>2. q.err = "NOT_DONE" /\ q.dec = d
    BY <1>0, <1>2, <2>1, PyEscape
  <2>3. QED
    BY <1>2, <2>1, <2>2 DEF Mirrors
<1>3. QED
  BY <1>1, <1>2 DEF Synced
-----------------------------------------------------------------------------
(***************************************************************************)
(* The writer.                                                             *)
(***************************************************************************)

\* One turn of writePacket's loop, whatever becomes of the byte.
LEMMA WriterStep ==
  ASSUME SidesOK, busy, sent' = sent,
         enc' = Encoded.enc, busy' = (Encoded.err = "NOT_DONE")
  PROVE  /\ Encoded = encodeByte(enc) /\ Encoded.byte \in Byte
         /\ Writing(Current) /\ Current = [enc |-> enc, n |-> Len(sent)]
         /\ enc' \in EncoderType /\ busy' \in BOOLEAN
         /\ (enc.state \in {"DATA", "ESCAPE"} => enc.encodeIdx <= Len(enc.packet.data) + 1)'
         /\ (IF busy THEN Writing(Current) ELSE enc.state = "IDLE")'
         /\ Follows(Current, Current')
         /\ \/ Current'.n = Current.n
            \/ Current'.n = Current.n + 1 /\ enc'.state = "IDLE"
<1> DEFINE r == encodeByte(enc)
<1>0. TypeOK /\ SentOK /\ Writing(Current) /\ Len(sent) \in Nat
  BY DEF SidesOK, TypeOK
<1>1. Encoded = r
  BY <1>0, OneEncoder
<1>2. Current = [enc |-> enc, n |-> Len(sent)]
  BY DEF Current
<1>3. /\ enc \in EncoderType /\ Fits(enc.packet) /\ Encoding(enc)
      /\ enc.packet = sent[Len(sent)] /\ Len(sent) \in 1..Len(sent)
  BY <1>0, <1>2, WritingFits DEF TypeOK, Writing
<1>4. /\ r.byte \in Byte
      /\ r.enc \in EncoderType
      /\ r.enc.packet = enc.packet
      /\ r.err \in {"NOT_DONE", "NONE"}
      /\ r.err = "NOT_DONE" => Encoding(r.enc)
      /\ r.err = "NONE" => r.enc.state = "IDLE"
  BY <1>3, EncodeStep
<1>5. enc' = r.enc /\ busy' = (r.err = "NOT_DONE")
  BY <1>1
<1> HIDE DEF r
<1>6. Current' = [enc |-> r.enc, n |-> IF r.err = "NOT_DONE" THEN Len(sent) ELSE Len(sent) + 1]
  BY <1>5 DEF Current
<1>7. Follows(Current, Current')
  BY <1>2, <1>4, <1>6 DEF Follows, r
<1>8. (enc.state \in {"DATA", "ESCAPE"} => enc.encodeIdx <= Len(enc.packet.data) + 1)'
  BY <1>4, <1>5 DEF Encoding
<1>9. (IF busy THEN Writing(Current) ELSE enc.state = "IDLE")'
  <2>1. CASE r.err = "NOT_DONE"
    <3>1. Current' = [enc |-> r.enc, n |-> Len(sent)]
      BY <1>6, <2>1
    <3>2. Writing(Current)'
      BY <1>3, <1>4, <2>1, <3>1 DEF Writing
    <3>3. QED
      BY <1>5, <2>1, <3>2
  <2>2. CASE r.err = "NONE"
    BY <1>4, <1>5, <2>2
  <2>3. QED
    BY <1>4, <2>1, <2>2
<1>10. \/ Current'.n = Current.n
       \/ Current'.n = Current.n + 1 /\ enc'.state = "IDLE"
  BY <1>2, <1>4, <1>5, <1>6
<1>11. busy' \in BOOLEAN
  BY <1>5
<1>12. Encoded.byte \in Byte /\ enc' \in EncoderType
  BY <1>1, <1>4, <1>5
<1>13. QED
  BY <1>0, <1>1, <1>2, <1>7, <1>8, <1>9, <1>10, <1>11, <1>12 DEF r

\* The numbers in the chain, and its two ends.
LEMMA Numbers ==
  ASSUME SidesOK, Ordered
  PROVE  /\ Len(src) \in Nat /\ Len(sent) \in Nat /\ Len(rcvd) \in Nat
         /\ \A i \in 1..(Len(src) + 1) :
              /\ Chain[i].n \in Nat
              /\ Chain[1].n <= Chain[i].n
              /\ Chain[i].n <= Current.n
         /\ Current.n \in Nat /\ Current.n <= Len(sent) + 1
         /\ 1 \in 1..(Len(src) + 1)
<1>1. TypeOK
  BY DEF SidesOK
<1>2. Len(src) \in Nat /\ Len(sent) \in Nat /\ Len(rcvd) \in Nat
  BY <1>1 DEF TypeOK
<1>3. Current.n \in Nat /\ Current.n <= Len(sent) + 1
  BY <1>1, <1>2, ChainFacts
<1>4. \A i \in 1..(Len(src) + 1) : Chain[i].n \in Nat
  BY <1>1, <1>2, <1>3, ChainFacts
<1>5. Chain[Len(src) + 1] = Current
  BY <1>1, ChainFacts
<1>6. \A i \in 1..(Len(src) + 1) : Chain[1].n <= Chain[i].n /\ Chain[i].n <= Current.n
  BY <1>2, <1>5 DEF Ordered
<1>7. QED
  BY <1>2, <1>3, <1>4, <1>6

(***************************************************************************)
(* A fault.                                                                *)
(***************************************************************************)
LEMMA HitFacts ==
  ASSUME Marks, Current.n \in Nat, NEW h \in Nat \ {0}, Hit(h)
  PROVE  /\ faults' \in Nat /\ first' \in Nat /\ last' \in Nat
         /\ first' # 0 /\ last' # 0
         /\ first' <= h /\ h <= last' /\ last <= last' /\ first' <= last'
         /\ first # 0 => first' <= first
         /\ first' = first \/ first' = h
         /\ last' = last \/ last' = h
         /\ first # 0 /\ first <= h => first' = first
BY DEF Marks, Hit

\* Packets that a fault does not hit are as they were, as is what follows them.
LEMMA CleanAfterHit ==
  ASSUME Marks, Current.n \in Nat, NEW h \in Nat \ {0}, Hit(h),
         NEW s, s.n \in Nat, Clean(s.n)', NEW t, t.n \in Nat
  PROVE  /\ Clean(s.n)
         /\ Leads(s, t, first) => Leads(s, t, first')
<1>1. /\ first' \in Nat /\ last' \in Nat
      /\ first' # 0 /\ last <= last' /\ first' <= last'
      /\ first # 0 => first' <= first
      /\ first \in Nat /\ last \in Nat
      /\ first <= last
  BY HitFacts DEF Marks
<1>2. s.n < first' \/ s.n > last'
  BY <1>1 DEF Clean
<1>3. Clean(s.n)
  BY <1>1, <1>2 DEF Clean
<1>4. ASSUME Leads(s, t, first)
      PROVE  Leads(s, t, first')
  <2>1. CASE Follows(s, t)
    BY <2>1 DEF Leads, Follows
  <2>2. CASE encodeByte(s.enc).err # "NOT_DONE" /\ first = s.n + 1 /\ t.n > s.n
    <3>1. first' = first
      BY <1>1, <1>2, <2>2
    <3>2. QED
      BY <2>2, <3>1 DEF Leads
  <2>3. QED
    BY <1>4, <2>1, <2>2 DEF Leads
<1>5. QED
  BY <1>3, <1>4

(***************************************************************************)
(* The reader, while only the writer and the line move.                    *)
(***************************************************************************)
LEMMA ReaderKept ==
  ASSUME SidesOK, Marks, Ordered, BeforeOK, AfterOK, RecoveryOK,
         dec' = dec, rcvd' = rcvd, dir' = dir, first' = first, last' = last,
         \A i \in 1..Len(sent) : sent'[i] = sent[i],
         Chain'[1].n = Chain[1].n,
         \/ Chain'[1].enc = Chain[1].enc
         \/ Chain'[1].enc.state = "IDLE" /\ Chain[1].enc.state = "IDLE"
  PROVE  BeforeOK' /\ AfterOK' /\ RecoveryOK'
<1> DEFINE n == Chain[1].n
           e == Chain[1].enc
<1>0. /\ n \in Nat /\ n <= Len(sent) + 1 /\ Len(sent) \in Nat /\ Len(rcvd) \in Nat
      /\ first \in Nat /\ last \in Nat /\ first <= Len(sent) + 1
  BY Numbers DEF Marks
<1>1. /\ Mirrors(dec, e) => Mirrors(dec, Chain'[1].enc)
      /\ Synced(dec, e) => Synced(dec, Chain'[1].enc)
      /\ Resyncing(dec, e) => Resyncing(dec, Chain'[1].enc)
  BY DEF Mirrors, Synced, Resyncing
<1>2. Unreached' <=> Unreached
  BY DEF Unreached
<1>3. BeforeOK'
  <2> SUFFICES ASSUME Unreached
               PROVE  /\ Mirrors(dec, Chain'[1].enc)
                      /\ Len(rcvd) = n - 1
                      /\ \A i \in 1..Len(rcvd) : rcvd[i] = sent'[i]
    BY <1>2 DEF BeforeOK
  <2>1. Mirrors(dec, e) /\ Len(rcvd) = n - 1 /\ \A i \in 1..Len(rcvd) : rcvd[i] = sent[i]
    BY DEF BeforeOK
  <2>2. ASSUME NEW i \in 1..Len(rcvd)
        PROVE  rcvd[i] = sent'[i]
    <3>1. i \in 1..Len(sent)
      BY <1>0, <2>1
    <3>2. QED
      BY <2>1, <3>1
  <2>3. QED
    BY <1>1, <2>1, <2>2
<1>4. AfterOK'
  <2> SUFFICES ASSUME ~Unreached
               PROVE  /\ Len(rcvd) >= first - 1
                      /\ \A i \in 1..(first - 1) : rcvd[i] = sent'[i]
    BY <1>2 DEF AfterOK
  <2>1. Len(rcvd) >= first - 1 /\ \A i \in 1..(first - 1) : rcvd[i] = sent[i]
    BY DEF AfterOK
  <2>2. ASSUME NEW i \in 1..(first - 1)
        PROVE  rcvd[i] = sent'[i]
    <3>1. i \in 1..Len(sent)
      BY <1>0
    <3>2. QED
      BY <2>1, <3>1
  <2>3. QED
    BY <2>1, <2>2
<1>5. RecoveryOK'
  <2> SUFFICES ASSUME dir = "toHost"
               PROVE  /\ n = last + 1 => Resyncing(dec, Chain'[1].enc)
                      /\ n > last + 1 =>
                           /\ Synced(dec, Chain'[1].enc)
                           /\ Len(rcvd) >= n - last - 2
                           /\ \A i \in (last + 2)..(n - 1) :
                                rcvd[Len(rcvd) - (n - 1) + i] = sent'[i]
    BY DEF RecoveryOK
  <2>1. n = last + 1 => Resyncing(dec, Chain'[1].enc)
    BY <1>1 DEF RecoveryOK
  <2>2. ASSUME n > last + 1
        PROVE  /\ Synced(dec, Chain'[1].enc)
               /\ Len(rcvd) >= n - last - 2
               /\ \A i \in (last + 2)..(n - 1) :
                    rcvd[Len(rcvd) - (n - 1) + i] = sent'[i]
    <3>1. /\ Synced(dec, e)
          /\ Len(rcvd) >= n - last - 2
          /\ \A i \in (last + 2)..(n - 1) : rcvd[Len(rcvd) - (n - 1) + i] = sent[i]
      BY <2>2 DEF RecoveryOK
    <3>2. ASSUME NEW i \in (last + 2)..(n - 1)
          PROVE  rcvd[Len(rcvd) - (n - 1) + i] = sent'[i]
      <4>1. i \in 1..Len(sent)
        BY <1>0
      <4>2. QED
        BY <3>1, <4>1
    <3>3. QED
      BY <1>1, <3>1, <3>2
  <2>3. QED
    BY <2>1, <2>2
<1>6. QED
  BY <1>3, <1>4, <1>5

\* A fault hits no packet that has been read, so that nothing received is at stake.
LEMMA ReaderHit ==
  ASSUME SidesOK, Marks, Ordered, BeforeOK, AfterOK, RecoveryOK,
         NEW h \in Nat \ {0}, Hit(h), Chain[1].n <= h,
         dec' = dec, rcvd' = rcvd, dir' = dir, sent' = sent,
         Chain'[1].n \in Nat,
         Chain'[1] = Chain[1] \/ (h = Chain[1].n /\ h <= Chain'[1].n),
         \/ Chain'[1].n <= h
         \/ last <= h /\ Chain'[1].n = h + 1 /\ Chain'[1].enc.state = "IDLE"
  PROVE  BeforeOK' /\ AfterOK' /\ RecoveryOK'
<1>0. /\ Chain[1].n \in Nat /\ Current.n \in Nat /\ Len(rcvd) \in Nat /\ Len(sent) \in Nat
      /\ first \in Nat /\ last \in Nat
  BY Numbers DEF Marks
<1>1. /\ first' \in Nat /\ last' \in Nat
      /\ first' # 0 /\ h <= last' /\ first' <= h
      /\ first # 0 => first' <= first
      /\ last' = last \/ last' = h
      /\ first # 0 /\ first <= h => first' = first
  BY <1>0, HitFacts
<1>2. PICK n \in Nat, m \in Nat, f \in Nat, l \in Nat, k \in Nat :
        n = Chain[1].n /\ m = Chain'[1].n /\ f = first' /\ l = last' /\ k = Len(rcvd)
  BY <1>0, <1>1
<1>3. /\ n <= h /\ f # 0 /\ h <= l /\ f <= h
      /\ first # 0 => f <= first
      /\ l = last \/ l = h
      /\ first # 0 /\ first <= h => f = first
  BY <1>1, <1>2
<1>4. /\ Unreached <=> (first = 0 \/ n < first)
      /\ Unreached' <=> (f = 0 \/ m < f)
  BY <1>2 DEF Unreached
<1>5. Chain'[1] = Chain[1] \/ (h = n /\ h <= m)
  BY <1>2
<1>6. BeforeOK'
  <2> SUFFICES ASSUME Unreached'
               PROVE  BeforeOK'
    BY DEF BeforeOK
  <2>1. m < f
    BY <1>3, <1>4
  <2>2. Chain'[1] = Chain[1] /\ m = n
    <3>1. ~(h = n /\ h <= m)
      BY <1>3, <2>1
    <3>2. QED
      BY <1>2, <1>5, <3>1, Zenon
  <2>3. first = 0 \/ n < first
    BY <1>0, <1>3, <2>1, <2>2
  <2>4. /\ Mirrors(dec, Chain[1].enc)
        /\ Len(rcvd) = Chain[1].n - 1
        /\ \A i \in 1..Len(rcvd) : rcvd[i] = sent[i]
    BY <1>4, <2>3 DEF BeforeOK
  <2>5. QED
    BY <2>2, <2>4 DEF BeforeOK
<1>7. AfterOK'
  <2> SUFFICES ASSUME ~Unreached'
               PROVE  k >= f - 1 /\ \A i \in 1..(f - 1) : rcvd[i] = sent[i]
    BY <1>2 DEF AfterOK
  <2>1. CASE Unreached
    <3>1. k = n - 1 /\ \A i \in 1..k : rcvd[i] = sent[i]
      BY <1>2, <2>1 DEF BeforeOK
    <3>2. f <= n
      <4>1. CASE Chain'[1] = Chain[1]
        <5>1. m = n
          BY <1>2, <4>1
        <5>2. ~(m < f)
          BY <1>4
        <5>3. QED
          BY <5>1, <5>2
      <4>2. CASE h = n
        BY <1>3, <4>2
      <4>3. QED
        BY <1>5, <4>1, <4>2
    <3>3. QED
      BY <3>1, <3>2
  <2>2. CASE ~Unreached
    <3>1. first # 0 /\ first <= n
      BY <1>0, <1>4, <2>2
    <3>2. f = first
      BY <1>0, <1>3, <3>1
    <3>3. QED
      BY <1>2, <2>2, <3>2 DEF AfterOK
  <2>3. QED
    BY <2>1, <2>2
<1>8. RecoveryOK'
  <2>1. m <= h \/ (last <= h /\ m = h + 1 /\ Chain'[1].enc.state = "IDLE")
    BY <1>2
  <2>2. m <= l \/ (m = l + 1 /\ Chain'[1].enc.state = "IDLE")
    BY <1>0, <1>3, <2>1
  <2>3. ~(m > l + 1)
    BY <2>2
  <2>4. ASSUME m = l + 1
        PROVE  Resyncing(dec', Chain'[1].enc)
    <3>1. ~(m <= l)
      BY <2>4
    <3>2. QED
      BY <2>2, <3>1, Zenon DEF Resyncing
  <2>5. QED
    BY <1>2, <2>3, <2>4 DEF RecoveryOK
<1>9. QED
  BY <1>6, <1>7, <1>8
-----------------------------------------------------------------------------
(***************************************************************************)
(* The chain after a step of the writer or the line.                       *)
(***************************************************************************)
LEMMA ChainStays ==
  ASSUME TypeOK, src' = src
  PROVE  /\ \A i \in 1..Len(src) : Chain'[i] = src[i] /\ Chain[i] = src[i]
         /\ Chain'[Len(src) + 1] = Current'
         /\ Chain[Len(src) + 1] = Current
<1>1. src \in Seq([enc : EncoderType, n : Nat])
  BY DEF TypeOK
<1>2. Chain' = Append(src, Current') /\ Chain = Append(src, Current)
  BY DEF Chain
<1>3. QED
  BY <1>1, <1>2, AppendFacts

\* ... when a byte was put on the line.
LEMMA ChainGrows ==
  ASSUME TypeOK, NEW byte \in Byte, NEW link \in [enc : EncoderType, n : Nat],
         wire' = Append(wire, byte), src' = Append(src, link)
  PROVE  /\ wire' \in Seq(Byte) /\ src' \in Seq([enc : EncoderType, n : Nat])
         /\ Len(src) \in Nat /\ Len(wire) = Len(src)
         /\ Len(src') = Len(src) + 1 /\ Len(wire') = Len(src) + 1
         /\ \A i \in 1..Len(src) : /\ src'[i] = src[i] /\ wire'[i] = wire[i]
                                   /\ Chain'[i] = src[i] /\ Chain[i] = src[i]
         /\ src'[Len(src) + 1] = link /\ wire'[Len(src) + 1] = byte
         /\ Chain'[Len(src) + 1] = link
         /\ Chain'[Len(src) + 2] = Current'
         /\ Chain[Len(src) + 1] = Current
<1>1. /\ src \in Seq([enc : EncoderType, n : Nat]) /\ wire \in Seq(Byte)
      /\ Len(src) \in Nat /\ Len(wire) = Len(src)
  BY DEF TypeOK
<1>2. /\ Len(src') = Len(src) + 1
      /\ \A i \in 1..Len(src) : src'[i] = src[i]
      /\ src'[Len(src) + 1] = link
      /\ src' \in Seq([enc : EncoderType, n : Nat])
  BY <1>1, AppendFacts
<1>3. /\ Len(wire') = Len(src) + 1
      /\ \A i \in 1..Len(src) : wire'[i] = wire[i]
      /\ wire'[Len(src) + 1] = byte
      /\ wire' \in Seq(Byte)
  BY <1>1, AppendFacts
<1>4. /\ \A i \in 1..Len(src') : Chain'[i] = src'[i]
      /\ Chain'[Len(src') + 1] = Current'
  <2>1. Chain' = Append(src', Current')
    BY DEF Chain
  <2>2. QED
    BY <1>2, <2>1, AppendFacts
<1>5. /\ \A i \in 1..Len(src) : Chain[i] = src[i]
      /\ Chain[Len(src) + 1] = Current
  BY ChainFacts
<1>6. /\ Chain'[Len(src) + 1] = link
      /\ Chain'[Len(src) + 2] = Current'
      /\ \A i \in 1..Len(src) : Chain'[i] = src[i]
  BY <1>1, <1>2, <1>4
<1>7. QED
  BY <1>1, <1>2, <1>3, <1>5, <1>6

(***************************************************************************)
(* Entering writePacket.                                                   *)
(***************************************************************************)
LEMMA NoisyWritePacket ==
  ASSUME NoisyInv, NEW p \in Payload, WritePacket(p), UNCHANGED noise
  PROVE  NoisyInv'
<1> DEFINE pkt == calcAndStoreCrc(PacketOf(p))
           L == Len(src)
<1>0. /\ SidesOK /\ Marks /\ Ordered /\ CleanOK /\ BeforeOK /\ AfterOK /\ RecoveryOK
      /\ TypeOK /\ SentOK
  BY DEF NoisyInv, SidesOK
<1>1. /\ ~busy /\ busy' = TRUE
      /\ enc' = Start(PacketOf(p))
      /\ sent' = Append(sent, enc'.packet)
      /\ dir' = dir /\ wire' = wire /\ dec' = dec
      /\ err' = err /\ rcvd' = rcvd /\ src' = src
      /\ faults' = faults /\ first' = first /\ last' = last
  BY DEF WritePacket, noise
<1>2. /\ enc' \in EncoderType
      /\ enc'.state = "IDLE"
      /\ enc'.packet = pkt
      /\ Fits(pkt)
      /\ pkt.crc = calcCrc(pkt)
  BY <1>0, <1>1, StartStep
<1> HIDE DEF pkt
<1>3. sent \in Seq(PacketType) /\ sent' = Append(sent, pkt) /\ pkt \in PacketType
  BY <1>0, <1>1, <1>2 DEF TypeOK, Fits
<1>4. /\ Len(sent) \in Nat
      /\ Len(sent') = Len(sent) + 1
      /\ \A i \in 1..Len(sent) : sent'[i] = sent[i]
      /\ sent'[Len(sent) + 1] = pkt
      /\ sent' \in Seq(PacketType)
  BY <1>3, AppendFacts
<1>5. TypeOK'
  BY <1>0, <1>1, <1>2, <1>4 DEF TypeOK
<1>6. SentOK'
  BY <1>0, <1>2, <1>4 DEF SentOK, Fits
<1>7. /\ Current' = [enc |-> enc', n |-> Len(sent) + 1]
      /\ Current.n = Len(sent) + 1 /\ Current.enc = enc /\ enc.state = "IDLE"
  BY <1>0, <1>1, <1>4 DEF Current, SidesOK
<1>8. SidesOK'
  <2>1. Writing(Current)'
    BY <1>2, <1>4, <1>7 DEF Writing, Encoding
  <2>2. QED
    BY <1>0, <1>1, <1>5, <1>6, <2>1 DEF SidesOK
<1>9. /\ L \in Nat
      /\ \A i \in 1..L : Chain'[i] = src[i] /\ Chain[i] = src[i]
      /\ Chain'[L + 1] = Current' /\ Chain[L + 1] = Current
      /\ \A i \in 1..(L + 1) : Chain[i].n \in Nat
  BY <1>0, <1>1, ChainStays, Numbers
<1>10. \A i \in 1..(L + 1) : Chain'[i].n = Chain[i].n
  BY <1>7, <1>9
<1>11. Marks' /\ Ordered'
  <2>1. Marks'
    BY <1>0, <1>1, <1>7 DEF Marks
  <2>2. Chain'[1].n # 0
    BY <1>0, <1>9, <1>10 DEF Ordered
  <2>3. Ordered'
    BY <1>0, <1>1, <1>10, <2>2 DEF Ordered
  <2>4. QED
    BY <2>1, <2>3
<1>12. CleanOK'
  <2>1. ASSUME NEW i \in 1..L, Clean(src[i].n)
        PROVE  Writing(src[i])' /\ Leads(src[i], Chain'[i + 1], first)
    <3>1. Writing(src[i]) /\ Leads(src[i], Chain[i + 1], first)
      BY <1>0, <2>1 DEF CleanOK
    <3>2. Writing(src[i])'
      BY <1>1, <1>4, <1>9, <3>1 DEF Writing
    <3>3. Leads(src[i], Chain'[i + 1], first)
      <4>1. CASE i + 1 \in 1..L
        BY <1>9, <3>1, <4>1
      <4>2. CASE i = L
        <5>1. src[i].n <= Len(sent) /\ src[i].n \in Nat
          BY <1>4, <1>9, <3>1 DEF Writing
        <5>2. Chain[i + 1] = Current /\ Chain'[i + 1] = Current'
          BY <1>9, <4>2
        <5>3. CASE Follows(src[i], Current)
          <6>1. encodeByte(src[i].enc).err # "NOT_DONE" /\ src[i].n + 1 = Len(sent) + 1
            BY <1>4, <1>7, <5>1, <5>3 DEF Follows
          <6>2. Follows(src[i], Current')
            BY <1>2, <1>7, <6>1 DEF Follows
          <6>3. QED
            BY <5>2, <6>2 DEF Leads
        <5>4. CASE encodeByte(src[i].enc).err # "NOT_DONE" /\ first = src[i].n + 1
          <6>1. Current'.n > src[i].n
            BY <1>4, <1>7, <5>1
          <6>2. QED
            BY <5>2, <5>4, <6>1 DEF Leads
        <5>5. QED
          BY <3>1, <5>2, <5>3, <5>4 DEF Leads
      <4>3. QED
        BY <1>9, <4>1, <4>2
    <3>4. QED
      BY <3>2, <3>3
  <2>2. ASSUME NEW i \in 1..L, src[i].n <= last, Chain'[i + 1].n > last
        PROVE  Resumes(Chain'[i + 1], last)
    <3>1. CASE i + 1 \in 1..L
      <4>1. Chain'[i + 1] = Chain[i + 1]
        BY <1>9, <3>1
      <4>2. QED
        BY <1>0, <2>2, <4>1 DEF CleanOK
    <3>2. CASE i = L
      <4>1. Chain[i + 1] = Current /\ Chain'[i + 1] = Current' /\ Current'.n = Current.n
        BY <1>7, <1>9, <3>2
      <4>2. Resumes(Current, last)
        BY <1>0, <2>2, <4>1 DEF CleanOK
      <4>3. QED
        BY <1>2, <1>7, <4>1, <4>2 DEF Resumes
    <3>3. QED
      BY <1>9, <3>1, <3>2
  <2> SUFFICES ASSUME NEW i \in 1..Len(src')
               PROVE  /\ Clean(src[i].n)' => /\ Writing(src[i])'
                                            /\ wire'[i] = encodeByte(src'[i].enc).byte
                                            /\ Leads(src'[i], Chain'[i + 1], first')
                      /\ src'[i].n <= last' /\ Chain'[i + 1].n > last' =>
                           Resumes(Chain'[i + 1], last')
    BY DEF CleanOK
  <2>3. i \in 1..L /\ src'[i] = src[i] /\ (Clean(src[i].n)' <=> Clean(src[i].n))
    BY <1>1 DEF Clean
  <2>4. Clean(src[i].n) => wire[i] = encodeByte(src[i].enc).byte
    BY <1>0, <2>3 DEF CleanOK
  <2>5. QED
    BY <1>1, <2>1, <2>2, <2>3, <2>4
<1>13. BeforeOK' /\ AfterOK' /\ RecoveryOK'
  <2>1. CASE L = 0
    <3>1. Chain'[1].n = Chain[1].n
      BY <1>10, <2>1
    <3>2. Chain'[1].enc.state = "IDLE" /\ Chain[1].enc.state = "IDLE"
      BY <1>2, <1>7, <1>9, <2>1
    <3>3. QED
      BY <1>0, <1>1, <1>4, <3>1, <3>2, ReaderKept
  <2>2. CASE L # 0
    <3>1. Chain'[1] = Chain[1]
      BY <1>9, <2>2
    <3>2. QED
      BY <1>0, <1>1, <1>4, <3>1, ReaderKept
  <2>3. QED
    BY <2>1, <2>2
<1>14. QED
  BY <1>8, <1>11, <1>12, <1>13 DEF NoisyInv

(***************************************************************************)
(* One turn of writePacket's loop.                                         *)
(***************************************************************************)
LEMMA NoisyWriteByte ==
  ASSUME NoisyInv, WriteByte, UNCHANGED noise
  PROVE  NoisyInv'
<1> DEFINE L == Len(src)
<1>0. /\ SidesOK /\ Marks /\ Ordered /\ CleanOK /\ BeforeOK /\ AfterOK /\ RecoveryOK
      /\ TypeOK /\ SentOK
  BY DEF NoisyInv, SidesOK
<1>1. /\ busy /\ Len(wire) < WireCap
      /\ wire' = Append(wire, Encoded.byte)
      /\ src' = Append(src, [enc |-> enc, n |-> Len(sent)])
      /\ enc' = Encoded.enc /\ busy' = (Encoded.err = "NOT_DONE")
      /\ dir' = dir /\ dec' = dec /\ err' = err /\ sent' = sent /\ rcvd' = rcvd
      /\ faults' = faults /\ first' = first /\ last' = last
  BY DEF WriteByte, noise
<1>2. /\ Encoded = encodeByte(enc) /\ Encoded.byte \in Byte
      /\ Writing(Current) /\ Current = [enc |-> enc, n |-> Len(sent)]
      /\ enc' \in EncoderType /\ busy' \in BOOLEAN
      /\ (enc.state \in {"DATA", "ESCAPE"} => enc.encodeIdx <= Len(enc.packet.data) + 1)'
      /\ (IF busy THEN Writing(Current) ELSE enc.state = "IDLE")'
      /\ Follows(Current, Current')
      /\ Current'.n = Current.n \/ (Current'.n = Current.n + 1 /\ enc'.state = "IDLE")
  BY <1>0, <1>1, WriterStep
<1>3. /\ Len(sent) \in Nat /\ enc \in EncoderType
      /\ Current \in [enc : EncoderType, n : Nat]
      /\ Current.n \in Nat /\ Current'.n \in Nat /\ Current.n <= Current'.n
      /\ Current'.enc = enc'
  BY <1>0, <1>2 DEF TypeOK, Current
<1>4. /\ wire' \in Seq(Byte) /\ src' \in Seq([enc : EncoderType, n : Nat])
      /\ L \in Nat /\ Len(wire) = L
      /\ Len(src') = L + 1 /\ Len(wire') = L + 1
      /\ \A i \in 1..L : /\ src'[i] = src[i] /\ wire'[i] = wire[i]
                         /\ Chain'[i] = src[i] /\ Chain[i] = src[i]
      /\ src'[L + 1] = Current /\ wire'[L + 1] = Encoded.byte
      /\ Chain'[L + 1] = Current /\ Chain[L + 1] = Current
      /\ Chain'[L + 2] = Current'
  <2>1. src' = Append(src, Current)
    BY <1>1, <1>2
  <2>2. QED
    BY <1>0, <1>1, <1>2, <1>3, <2>1, ChainGrows
<1>5. /\ \A i \in 1..(L + 1) : Chain'[i] = Chain[i]
      /\ \A i \in 1..(L + 1) : Chain[i].n \in Nat /\ Chain[i].n <= Current.n
  <2>1. ASSUME NEW i \in 1..(L + 1)
        PROVE  Chain'[i] = Chain[i]
    BY <1>4
  <2>2. \A i \in 1..(L + 1) : Chain[i].n \in Nat /\ Chain[i].n <= Current.n
    BY <1>0, Numbers
  <2>3. QED
    BY <2>1, <2>2
<1>6. SidesOK'
  <2>1. Len(wire') <= WireCap
    BY <1>1, <1>4, BoundAssumption
  <2>2. TypeOK'
    BY <1>0, <1>1, <1>2, <1>4, <2>1 DEF TypeOK
  <2>3. SentOK'
    BY <1>0, <1>1 DEF SentOK
  <2>4. Sound(dec')
    BY <1>0, <1>1 DEF SidesOK
  <2>5. QED
    BY <1>2, <2>2, <2>3, <2>4 DEF SidesOK
<1>7. Marks'
  BY <1>0, <1>1, <1>3 DEF Marks
<1>8. Ordered'
  <2>0. Chain'[1].n # 0
    BY <1>0, <1>4, <1>5 DEF Ordered
  <2> SUFFICES ASSUME NEW i \in 1..(L + 2), NEW j \in 1..(L + 2), i <= j
               PROVE  Chain'[i].n <= Chain'[j].n
    BY <1>4, <2>0 DEF Ordered
  <2>1. CASE j \in 1..(L + 1)
    <3>1. i \in 1..(L + 1)
      BY <1>4, <2>1
    <3>2. Chain'[i] = Chain[i] /\ Chain'[j] = Chain[j]
      BY <1>5, <2>1, <3>1
    <3>3. QED
      BY <1>0, <2>1, <3>1, <3>2 DEF Ordered
  <2>2. CASE j = L + 2 /\ i \in 1..(L + 1)
    <3>1. Chain'[i].n \in Nat /\ Chain'[i].n <= Current.n /\ Chain'[j].n = Current'.n
      BY <1>4, <1>5, <2>2
    <3>2. QED
      BY <1>3, <3>1
  <2>3. CASE j = L + 2 /\ i = L + 2
    BY <1>3, <1>4, <2>3
  <2>4. QED
    BY <1>4, <2>1, <2>2, <2>3
<1>9. CleanOK'
  <2> SUFFICES ASSUME NEW i \in 1..Len(src')
               PROVE  /\ Clean(src[i].n)' => /\ Writing(src[i])'
                                            /\ wire'[i] = encodeByte(src'[i].enc).byte
                                            /\ Leads(src'[i], Chain'[i + 1], first')
                      /\ src'[i].n <= last' /\ Chain'[i + 1].n > last' =>
                           Resumes(Chain'[i + 1], last')
    BY DEF CleanOK
  <2>1. CASE i \in 1..L
    <3>1. /\ src'[i] = src[i] /\ wire'[i] = wire[i] /\ Chain'[i + 1] = Chain[i + 1]
          /\ Clean(src[i].n)' <=> Clean(src[i].n)
      BY <1>1, <1>4, <1>5, <2>1 DEF Clean
    <3>2. Writing(src[i]) => Writing(src[i])'
      BY <1>1, <3>1 DEF Writing
    <3>3. QED
      BY <1>0, <1>1, <2>1, <3>1, <3>2 DEF CleanOK
  <2>2. CASE i = L + 1
    <3>1. src'[i] = Current /\ wire'[i] = encodeByte(Current.enc).byte /\ Chain'[i + 1] = Current'
      BY <1>2, <1>4, <2>2
    <3>2. Writing(src[i])'
      BY <1>1, <1>2, <3>1 DEF Writing
    <3>3. Leads(src'[i], Chain'[i + 1], first')
      BY <1>2, <3>1 DEF Leads
    <3>4. ASSUME Current.n <= last, Current'.n > last
          PROVE  Resumes(Current', last)
      <4>1. last \in Nat /\ last <= Current.n
        BY <1>0 DEF Marks
      <4>2. Current'.n # Current.n /\ Current.n = last
        BY <1>3, <3>4, <4>1
      <4>3. QED
        BY <1>2, <1>3, <4>2 DEF Resumes
    <3>5. QED
      BY <1>1, <3>1, <3>2, <3>3, <3>4
  <2>3. QED
    BY <1>4, <2>1, <2>2
<1>10. BeforeOK' /\ AfterOK' /\ RecoveryOK'
  <2>1. Chain'[1] = Chain[1]
    BY <1>4, <1>5
  <2>2. QED
    BY <1>0, <1>1, <2>1, ReaderKept
<1>11. QED
  BY <1>6, <1>7, <1>8, <1>9, <1>10 DEF NoisyInv

(***************************************************************************)
(* writeByte drops the byte.                                               *)
(***************************************************************************)
LEMMA NoisyLoseByte ==
  ASSUME NoisyInv, LoseByte
  PROVE  NoisyInv'
<1> DEFINE L == Len(src)
<1>0. /\ SidesOK /\ Marks /\ Ordered /\ CleanOK /\ BeforeOK /\ AfterOK /\ RecoveryOK
      /\ TypeOK /\ SentOK
  BY DEF NoisyInv, SidesOK
<1>1. /\ busy
      /\ Hit(Len(sent))
      /\ enc' = Encoded.enc /\ busy' = (Encoded.err = "NOT_DONE")
      /\ dir' = dir /\ wire' = wire /\ dec' = dec /\ err' = err /\ sent' = sent
      /\ rcvd' = rcvd /\ src' = src
  BY DEF LoseByte
<1>2. /\ Writing(Current) /\ Current = [enc |-> enc, n |-> Len(sent)]
      /\ enc' \in EncoderType /\ busy' \in BOOLEAN
      /\ (enc.state \in {"DATA", "ESCAPE"} => enc.encodeIdx <= Len(enc.packet.data) + 1)'
      /\ (IF busy THEN Writing(Current) ELSE enc.state = "IDLE")'
      /\ Current'.n = Current.n \/ (Current'.n = Current.n + 1 /\ enc'.state = "IDLE")
  BY <1>0, <1>1, WriterStep
<1>3. PICK h \in Nat \ {0} : h = Len(sent) /\ h = Current.n
  BY <1>0, <1>2 DEF TypeOK, Writing
<1>4. /\ Current'.n \in Nat /\ h <= Current'.n /\ Current'.enc = enc'
      /\ Current'.n = h \/ (Current'.n = h + 1 /\ Current'.enc.state = "IDLE")
  BY <1>2, <1>3 DEF Current
<1>5. /\ Hit(h)
      /\ faults' \in Nat /\ first' \in Nat /\ last' \in Nat
      /\ first' # 0 /\ last' # 0 /\ first' <= h /\ first' <= last' /\ last' = h
  <2>1. Hit(h)
    BY <1>1, <1>3
  <2>2. last \in Nat /\ last <= h
    BY <1>0, <1>3 DEF Marks
  <2>3. QED
    BY <1>0, <1>3, <2>1, <2>2, HitFacts
<1>6. /\ L \in Nat
      /\ \A i \in 1..L : Chain'[i] = src[i] /\ Chain[i] = src[i]
      /\ Chain'[L + 1] = Current' /\ Chain[L + 1] = Current
      /\ \A i \in 1..(L + 1) : Chain[i].n \in Nat /\ Chain[i].n <= h
  BY <1>0, <1>1, <1>3, ChainStays, Numbers
<1>7. SidesOK'
  <2>1. TypeOK'
    BY <1>0, <1>1, <1>2 DEF TypeOK
  <2>2. SentOK' /\ Sound(dec')
    BY <1>0, <1>1 DEF SentOK, SidesOK
  <2>3. QED
    BY <1>2, <2>1, <2>2 DEF SidesOK
<1>8. Marks'
  BY <1>4, <1>5 DEF Marks
<1>9. Ordered'
  <2>0. Chain'[1].n # 0
    <3>1. CASE L = 0
      BY <1>4, <1>6, <3>1
    <3>2. CASE L # 0
      BY <1>0, <1>6, <3>2 DEF Ordered
    <3>3. QED
      BY <3>1, <3>2
  <2> SUFFICES ASSUME NEW i \in 1..(L + 1), NEW j \in 1..(L + 1), i <= j
               PROVE  Chain'[i].n <= Chain'[j].n
    BY <1>1, <2>0 DEF Ordered
  <2>1. CASE j \in 1..L
    <3>1. i \in 1..L
      BY <1>6, <2>1
    <3>2. Chain'[i] = Chain[i] /\ Chain'[j] = Chain[j]
      BY <1>6, <2>1, <3>1
    <3>3. QED
      BY <1>0, <3>2 DEF Ordered
  <2>2. CASE j = L + 1 /\ i \in 1..L
    <3>1. Chain'[i].n \in Nat /\ Chain'[i].n <= h /\ Chain'[j].n = Current'.n
      BY <1>6, <2>2
    <3>2. QED
      BY <1>4, <3>1
  <2>3. CASE j = L + 1 /\ i = L + 1
    BY <1>4, <1>6, <2>3
  <2>4. QED
    BY <1>6, <2>1, <2>2, <2>3
<1>10. CleanOK'
  <2> SUFFICES ASSUME NEW i \in 1..Len(src')
               PROVE  /\ Clean(src[i].n)' => /\ Writing(src[i])'
                                            /\ wire'[i] = encodeByte(src'[i].enc).byte
                                            /\ Leads(src'[i], Chain'[i + 1], first')
                      /\ src'[i].n <= last' /\ Chain'[i + 1].n > last' =>
                           Resumes(Chain'[i + 1], last')
    BY DEF CleanOK
  <2>1. i \in 1..L /\ src'[i] = src[i] /\ wire'[i] = wire[i] /\ src[i].n \in Nat /\ src[i].n <= h
    BY <1>1, <1>6
  <2>2. ASSUME Clean(src[i].n)'
        PROVE  /\ Writing(src[i])' /\ wire[i] = encodeByte(src[i].enc).byte
               /\ Leads(src[i], Chain'[i + 1], first')
    <3>1. src[i].n < first'
      BY <1>5, <2>1, <2>2 DEF Clean
    <3>2. Clean(src[i].n) /\ (Leads(src[i], Chain[i + 1], first) => Leads(src[i], Chain[i + 1], first'))
      <4>1. Clean(src[i].n)'
        BY <2>2
      <4>2. Chain[i + 1].n \in Nat
        BY <1>6, <2>1
      <4>3. PICK s, t : s = src[i] /\ t = Chain[i + 1]
        OBVIOUS
      <4>4. Clean(s.n)'
        BY <2>1, <4>1, <4>3 DEF Clean
      <4>5. Clean(s.n) /\ (Leads(s, t, first) => Leads(s, t, first'))
        BY <1>0, <1>3, <1>5, <2>1, <4>2, <4>3, <4>4, CleanAfterHit
      <4>6. QED
        BY <4>3, <4>5
    <3>3. /\ Writing(src[i]) /\ wire[i] = encodeByte(src[i].enc).byte
          /\ Leads(src[i], Chain[i + 1], first')
      BY <1>0, <2>1, <3>2 DEF CleanOK
    <3>4. Writing(src[i])'
      BY <1>1, <2>1, <3>3 DEF Writing
    <3>5. CASE i + 1 \in 1..L
      BY <1>6, <3>3, <3>4, <3>5
    <3>6. CASE i = L
      <4>1. Chain[i + 1] = Current /\ Chain'[i + 1] = Current'
        BY <1>6, <3>6
      <4>2. encodeByte(src[i].enc).err # "NOT_DONE"
        <5>1. ~(Current.n = src[i].n)
          BY <1>3, <1>5, <2>1, <3>1
        <5>2. QED
          BY <3>3, <4>1, <5>1 DEF Leads, Follows
      <4>3. src[i].n + 1 = h \/ first' = src[i].n + 1
        BY <1>3, <3>3, <4>1, <4>2 DEF Leads, Follows
      <4>4. first' = src[i].n + 1 /\ Current'.n > src[i].n
        BY <1>4, <1>5, <2>1, <3>1, <4>3
      <4>5. Leads(src[i], Chain'[i + 1], first')
        BY <4>1, <4>2, <4>4 DEF Leads
      <4>6. QED
        BY <3>3, <3>4, <4>5
    <3>7. QED
      BY <1>6, <2>1, <3>5, <3>6
  <2>3. ASSUME Chain'[i + 1].n > last'
        PROVE  Resumes(Chain'[i + 1], last')
    <3>1. CASE i + 1 \in 1..L
      <4>1. Chain'[i + 1].n \in Nat /\ Chain'[i + 1].n <= h
        BY <1>6, <3>1
      <4>2. QED
        BY <1>5, <2>3, <4>1
    <3>2. CASE i = L
      <4>1. Chain'[i + 1] = Current'
        BY <1>6, <3>2
      <4>2. QED
        BY <1>4, <1>5, <2>3, <4>1 DEF Resumes
    <3>3. QED
      BY <1>6, <2>1, <3>1, <3>2
  <2>4. QED
    BY <2>1, <2>2, <2>3
<1>11. BeforeOK' /\ AfterOK' /\ RecoveryOK'
  <2>0. last \in Nat /\ last <= h
    BY <1>0, <1>3 DEF Marks
  <2>1. CASE L = 0
    <3>1. Chain'[1] = Current' /\ Chain[1] = Current
      BY <1>6, <2>1
    <3>2. /\ Chain[1].n <= h /\ h = Chain[1].n
          /\ Chain'[1].n \in Nat /\ h <= Chain'[1].n
          /\ Chain'[1].n <= h \/ (last <= h /\ Chain'[1].n = h + 1 /\ Chain'[1].enc.state = "IDLE")
      BY <1>3, <1>4, <2>0, <3>1
    <3>3. QED
      BY <1>0, <1>1, <1>5, <3>2, ReaderHit
  <2>2. CASE L # 0
    <3>1. Chain'[1] = Chain[1] /\ Chain[1].n \in Nat /\ Chain[1].n <= h
      BY <1>6, <2>2
    <3>2. Chain'[1].n \in Nat /\ Chain'[1].n <= h
      BY <3>1
    <3>3. QED
      BY <1>0, <1>1, <1>5, <3>1, <3>2, ReaderHit
  <2>3. QED
    BY <2>1, <2>2
<1>12. QED
  BY <1>7, <1>8, <1>9, <1>10, <1>11 DEF NoisyInv

\* The chain is as it was while a fault changes what is in flight, or not even that.
LEMMA CleanKept ==
  ASSUME SidesOK, Marks, Ordered, CleanOK,
         NEW h \in Nat \ {0}, Hit(h), sent' = sent,
         NEW i \in 1..Len(src), src'[i] = src[i], Chain'[i + 1] = Chain[i + 1]
  PROVE  /\ Clean(src[i].n)' => /\ Writing(src[i])'
                                /\ wire[i] = encodeByte(src[i].enc).byte
                                /\ Leads(src'[i], Chain'[i + 1], first')
         /\ src'[i].n <= last' /\ Chain'[i + 1].n > last' => Resumes(Chain'[i + 1], last')
<1>1. PICK s, t : s = src[i] /\ t = Chain[i + 1]
  OBVIOUS
<1>2. /\ s.n \in Nat /\ t.n \in Nat /\ s = Chain[i]
  <2>1. TypeOK
    BY DEF SidesOK
  <2>2. i \in 1..(Len(src) + 1) /\ i + 1 \in 1..(Len(src) + 1)
    BY Numbers
  <2>3. Chain[i] = src[i]
    BY <2>1, ChainFacts
  <2>4. QED
    BY <1>1, <2>2, <2>3, Numbers
<1>3. /\ first \in Nat /\ last \in Nat /\ first <= last /\ Current.n \in Nat
      /\ first = 0 <=> last = 0
  BY Numbers DEF Marks
<1>4. /\ first' \in Nat /\ last' \in Nat /\ first' # 0 /\ last <= last' /\ first' <= last'
  BY <1>3, HitFacts
<1>5. /\ Clean(s.n) => /\ Writing(s)
                       /\ wire[i] = encodeByte(s.enc).byte
                       /\ Leads(s, t, first)
      /\ s.n <= last /\ t.n > last => Resumes(t, last)
  BY <1>1 DEF CleanOK
<1>6. ASSUME Clean(s.n)'
      PROVE  /\ Writing(s)' /\ wire[i] = encodeByte(s.enc).byte
             /\ Leads(s, t, first')
  <2>1. Clean(s.n) /\ (Leads(s, t, first) => Leads(s, t, first'))
    BY <1>2, <1>3, <1>6, CleanAfterHit
  <2>2. Writing(s)'
    BY <1>5, <2>1 DEF Writing
  <2>3. QED
    BY <1>5, <2>1, <2>2
<1>7. ASSUME s.n <= last', t.n > last'
      PROVE  Resumes(t, last')
  <2>1. CASE s.n <= last
    <3>1. t.n > last
      BY <1>2, <1>3, <1>4, <1>7
    <3>2. Resumes(t, last)
      BY <1>5, <2>1, <3>1
    <3>3. last' = last
      BY <1>3, <1>4, <1>7, <3>2 DEF Resumes
    <3>4. QED
      BY <3>2, <3>3
  <2>2. CASE s.n > last
    <3>1. Leads(s, t, first)
      BY <1>5, <2>2 DEF Clean
    <3>2. t.n # s.n /\ first # s.n + 1
      BY <1>2, <1>3, <1>4, <1>7, <2>2
    <3>3. t.enc.state = "IDLE" /\ t.n = s.n + 1
      BY <3>1, <3>2 DEF Leads, Follows
    <3>4. s.n = last'
      BY <1>2, <1>4, <1>7, <3>3
    <3>5. QED
      BY <3>3, <3>4 DEF Resumes
  <2>3. QED
    BY <1>2, <1>3, <2>1, <2>2
<1>8. Clean(src[i].n)' <=> Clean(s.n)'
  BY <1>1 DEF Clean
<1>9. Writing(s)' => Writing(src[i])'
  BY <1>1 DEF Writing
<1>10. QED
  BY <1>1, <1>6, <1>7, <1>8, <1>9

(***************************************************************************)
(* The line turns a byte into another one.                                 *)
(***************************************************************************)
LEMMA NoisyChangeByte ==
  ASSUME NoisyInv, ChangeByte
  PROVE  NoisyInv'
<1> DEFINE L == Len(src)
<1>0. /\ SidesOK /\ Marks /\ Ordered /\ CleanOK /\ BeforeOK /\ AfterOK /\ RecoveryOK
      /\ TypeOK /\ SentOK
  BY DEF NoisyInv, SidesOK
<1>1. PICK byte \in Byte \ {Head(wire)} : wire' = <<byte>> \o Tail(wire)
  BY DEF ChangeByte
<1>2. /\ wire # <<>>
      /\ Hit(Head(src).n)
      /\ dir' = dir /\ enc' = enc /\ busy' = busy /\ dec' = dec /\ err' = err
      /\ sent' = sent /\ rcvd' = rcvd /\ src' = src
  BY DEF ChangeByte
<1>3. /\ L \in Nat \ {0} /\ wire \in Seq(Byte) /\ Len(wire) = L
      /\ src \in Seq([enc : EncoderType, n : Nat]) /\ src # <<>> /\ Head(src) = src[1]
  <2>1. wire \in Seq(Byte) /\ src \in Seq([enc : EncoderType, n : Nat]) /\ Len(wire) = L
    BY <1>0 DEF TypeOK
  <2>2. L \in Nat \ {0}
    BY <1>2, <2>1, TailFacts
  <2>3. QED
    BY <2>1, <2>2
<1>4. /\ wire' \in Seq(Byte) /\ Len(wire') = L
      /\ \A i \in 2..L : wire'[i] = wire[i]
  <2>1. /\ Tail(wire) \in Seq(Byte) /\ Len(Tail(wire)) = L - 1
        /\ \A i \in 1..(L - 1) : Tail(wire)[i] = wire[i + 1]
    BY <1>2, <1>3, TailFacts
  <2>2. <<byte>> \in Seq(Byte) /\ Len(<<byte>>) = 1
    OBVIOUS
  <2>3. /\ wire' \in Seq(Byte) /\ Len(wire') = 1 + (L - 1)
        /\ \A i \in 1..(1 + (L - 1)) :
             wire'[i] = IF i <= 1 THEN <<byte>>[i] ELSE Tail(wire)[i - 1]
    BY <1>1, <2>1, <2>2, ConcatProperties
  <2>4. ASSUME NEW i \in 2..L
        PROVE  wire'[i] = wire[i]
    <3>1. wire'[i] = Tail(wire)[i - 1]
      BY <1>3, <2>3
    <3>2. Tail(wire)[i - 1] = wire[(i - 1) + 1]
      BY <1>3, <2>1
    <3>3. (i - 1) + 1 = i
      OBVIOUS
    <3>4. QED
      BY <3>1, <3>2, <3>3
  <2>5. QED
    BY <1>3, <2>3, <2>4
<1>5. /\ \A i \in 1..L : Chain[i] = src[i]
      /\ \A i \in 1..(L + 1) : Chain[i].n \in Nat /\ Chain[i].n <= Current.n
      /\ Current.n \in Nat
  BY <1>0, ChainFacts, Numbers
<1>6. Current' = Current /\ Chain' = Chain
  BY <1>2 DEF Current, Chain
<1>7. PICK h \in Nat \ {0} : h = Chain[1].n /\ Hit(h)
  <2>1. Head(src).n = Chain[1].n /\ Chain[1].n \in Nat
    BY <1>3, <1>5
  <2>2. Chain[1].n # 0
    BY <1>0, <1>2, <1>3, <1>5, <2>1 DEF Ordered
  <2>3. QED
    BY <1>2, <2>1, <2>2
<1>8. /\ faults' \in Nat /\ first' \in Nat /\ last' \in Nat /\ first' # 0 /\ last' # 0
      /\ first' <= h /\ h <= last' /\ last <= last' /\ first' <= last'
      /\ last' = last \/ last' = h
  BY <1>0, <1>5, <1>7, HitFacts
<1>9. SidesOK'
  <2>1. TypeOK'
    BY <1>0, <1>2, <1>3, <1>4 DEF TypeOK
  <2>2. SentOK' /\ Sound(dec')
    BY <1>0, <1>2 DEF SentOK, SidesOK
  <2>3. (IF busy THEN Writing(Current) ELSE enc.state = "IDLE")'
    BY <1>0, <1>2, <1>6 DEF SidesOK, Writing
  <2>4. QED
    BY <2>1, <2>2, <2>3 DEF SidesOK
<1>10. Marks'
  <2>1. last' <= Current.n
    BY <1>0, <1>3, <1>5, <1>7, <1>8 DEF Marks
  <2>2. QED
    BY <1>6, <1>8, <2>1 DEF Marks
<1>11. Ordered'
  BY <1>0, <1>2, <1>6 DEF Ordered
<1>12. CleanOK'
  <2> SUFFICES ASSUME NEW i \in 1..Len(src')
               PROVE  /\ Clean(src[i].n)' => /\ Writing(src[i])'
                                            /\ wire'[i] = encodeByte(src'[i].enc).byte
                                            /\ Leads(src'[i], Chain'[i + 1], first')
                      /\ src'[i].n <= last' /\ Chain'[i + 1].n > last' =>
                           Resumes(Chain'[i + 1], last')
    BY DEF CleanOK
  <2>1. i \in 1..L /\ src'[i] = src[i] /\ Chain'[i + 1] = Chain[i + 1]
    BY <1>2, <1>6
  <2>2. /\ Clean(src[i].n)' => /\ Writing(src[i])'
                               /\ wire[i] = encodeByte(src[i].enc).byte
                               /\ Leads(src'[i], Chain'[i + 1], first')
        /\ src'[i].n <= last' /\ Chain'[i + 1].n > last' => Resumes(Chain'[i + 1], last')
    BY <1>0, <1>2, <1>7, <2>1, CleanKept
  <2>3. CASE i = 1
    <3>1. src'[i].n = h
      BY <1>5, <1>7, <2>1, <2>3
    <3>2. ~Clean(src[i].n)'
      BY <1>7, <1>8, <3>1 DEF Clean
    <3>3. QED
      BY <2>2, <3>2
  <2>4. CASE i # 1
    <3>1. wire'[i] = wire[i]
      BY <1>4, <2>1, <2>4
    <3>2. QED
      BY <2>1, <2>2, <3>1
  <2>5. QED
    BY <2>3, <2>4
<1>13. BeforeOK' /\ AfterOK' /\ RecoveryOK'
  <2>1. Chain'[1] = Chain[1] /\ Chain[1].n <= h /\ Chain'[1].n \in Nat /\ Chain'[1].n <= h
    BY <1>6, <1>7
  <2>2. QED
    BY <1>0, <1>2, <1>7, <2>1, ReaderHit
<1>14. QED
  BY <1>9, <1>10, <1>11, <1>12, <1>13 DEF NoisyInv

(***************************************************************************)
(* The line adds a byte.                                                   *)
(***************************************************************************)
LEMMA NoisyAddByte ==
  ASSUME NoisyInv, AddByte
  PROVE  NoisyInv'
<1> DEFINE L == Len(src)
<1>0. /\ SidesOK /\ Marks /\ Ordered /\ CleanOK /\ BeforeOK /\ AfterOK /\ RecoveryOK
      /\ TypeOK /\ SentOK
  BY DEF NoisyInv, SidesOK
<1>1. PICK byte \in Byte : wire' = Append(wire, byte)
  BY DEF AddByte
<1>2. /\ Len(wire) < WireCap
      /\ Hit(Current.n)
      /\ src' = Append(src, Current)
      /\ dir' = dir /\ enc' = enc /\ busy' = busy /\ dec' = dec /\ err' = err
      /\ sent' = sent /\ rcvd' = rcvd
  BY DEF AddByte
<1>3. /\ Current' = Current
      /\ Current \in [enc : EncoderType, n : Nat]
      /\ Current.n \in Nat
      /\ \A i \in 1..(L + 1) : Chain[i].n \in Nat /\ Chain[i].n <= Current.n
      /\ Chain[1].n # 0 /\ L \in Nat
  <2>1. Current' = Current
    BY <1>2 DEF Current
  <2>2. Current \in [enc : EncoderType, n : Nat]
    BY <1>0 DEF TypeOK, Current
  <2>3. Chain[1].n # 0
    BY <1>0 DEF Ordered
  <2>4. QED
    BY <1>0, <2>1, <2>2, <2>3, Numbers
<1>4. /\ wire' \in Seq(Byte) /\ src' \in Seq([enc : EncoderType, n : Nat])
      /\ Len(wire) = L
      /\ Len(src') = L + 1 /\ Len(wire') = L + 1
      /\ \A i \in 1..L : /\ src'[i] = src[i] /\ wire'[i] = wire[i]
                         /\ Chain'[i] = src[i] /\ Chain[i] = src[i]
      /\ src'[L + 1] = Current
      /\ Chain'[L + 1] = Current /\ Chain[L + 1] = Current
      /\ Chain'[L + 2] = Current
  BY <1>0, <1>1, <1>2, <1>3, ChainGrows
<1>5. ASSUME NEW i \in 1..(L + 1)
      PROVE  Chain'[i] = Chain[i]
  BY <1>3, <1>4
<1>6. PICK h \in Nat \ {0} : h = Current.n /\ Hit(h)
  <2>1. 1 \in 1..(L + 1)
    BY <1>3
  <2>2. Current.n # 0
    BY <1>3, <2>1
  <2>3. QED
    BY <1>2, <1>3, <2>2
<1>7. /\ faults' \in Nat /\ first' \in Nat /\ last' \in Nat /\ first' # 0 /\ last' # 0
      /\ first' <= h /\ first' <= last' /\ last' = h
  <2>1. last \in Nat /\ last <= h
    BY <1>0, <1>6 DEF Marks
  <2>2. QED
    BY <1>0, <1>3, <1>6, <2>1, HitFacts
<1>8. SidesOK'
  <2>1. Len(wire') <= WireCap
    BY <1>2, <1>3, <1>4, BoundAssumption
  <2>2. TypeOK'
    BY <1>0, <1>2, <1>4, <2>1 DEF TypeOK
  <2>3. SentOK' /\ Sound(dec')
    BY <1>0, <1>2 DEF SentOK, SidesOK
  <2>4. (IF busy THEN Writing(Current) ELSE enc.state = "IDLE")'
    BY <1>0, <1>2, <1>3 DEF SidesOK, Writing
  <2>5. QED
    BY <2>2, <2>3, <2>4 DEF SidesOK
<1>9. Marks'
  BY <1>3, <1>6, <1>7 DEF Marks
<1>10. Ordered'
  <2>0. Chain'[1].n # 0
    BY <1>3, <1>5
  <2> SUFFICES ASSUME NEW i \in 1..(L + 2), NEW j \in 1..(L + 2), i <= j
               PROVE  Chain'[i].n <= Chain'[j].n
    BY <1>4, <2>0 DEF Ordered
  <2>1. CASE j \in 1..(L + 1)
    <3>1. i \in 1..(L + 1)
      BY <1>3, <2>1
    <3>2. Chain'[i] = Chain[i] /\ Chain'[j] = Chain[j]
      BY <1>5, <2>1, <3>1
    <3>3. QED
      BY <1>0, <2>1, <3>1, <3>2 DEF Ordered
  <2>2. CASE j = L + 2 /\ i \in 1..(L + 1)
    <3>1. Chain'[i].n <= Current.n /\ Chain'[j].n = Current.n
      BY <1>3, <1>4, <1>5, <2>2
    <3>2. QED
      BY <3>1
  <2>3. CASE j = L + 2 /\ i = L + 2
    BY <1>3, <1>4, <2>3
  <2>4. QED
    BY <1>3, <2>1, <2>2, <2>3
<1>11. CleanOK'
  <2> SUFFICES ASSUME NEW i \in 1..Len(src')
               PROVE  /\ Clean(src[i].n)' => /\ Writing(src[i])'
                                            /\ wire'[i] = encodeByte(src'[i].enc).byte
                                            /\ Leads(src'[i], Chain'[i + 1], first')
                      /\ src'[i].n <= last' /\ Chain'[i + 1].n > last' =>
                           Resumes(Chain'[i + 1], last')
    BY DEF CleanOK
  <2>1. CASE i \in 1..L
    <3>0. i + 1 \in 1..(L + 1)
      BY <1>3, <2>1
    <3>1. /\ src'[i] = src[i] /\ wire'[i] = wire[i]
          /\ Chain'[i + 1] = Chain[i + 1]
      BY <1>4, <1>5, <2>1, <3>0
    <3>2. /\ Clean(src[i].n)' => /\ Writing(src[i])'
                                 /\ wire[i] = encodeByte(src[i].enc).byte
                                 /\ Leads(src'[i], Chain'[i + 1], first')
          /\ src'[i].n <= last' /\ Chain'[i + 1].n > last' => Resumes(Chain'[i + 1], last')
      BY <1>0, <1>2, <1>6, <2>1, <3>1, CleanKept
    <3>3. QED
      BY <3>1, <3>2
  <2>2. CASE i = L + 1
    <3>1. src'[i].n = h /\ Chain'[i + 1].n = h
      BY <1>3, <1>4, <1>6, <2>2
    <3>2. ~Clean(src[i].n)'
      BY <1>6, <1>7, <3>1 DEF Clean
    <3>3. ~(Chain'[i + 1].n > last')
      BY <1>6, <1>7, <3>1
    <3>4. QED
      BY <3>2, <3>3
  <2>3. QED
    BY <1>3, <1>4, <2>1, <2>2
<1>12. BeforeOK' /\ AfterOK' /\ RecoveryOK'
  <2>1. 1 \in 1..(L + 1)
    BY <1>3
  <2>2. /\ Chain'[1] = Chain[1] /\ Chain[1].n <= h /\ Chain'[1].n \in Nat /\ Chain'[1].n <= h
    BY <1>3, <1>5, <1>6, <2>1
  <2>3. QED
    BY <1>0, <1>2, <1>6, <2>2, ReaderHit
<1>13. QED
  BY <1>8, <1>9, <1>10, <1>11, <1>12 DEF NoisyInv

(***************************************************************************)
(* processByte reads the oldest byte in flight.                            *)
(***************************************************************************)

\* What it leaves on the line.
LEMMA ChainShrinks ==
  ASSUME TypeOK, wire # <<>>, wire' = Tail(wire), src' = Tail(src),
         enc' = enc, busy' = busy, sent' = sent
  PROVE  /\ Len(src) \in Nat \ {0}
         /\ Head(wire) = wire[1] /\ wire[1] \in Byte
         /\ wire' \in Seq(Byte) /\ src' \in Seq([enc : EncoderType, n : Nat])
         /\ Len(wire') = Len(src) - 1 /\ Len(src') = Len(src) - 1
         /\ Len(wire') <= WireCap
         /\ \A i \in 1..(Len(src) - 1) : src'[i] = src[i + 1] /\ wire'[i] = wire[i + 1]
         /\ Current' = Current
         /\ \A i \in 1..Len(src) : Chain'[i] = Chain[i + 1]
<1>1. /\ wire \in Seq(Byte) /\ src \in Seq([enc : EncoderType, n : Nat])
      /\ Len(src) = Len(wire) /\ Len(wire) <= WireCap
  BY DEF TypeOK
<1>2. src # <<>>
  BY <1>1
<1>3. /\ Len(src) \in Nat \ {0}
      /\ Head(wire) = wire[1] /\ wire[1] \in Byte
      /\ wire' \in Seq(Byte) /\ src' \in Seq([enc : EncoderType, n : Nat])
      /\ Len(wire') = Len(src) - 1 /\ Len(src') = Len(src) - 1
      /\ \A i \in 1..(Len(src) - 1) : src'[i] = src[i + 1] /\ wire'[i] = wire[i + 1]
  BY <1>1, <1>2, TailFacts
<1>4. Current' = Current
  BY DEF Current
<1>5. Len(wire') <= WireCap
  BY <1>1, <1>3, BoundAssumption
<1>6. ASSUME NEW i \in 1..Len(src)
      PROVE  Chain'[i] = Chain[i + 1]
  <2>1. /\ \A j \in 1..Len(src') : Chain'[j] = src'[j]
        /\ Chain'[Len(src') + 1] = Current
    <3>1. Chain' = Append(src', Current)
      BY <1>4 DEF Chain
    <3>2. QED
      BY <1>3, <3>1, AppendFacts
  <2>2. /\ \A j \in 1..Len(src) : Chain[j] = src[j]
        /\ Chain[Len(src) + 1] = Current
    BY ChainFacts
  <2>3. CASE i = Len(src)
    BY <1>3, <2>1, <2>2, <2>3
  <2>4. CASE i \in 1..(Len(src) - 1)
    BY <1>3, <2>1, <2>2, <2>4
  <2>5. QED
    BY <1>3, <2>3, <2>4
<1>7. QED
  BY <1>3, <1>4, <1>5, <1>6

(***************************************************************************)
(* The byte of a packet that no fault hit, read by a decoder that has come *)
(* no nearer to a fault: as on an intact line.                             *)
(***************************************************************************)
LEMMA ReadBefore ==
  ASSUME NoisyInv, Unreached, src # <<>>, wire # <<>>
  PROVE  LET s == src[1]
             t == Chain[2]
             q == Decoded(wire[1])
         IN  \/ /\ q.err = "NOT_DONE"
                /\ t.n = s.n
                /\ Mirrors(q.dec, t.enc)
             \/ /\ q.err = "NONE"
                /\ q.dec.packet = sent[s.n]
                /\ \/ t.n = s.n + 1 /\ Mirrors(q.dec, t.enc)
                   \/ t.n > s.n /\ first = s.n + 1
<1> DEFINE s == src[1]
           t == Chain[2]
           r == encodeByte(s.enc)
           q == Decoded(wire[1])
<1>0. /\ TypeOK /\ SentOK /\ Sound(dec) /\ CleanOK /\ BeforeOK /\ dec \in DecoderType
  BY DEF NoisyInv, SidesOK, Sound
<1>1. /\ Len(src) \in Nat \ {0} /\ 1 \in 1..Len(src) /\ Chain[1] = s
      /\ s.enc \in EncoderType /\ s.n \in Nat /\ wire[1] \in Byte
  <2>1. /\ src \in Seq([enc : EncoderType, n : Nat]) /\ wire \in Seq(Byte)
        /\ Len(src) = Len(wire)
    BY <1>0 DEF TypeOK
  <2>2. Len(src) \in Nat \ {0} /\ 1 \in 1..Len(src) /\ wire[1] \in Byte
    BY <2>1, TailFacts
  <2>3. QED
    BY <1>0, <2>2, ChainFacts
<1>2. Clean(s.n)
  BY <1>1 DEF Unreached, Clean
<1>3. Writing(s) /\ wire[1] = r.byte /\ Leads(s, t, first)
  BY <1>0, <1>1, <1>2 DEF CleanOK
<1>4. /\ Mirrors(dec, s.enc)
      /\ Fits(s.enc.packet) /\ s.enc.packet.crc = calcCrc(s.enc.packet) /\ Encoding(s.enc)
      /\ s.enc.packet = sent[s.n]
  BY <1>0, <1>1, <1>3, WritingFits DEF BeforeOK, Writing
<1>5. /\ r.enc.packet = s.enc.packet
      /\ r.err \in {"NOT_DONE", "NONE"}
      /\ r.err = "NONE" => r.enc.state = "IDLE"
  BY <1>1, <1>4, EncodeStep
<1>6. Tracks(q, r)
  <2>1. Tracks(decodeByte(dec, wire[1]), r)
    BY <1>0, <1>1, <1>3, <1>4, DecodeStep
  <2>2. q = decodeByte(dec, wire[1])
    BY <1>0, <1>1, <1>5, <2>1, OneDecoder DEF Tracks
  <2>3. QED
    BY <2>1, <2>2
<1>7. /\ q.err = r.err
      /\ Mirrors(q.dec, r.enc)
      /\ r.err = "NONE" => q.dec.packet = sent[s.n]
  BY <1>4, <1>5, <1>6 DEF Tracks
<1>8. CASE r.err = "NOT_DONE"
  <2>1. t = [enc |-> r.enc, n |-> s.n]
    BY <1>3, <1>8 DEF Leads, Follows
  <2>2. QED
    BY <1>7, <1>8, <2>1
<1>9. CASE r.err = "NONE"
  <2>1. CASE Follows(s, t)
    <3>1. t.enc.state = "IDLE" /\ t.n = s.n + 1
      BY <1>9, <2>1 DEF Follows
    <3>2. Mirrors(q.dec, t.enc)
      BY <1>5, <1>7, <1>9, <3>1 DEF Mirrors
    <3>3. QED
      BY <1>7, <1>9, <3>1, <3>2
  <2>2. CASE first = s.n + 1 /\ t.n > s.n
    BY <1>7, <1>9, <2>2
  <2>3. QED
    BY <1>3, <2>1, <2>2 DEF Leads
<1>10. QED
  BY <1>5, <1>8, <1>9

(***************************************************************************)
(* The byte of a packet after the last one hit, read by the Python decoder.*)
(***************************************************************************)
LEMMA ReadAfter ==
  ASSUME NoisyInv, dir = "toHost", src # <<>>, wire # <<>>, src[1].n > last
  PROVE  LET s == src[1]
             t == Chain[2]
             q == Decoded(wire[1])
         IN  /\ \/ t.n = s.n
                \/ t.n = s.n + 1 /\ t.enc.state = "IDLE"
             /\ s.n = last + 1 /\ t.n = s.n => Resyncing(q.dec, t.enc)
             /\ s.n = last + 1 /\ t.n # s.n => Synced(q.dec, t.enc)
             /\ s.n > last + 1 =>
                  /\ Synced(q.dec, t.enc)
                  /\ t.n = s.n => q.err = "NOT_DONE"
                  /\ t.n # s.n => q.err = "NONE" /\ q.dec.packet = sent[s.n]
<1> DEFINE s == src[1]
           t == Chain[2]
           r == encodeByte(s.enc)
           q == Decoded(wire[1])
<1>0. /\ TypeOK /\ SentOK /\ Sound(dec) /\ CleanOK /\ RecoveryOK /\ Marks
  BY DEF NoisyInv, SidesOK
<1>1. /\ Len(src) \in Nat \ {0} /\ 1 \in 1..Len(src) /\ Chain[1] = s
      /\ s.enc \in EncoderType /\ s.n \in Nat /\ wire[1] \in Byte
  <2>1. /\ src \in Seq([enc : EncoderType, n : Nat]) /\ wire \in Seq(Byte)
        /\ Len(src) = Len(wire)
    BY <1>0 DEF TypeOK
  <2>2. Len(src) \in Nat \ {0} /\ 1 \in 1..Len(src) /\ wire[1] \in Byte
    BY <2>1, TailFacts
  <2>3. QED
    BY <1>0, <2>2, ChainFacts
<1>2. Clean(s.n)
  BY DEF Clean
<1>3. Writing(s) /\ wire[1] = r.byte /\ Leads(s, t, first)
  BY <1>0, <1>1, <1>2 DEF CleanOK
<1>4. /\ Fits(s.enc.packet) /\ s.enc.packet.crc = calcCrc(s.enc.packet) /\ Encoding(s.enc)
      /\ s.enc.packet = sent[s.n]
  BY <1>0, <1>3, WritingFits DEF Writing
<1>5. /\ r.err \in {"NOT_DONE", "NONE"}
      /\ r.err = "NONE" => r.enc.state = "IDLE"
  BY <1>1, <1>4, EncodeStep
<1>6. q = decode_byte(dec, r.byte)
  BY <1>3 DEF Decoded
<1>7. /\ r.err = "NOT_DONE" => t = [enc |-> r.enc, n |-> s.n]
      /\ r.err # "NOT_DONE" => t.enc.state = "IDLE" /\ t.n = s.n + 1
  <2>1. first # s.n + 1
    BY <1>0, <1>1 DEF Marks
  <2>2. Follows(s, t)
    BY <1>3, <2>1 DEF Leads
  <2>3. QED
    BY <2>2 DEF Follows
<1>8. /\ r.err = "NOT_DONE" => t.n = s.n /\ t.enc = r.enc
      /\ t.n = s.n <=> r.err = "NOT_DONE"
  BY <1>1, <1>7
<1>9. CASE s.n = last + 1
  <2>1. Resyncing(dec, s.enc)
    BY <1>0, <1>1, <1>9 DEF RecoveryOK
  <2>2. /\ r.err = "NOT_DONE" => Resyncing(q.dec, r.enc)
        /\ r.err # "NOT_DONE" => ~q.dec.escape /\ q.dec.state \in {"IDLE", "COMMAND"}
    BY <1>0, <1>1, <1>4, <1>6, <2>1, ResyncStep
  <2>3. r.err # "NOT_DONE" => Synced(q.dec, t.enc)
    BY <1>7, <2>2 DEF Synced, Mirrors
  <2>4. ~(s.n > last + 1)
    BY <1>0, <1>9 DEF Marks
  <2>5. QED
    BY <1>7, <1>8, <2>2, <2>3, <2>4
<1>10. CASE s.n # last + 1
  <2>1. s.n > last + 1
    BY <1>0, <1>1, <1>10 DEF Marks
  <2>2. Synced(dec, s.enc)
    BY <1>0, <1>1, <2>1 DEF RecoveryOK
  <2>3. /\ q.err = r.err
        /\ Mirrors(q.dec, r.enc)
        /\ r.err = "NONE" => q.dec.packet = s.enc.packet
    BY <1>0, <1>1, <1>4, <1>6, <2>2, SyncedStep
  <2>4. Synced(q.dec, t.enc)
    <3>1. CASE r.err = "NOT_DONE"
      BY <1>8, <2>3, <3>1 DEF Synced
    <3>2. CASE r.err = "NONE"
      BY <1>5, <1>7, <2>3, <3>2 DEF Synced, Mirrors
    <3>3. QED
      BY <1>5, <3>1, <3>2
  <2>5. QED
    BY <1>4, <1>5, <1>7, <1>8, <1>10, <2>3, <2>4
<1>11. QED
  BY <1>9, <1>10

\* One byte read: what has been received, and what will be, is as it was.
LEMMA NoisyProcessByte ==
  ASSUME NoisyInv, ProcessByte, UNCHANGED noise
  PROVE  NoisyInv'
<1> DEFINE L == Len(src)
           q == Decoded(wire[1])
<1>0. /\ SidesOK /\ Marks /\ Ordered /\ CleanOK /\ BeforeOK /\ AfterOK /\ RecoveryOK
      /\ TypeOK /\ SentOK /\ Sound(dec)
  BY DEF NoisyInv, SidesOK
<1>1. /\ wire # <<>> /\ wire' = Tail(wire) /\ src' = Tail(src)
      /\ dir' = dir /\ enc' = enc /\ busy' = busy /\ sent' = sent
      /\ faults' = faults /\ first' = first /\ last' = last
  BY DEF ProcessByte, noise
<1>2. /\ L \in Nat \ {0} /\ 1 \in 1..L
      /\ Head(wire) = wire[1] /\ wire[1] \in Byte
      /\ wire' \in Seq(Byte) /\ src' \in Seq([enc : EncoderType, n : Nat])
      /\ Len(wire') = L - 1 /\ Len(src') = L - 1 /\ Len(wire') <= WireCap
      /\ \A i \in 1..(L - 1) : src'[i] = src[i + 1] /\ wire'[i] = wire[i + 1]
      /\ Current' = Current
      /\ \A i \in 1..L : Chain'[i] = Chain[i + 1]
  <2>1. /\ L \in Nat \ {0}
        /\ Head(wire) = wire[1] /\ wire[1] \in Byte
        /\ wire' \in Seq(Byte) /\ src' \in Seq([enc : EncoderType, n : Nat])
        /\ Len(wire') = L - 1 /\ Len(src') = L - 1 /\ Len(wire') <= WireCap
        /\ \A i \in 1..(L - 1) : src'[i] = src[i + 1] /\ wire'[i] = wire[i + 1]
        /\ Current' = Current
        /\ \A i \in 1..L : Chain'[i] = Chain[i + 1]
    BY <1>0, <1>1, ChainShrinks
  <2>2. QED
    BY <2>1
<1>3. /\ dec' = q.dec /\ err' = q.err
      /\ rcvd' = IF q.err = "NONE" THEN Append(rcvd, q.dec.packet) ELSE rcvd
  BY <1>2 DEF ProcessByte
<1>4. Sound(q.dec) /\ q.err \in Error /\ q.dec \in DecoderType /\ q.dec.packet \in PacketType
  <2>1. Sound(q.dec) /\ q.err \in Error
    BY <1>0, <1>2, ReaderStep
  <2>2. QED
    BY <2>1 DEF Sound, DecoderType
<1>5. rcvd \in Seq(PacketType) /\ Len(rcvd) \in Nat /\ Len(sent) \in Nat
  BY <1>0 DEF TypeOK
<1>6. \/ q.err # "NONE" /\ rcvd' = rcvd
      \/ /\ q.err = "NONE"
         /\ rcvd' \in Seq(PacketType) /\ Len(rcvd') = Len(rcvd) + 1
         /\ \A i \in 1..Len(rcvd) : rcvd'[i] = rcvd[i]
         /\ rcvd'[Len(rcvd) + 1] = q.dec.packet
  BY <1>3, <1>4, <1>5, AppendFacts
<1> HIDE DEF q
<1>7. PICK n \in Nat, m \in Nat, k \in Nat :
        /\ n = Chain[1].n /\ n = src[1].n /\ m = Chain[2].n /\ m = Chain'[1].n /\ k = Len(rcvd)
        /\ n <= m /\ n # 0
        /\ Chain[1] = src[1] /\ Chain'[1] = Chain[2]
  <2>1. 1 \in 1..(L + 1) /\ 2 \in 1..(L + 1) /\ 1 <= 2
    BY <1>2
  <2>2. /\ Chain[1].n \in Nat /\ Chain[2].n \in Nat /\ Chain[1].n <= Chain[2].n /\ Chain[1].n # 0
    BY <1>0, <2>1, Numbers DEF Ordered
  <2>3. Chain'[1] = Chain[1 + 1] /\ Chain[1] = src[1]
    BY <1>0, <1>2, ChainFacts
  <2>4. QED
    BY <1>5, <2>2, <2>3
<1>8. src # <<>>
  BY <1>2
<1>9. SidesOK'
  <2>1. rcvd' \in Seq(PacketType)
    BY <1>5, <1>6
  <2>2. Len(src') = Len(wire')
    BY <1>2
  <2>3. TypeOK'
    BY <1>0, <1>1, <1>2, <1>3, <1>4, <2>1, <2>2 DEF TypeOK
  <2>4. SentOK' /\ Sound(dec')
    BY <1>0, <1>1, <1>3, <1>4 DEF SentOK
  <2>5. (IF busy THEN Writing(Current) ELSE enc.state = "IDLE")'
    BY <1>0, <1>1, <1>2 DEF SidesOK, Writing
  <2>6. QED
    BY <2>3, <2>4, <2>5 DEF SidesOK
<1>10. Marks'
  BY <1>0, <1>1, <1>2 DEF Marks
<1>11. Ordered'
  <2>1. Chain'[1].n # 0
    BY <1>7
  <2>2. ASSUME NEW i \in 1..L, NEW j \in 1..L, i <= j
        PROVE  Chain'[i].n <= Chain'[j].n
    <3>1. L \in Nat
      BY <1>2
    <3>2. i + 1 \in 1..(L + 1) /\ j + 1 \in 1..(L + 1) /\ i + 1 <= j + 1
      BY <2>2, <3>1
    <3>3. Chain'[i] = Chain[i + 1] /\ Chain'[j] = Chain[j + 1]
      BY <1>2
    <3>4. Chain[i + 1].n <= Chain[j + 1].n
      BY <1>0, <3>2 DEF Ordered
    <3>5. QED
      BY <3>3, <3>4
  <2>3. Len(src') + 1 = L
    BY <1>2
  <2>4. QED
    BY <2>1, <2>2, <2>3 DEF Ordered
<1>12. CleanOK'
  <2> SUFFICES ASSUME NEW i \in 1..Len(src')
               PROVE  /\ Clean(src[i].n)' => /\ Writing(src[i])'
                                            /\ wire'[i] = encodeByte(src'[i].enc).byte
                                            /\ Leads(src'[i], Chain'[i + 1], first')
                      /\ src'[i].n <= last' /\ Chain'[i + 1].n > last' =>
                           Resumes(Chain'[i + 1], last')
    BY DEF CleanOK
  <2>1. /\ i + 1 \in 1..L /\ i \in 1..(L - 1)
        /\ src'[i] = src[i + 1] /\ wire'[i] = wire[i + 1] /\ Chain'[i + 1] = Chain[(i + 1) + 1]
    BY <1>2
  <2>2. Clean(src[i].n)' <=> Clean(src[i + 1].n)
    BY <1>1, <2>1 DEF Clean
  <2>3. Writing(src[i + 1]) => Writing(src[i])'
    BY <1>1, <2>1 DEF Writing
  <2>4. QED
    BY <1>0, <1>1, <2>1, <2>2, <2>3 DEF CleanOK
<1>13. Unreached => \/ q.err = "NOT_DONE" /\ m = n /\ Mirrors(q.dec, Chain[2].enc)
                    \/ /\ q.err = "NONE" /\ q.dec.packet = sent[n]
                       /\ \/ m = n + 1 /\ Mirrors(q.dec, Chain[2].enc)
                          \/ m > n /\ first = n + 1
  BY <1>1, <1>7, <1>8, ReadBefore DEF q
<1>14. /\ Unreached <=> (first = 0 \/ n < first)
       /\ Unreached' <=> (first = 0 \/ m < first)
       /\ first \in Nat /\ last \in Nat
  BY <1>0, <1>1, <1>7 DEF Unreached, Marks
<1>15. ASSUME Unreached
       PROVE  k = n - 1 /\ \A i \in 1..k : rcvd[i] = sent[i]
  BY <1>7, <1>15, <1>0 DEF BeforeOK
<1>16. BeforeOK'
  <2> SUFFICES ASSUME Unreached'
               PROVE  /\ Mirrors(dec', Chain'[1].enc)
                      /\ Len(rcvd') = m - 1
                      /\ \A i \in 1..Len(rcvd') : rcvd'[i] = sent[i]
    BY <1>1, <1>7 DEF BeforeOK
  <2>1. Unreached
    BY <1>7, <1>14
  <2>2. CASE q.err = "NOT_DONE" /\ m = n /\ Mirrors(q.dec, Chain[2].enc)
    <3>1. rcvd' = rcvd /\ Len(rcvd) = k
      BY <1>6, <1>7, <2>2
    <3>2. QED
      BY <1>3, <1>7, <1>15, <2>1, <2>2, <3>1
  <2>3. CASE /\ q.err = "NONE" /\ q.dec.packet = sent[n]
             /\ \/ m = n + 1 /\ Mirrors(q.dec, Chain[2].enc)
                \/ m > n /\ first = n + 1
    <3>1. ~(m > n /\ first = n + 1)
      BY <1>14
    <3>2. m = n + 1 /\ Mirrors(q.dec, Chain[2].enc)
      BY <2>3, <3>1
    <3>3. /\ Len(rcvd') = k + 1 /\ k = n - 1
          /\ \A i \in 1..k : rcvd'[i] = sent[i]
          /\ rcvd'[k + 1] = sent[n]
      BY <1>6, <1>7, <1>15, <2>1, <2>3
    <3>4. ASSUME NEW i \in 1..(k + 1)
          PROVE  rcvd'[i] = sent[i]
      BY <3>3
    <3>5. QED
      BY <1>3, <1>7, <3>2, <3>3, <3>4
  <2>4. QED
    BY <1>13, <2>1, <2>2, <2>3
<1>17. AfterOK'
  <2> SUFFICES ASSUME ~Unreached'
               PROVE  /\ Len(rcvd') >= first - 1
                      /\ \A i \in 1..(first - 1) : rcvd'[i] = sent[i]
    BY <1>1 DEF AfterOK
  <2>1. CASE Unreached
    <3>1. q.err = "NONE" /\ q.dec.packet = sent[n] /\ (m = n + 1 \/ (m > n /\ first = n + 1))
      <4>1. ~(m = n)
        BY <1>14, <2>1
      <4>2. QED
        BY <1>13, <2>1, <4>1
    <3>2. first = n + 1
      BY <1>14, <2>1, <3>1
    <3>3. /\ Len(rcvd') = k + 1 /\ k = n - 1
          /\ \A i \in 1..k : rcvd'[i] = sent[i]
          /\ rcvd'[k + 1] = sent[n]
      BY <1>6, <1>7, <1>15, <2>1, <3>1
    <3>4. ASSUME NEW i \in 1..(first - 1)
          PROVE  rcvd'[i] = sent[i]
      BY <3>2, <3>3
    <3>5. QED
      BY <3>2, <3>3, <3>4
  <2>2. CASE ~Unreached
    <3>1. Len(rcvd) >= first - 1 /\ \A i \in 1..(first - 1) : rcvd[i] = sent[i]
      BY <1>0, <2>2 DEF AfterOK
    <3>2. CASE rcvd' = rcvd
      BY <3>1, <3>2
    <3>3. CASE Len(rcvd') = Len(rcvd) + 1 /\ \A i \in 1..Len(rcvd) : rcvd'[i] = rcvd[i]
      <4>1. Len(rcvd') >= first - 1
        BY <1>5, <1>14, <3>1, <3>3
      <4>2. ASSUME NEW i \in 1..(first - 1)
            PROVE  rcvd'[i] = sent[i]
        <5>1. i \in 1..Len(rcvd)
          BY <1>5, <1>14, <3>1
        <5>2. QED
          BY <3>1, <3>3, <5>1
      <4>3. QED
        BY <4>1, <4>2
    <3>4. QED
      BY <1>6, <3>2, <3>3
  <2>3. QED
    BY <2>1, <2>2
<1>18. RecoveryOK'
  <2> SUFFICES ASSUME dir = "toHost"
               PROVE  /\ m = last + 1 => Resyncing(dec', Chain'[1].enc)
                      /\ m > last + 1 =>
                           /\ Synced(dec', Chain'[1].enc)
                           /\ Len(rcvd') >= m - last - 2
                           /\ \A i \in (last + 2)..(m - 1) :
                                rcvd'[Len(rcvd') - (m - 1) + i] = sent[i]
    BY <1>1, <1>7 DEF RecoveryOK
  <2>1. CASE n <= last
    <3>1. m > last => Resumes(Chain[2], last)
      BY <1>0, <1>2, <1>7, <2>1 DEF CleanOK
    <3>2. ~(m > last + 1)
      BY <1>7, <1>14, <3>1 DEF Resumes
    <3>3. m = last + 1 => Resyncing(dec', Chain'[1].enc)
      BY <1>7, <1>14, <3>1 DEF Resumes, Resyncing
    <3>4. QED
      BY <3>2, <3>3
  <2>2. CASE n > last
    <3>1. /\ m = n \/ (m = n + 1 /\ Chain[2].enc.state = "IDLE")
          /\ n = last + 1 /\ m = n => Resyncing(q.dec, Chain[2].enc)
          /\ n = last + 1 /\ m # n => Synced(q.dec, Chain[2].enc)
          /\ n > last + 1 =>
               /\ Synced(q.dec, Chain[2].enc)
               /\ m = n => q.err = "NOT_DONE"
               /\ m # n => q.err = "NONE" /\ q.dec.packet = sent[n]
      BY <1>1, <1>7, <1>8, <2>2, ReadAfter DEF q
    <3>2. CASE n = last + 1
      <4>1. m = last + 1 \/ m = last + 2
        <5>1. m = n \/ m = n + 1
          BY <3>1, Zenon
        <5>2. QED
          BY <1>14, <3>2, <5>1
      <4>2. m = last + 1 => Resyncing(dec', Chain'[1].enc)
        BY <1>3, <1>7, <3>1, <3>2
      <4>3. ASSUME m > last + 1
            PROVE  /\ Synced(dec', Chain'[1].enc)
                   /\ Len(rcvd') >= m - last - 2
                   /\ \A i \in (last + 2)..(m - 1) :
                        rcvd'[Len(rcvd') - (m - 1) + i] = sent[i]
        <5>1. m = last + 2 /\ m # n
          BY <1>14, <3>2, <4>1, <4>3
        <5>2. Synced(dec', Chain'[1].enc)
          BY <1>3, <1>7, <3>1, <3>2, <5>1
        <5>3. Len(rcvd') \in Nat
          BY <1>5, <1>6
        <5>4. (last + 2)..(m - 1) = {}
          BY <1>14, <5>1
        <5>5. Len(rcvd') >= m - last - 2
          BY <1>14, <5>1, <5>3
        <5>6. QED
          BY <5>2, <5>4, <5>5
      <4>4. QED
        BY <4>2, <4>3
    <3>3. CASE n # last + 1
      <4>1. n > last + 1
        BY <1>14, <2>2, <3>3
      <4>2. /\ k >= n - last - 2
            /\ \A i \in (last + 2)..(n - 1) : rcvd[k - (n - 1) + i] = sent[i]
        BY <1>0, <1>7, <4>1 DEF RecoveryOK
      <4>3. Synced(dec', Chain'[1].enc)
        BY <1>3, <1>7, <3>1, <4>1
      <4>4. CASE m = n
        <5>1. rcvd' = rcvd
          BY <1>6, <3>1, <4>1, <4>4
        <5>2. ~(m = last + 1) /\ Len(rcvd') = k
          BY <1>7, <1>14, <4>1, <4>4, <5>1
        <5>3. /\ k >= m - last - 2
              /\ \A i \in (last + 2)..(m - 1) : rcvd'[k - (m - 1) + i] = sent[i]
          BY <4>2, <4>4, <5>1
        <5>4. QED
          BY <4>3, <5>2, <5>3
      <4>5. CASE m = n + 1
        <5>1. q.err = "NONE" /\ q.dec.packet = sent[n]
          BY <3>1, <4>1, <4>5
        <5>2. /\ Len(rcvd') = k + 1
              /\ \A i \in 1..k : rcvd'[i] = rcvd[i]
              /\ rcvd'[k + 1] = sent[n]
          BY <1>6, <1>7, <5>1
        <5>3. k + 1 >= m - last - 2
          BY <1>14, <4>2, <4>5
        <5>4. ASSUME NEW i \in (last + 2)..(m - 1)
              PROVE  rcvd'[(k + 1) - (m - 1) + i] = sent[i]
          <6>1. CASE i = n
            <7>1. (k + 1) - (m - 1) + i = k + 1
              BY <4>5, <6>1
            <7>2. QED
              BY <5>2, <6>1, <7>1
          <6>2. CASE i # n
            <7>1. i \in (last + 2)..(n - 1)
              BY <1>14, <4>5, <6>2
            <7>2. (k + 1) - (m - 1) + i = k - (n - 1) + i
              BY <1>14, <4>5
            <7>3. k - (n - 1) + i \in 1..k
              BY <1>14, <4>2, <7>1
            <7>4. QED
              BY <4>2, <5>2, <7>1, <7>2, <7>3
          <6>3. QED
            BY <6>1, <6>2
        <5>5. ~(m = last + 1)
          BY <1>14, <4>1, <4>5
        <5>6. QED
          BY <4>3, <5>2, <5>3, <5>4, <5>5
      <4>6. QED
        BY <3>1, <4>4, <4>5
    <3>4. QED
      BY <3>2, <3>3
  <2>3. QED
    BY <1>14, <2>1, <2>2
<1>19. QED
  BY <1>9, <1>10, <1>11, <1>12, <1>16, <1>17, <1>18 DEF NoisyInv
-----------------------------------------------------------------------------
\* Nothing is in flight, nothing is hit, and the first packet is about to be written.
LEMMA NoisyInitial == NoisyInit => NoisyInv
<1> SUFFICES ASSUME NoisyInit
             PROVE  NoisyInv
  OBVIOUS
<1>1. Init /\ faults = 0 /\ first = 0 /\ last = 0
  BY DEF NoisyInit
<1>2. TypeOK /\ SentOK /\ ReaderOK /\ ~busy /\ wire = <<>>
  BY <1>1, InitIInv DEF IInv, Init
<1>3. enc.state = "IDLE" /\ dec.state = "IDLE" /\ ~dec.escape /\ Len(dec.packet.data) = 0
  <2>1. PICK crc \in Uninit, char \in Uninit :
          /\ enc = [packet     |-> BlankPacket(crc),
                    state      |-> "IDLE",
                    encodeIdx  |-> 0,
                    escapeChar |-> char]
          /\ dec = [packet |-> BlankPacket(crc), state |-> "IDLE", escape |-> FALSE]
    BY <1>1 DEF Init
  <2>2. QED
    BY <2>1 DEF BlankPacket
<1>4. Len(src) = 0 /\ Len(sent) = 0 /\ Len(rcvd) = 0
  BY <1>1 DEF Init
<1>5. Chain[1] = Current /\ Current.enc = enc /\ Current.n = 1
  BY <1>2, <1>4, ChainFacts
<1>6. SidesOK
  BY <1>2, <1>3, MaxDataLenAssumption DEF SidesOK, Sound, TypeOK
<1>7. Marks
  BY <1>1, <1>5 DEF Marks
<1>8. Ordered
  <2>1. \A i \in 1..(Len(src) + 1) : i = 1
    BY <1>4
  <2>2. Chain[1].n = 1
    BY <1>5
  <2>3. QED
    BY <2>1, <2>2 DEF Ordered
<1>9. CleanOK
  BY <1>4 DEF CleanOK
<1>10. BeforeOK /\ AfterOK
  BY <1>1, <1>2, <1>4 DEF BeforeOK, AfterOK, Unreached, ReaderOK
<1>11. RecoveryOK
  BY <1>1, <1>3, <1>5 DEF RecoveryOK, Resyncing
<1>12. QED
  BY <1>6, <1>7, <1>8, <1>9, <1>10, <1>11 DEF NoisyInv

\* NoisyInv is inductive.
LEMMA NextNoisyInv == NoisyInv /\ [NoisyNext]_noisyVars => NoisyInv'
<1> SUFFICES ASSUME NoisyInv, [NoisyNext]_noisyVars
             PROVE  NoisyInv'
  OBVIOUS
<1>1. CASE Next /\ UNCHANGED noise
  <2>1. CASE WriteByte
    BY <1>1, <2>1, NoisyWriteByte
  <2>2. CASE ProcessByte
    BY <1>1, <2>2, NoisyProcessByte
  <2>3. ASSUME NEW p \in Payload, WritePacket(p)
        PROVE  NoisyInv'
    BY <1>1, <2>3, NoisyWritePacket
  <2>4. QED
    BY <1>1, <2>1, <2>2, <2>3 DEF Next
<1>2. CASE LoseByte
  BY <1>2, NoisyLoseByte
<1>3. CASE ChangeByte
  BY <1>3, NoisyChangeByte
<1>4. CASE AddByte
  BY <1>4, NoisyAddByte
<1>5. CASE UNCHANGED noisyVars
  BY <1>5 DEF noisyVars, noise, vars, NoisyInv, SidesOK, TypeOK, SentOK, Writing, Current, Chain,
              Marks, Ordered, CleanOK, Clean, BeforeOK, AfterOK, Unreached, RecoveryOK
<1>6. QED
  BY <1>1, <1>2, <1>3, <1>4, <1>5 DEF NoisyNext

(***************************************************************************)
(* On a line that loses, changes and adds bytes: the packets that no fault *)
(* hit are in flight as written, the reader has received those written     *)
(* before the first one hit, and past the last one hit it is coming back   *)
(* or has come back.                                                       *)
(***************************************************************************)
THEOREM NoisyInductive == NoisySpec => []NoisyInv
<1>1. QED
  BY NoisyInitial, NextNoisyInv, PTL DEF NoisySpec

(***************************************************************************)
(* Whatever bytes the line loses, changes or adds, the C++ and the Python  *)
(* decoder, the encoder and the packets received keep their types, and the *)
(* decoder never stores past its buffer.                                   *)
(***************************************************************************)
THEOREM SoundOnAnyLine == NoisySpec => [](TypeOK /\ Sound(dec))
<1>1. NoisyInv => TypeOK /\ Sound(dec)
  BY DEF NoisyInv, SidesOK
<1>2. QED
  BY <1>1, NoisyInductive, PTL
-----------------------------------------------------------------------------
\* With nothing in flight the reader has come to where the writer stands.
LEMMA AtRest ==
  ASSUME NoisyInv, Quiet
  PROVE  /\ Len(sent) \in Nat /\ Len(rcvd) \in Nat
         /\ sent \in Seq(PacketType) /\ rcvd \in Seq(PacketType)
         /\ Chain[1].n = Len(sent) + 1
<1>1. TypeOK
  BY DEF NoisyInv, SidesOK
<1>2. Len(src) = 0 /\ ~busy
  BY <1>1 DEF TypeOK, Quiet
<1>3. Chain[1] = Current /\ Current.n = Len(sent) + 1
  BY <1>1, <1>2, ChainFacts
<1>4. QED
  BY <1>1, <1>3 DEF TypeOK

(***************************************************************************)
(* A fault reaches neither back in time nor across an intact stream: the   *)
(* packets written before the first one hit are received as written.       *)
(***************************************************************************)
THEOREM FaultsStayPut == NoisySpec => []Unhit
<1>1. NoisyInv => Unhit
  <2> SUFFICES ASSUME NoisyInv
               PROVE  Unhit
    OBVIOUS
  <2> DEFINE sound == IF first = 0 THEN Len(sent) ELSE first - 1
  <2>0. SidesOK /\ Ordered /\ Marks /\ BeforeOK /\ AfterOK
    BY DEF NoisyInv
  <2>1. PICK n \in Nat, k \in Nat, l \in Nat :
          n = Chain[1].n /\ n # 0 /\ k = Len(rcvd) /\ l = Len(sent) /\ n <= l + 1
    <3>1. /\ Chain[1].n \in Nat /\ Chain[1].n <= Current.n /\ Current.n <= Len(sent) + 1
          /\ Current.n \in Nat /\ Len(sent) \in Nat /\ Len(rcvd) \in Nat
      BY <2>0, Numbers
    <3>2. Chain[1].n # 0
      BY <2>0 DEF Ordered
    <3>3. QED
      BY <3>1, <3>2
  <2>2. first \in Nat
    BY <2>0 DEF Marks
  <2>3. Quiet => n = l + 1
    BY <2>1, AtRest
  <2>4. CASE Unreached
    <3>1. first = 0 \/ n < first
      BY <2>1, <2>4 DEF Unreached
    <3>2. k = n - 1 /\ \A i \in 1..k : rcvd[i] = sent[i]
      BY <2>0, <2>1, <2>4 DEF BeforeOK
    <3>3. \A i \in 1..sound : i <= k => rcvd[i] = sent[i]
      BY <2>1, <2>2, <3>2
    <3>4. ASSUME Quiet
          PROVE  k >= sound
      <4>1. n = l + 1
        BY <2>3, <3>4
      <4>2. first # 0 => first <= l + 1
        <5>1. last <= Current.n /\ Current.n <= Len(sent) + 1
          BY <2>0, Numbers DEF Marks
        <5>2. first <= last /\ last \in Nat /\ Current.n \in Nat
          BY <2>0, Numbers DEF Marks
        <5>3. QED
          BY <2>1, <2>2, <5>1, <5>2
      <4>3. first = 0
        BY <2>1, <2>2, <3>1, <4>1, <4>2
      <4>4. QED
        BY <2>1, <3>2, <4>1, <4>3
    <3>5. QED
      BY <2>1, <3>3, <3>4 DEF Unhit
  <2>5. CASE ~Unreached
    <3>1. first # 0
      BY <2>5 DEF Unreached
    <3>2. k >= first - 1 /\ \A i \in 1..(first - 1) : rcvd[i] = sent[i]
      BY <2>0, <2>1, <2>5 DEF AfterOK
    <3>3. QED
      BY <2>1, <3>1, <3>2 DEF Unhit
  <2>6. QED
    BY <2>4, <2>5
<1>2. QED
  BY <1>1, NoisyInductive, PTL

(***************************************************************************)
(* The Python decoder recovers: a fault costs the host the packet it hits  *)
(* and at most the one that follows, whatever the faulty bytes are taken   *)
(* for, a packet with a good CRC included.                                 *)
(***************************************************************************)
THEOREM HostComesBack == NoisySpec => []HostRecovers
<1>1. NoisyInv => HostRecovers
  <2> SUFFICES ASSUME NoisyInv, Quiet, dir = "toHost"
               PROVE  Ends(SubSeq(sent, last + 2, Len(sent)), rcvd)
    BY DEF HostRecovers
  <2>0. Marks /\ RecoveryOK
    BY DEF NoisyInv
  <2>1. PICK k \in Nat, l \in Nat :
          /\ k = Len(rcvd) /\ l = Len(sent) /\ Chain[1].n = l + 1
          /\ sent \in Seq(PacketType) /\ rcvd \in Seq(PacketType)
    BY AtRest
  <2>2. last \in Nat
    BY <2>0 DEF Marks
  <2> DEFINE a == SubSeq(sent, last + 2, Len(sent))
             b == SubSeq(rcvd, Len(rcvd) - Len(a) + 1, Len(rcvd))
  <2>3. CASE last + 2 <= l
    <3>1. /\ k >= l - last - 1
          /\ \A i \in (last + 2)..l : rcvd[k - l + i] = sent[i]
      BY <2>0, <2>1, <2>2, <2>3 DEF RecoveryOK
    <3>2. /\ \A i \in (last + 2)..l : sent[i] \in PacketType
          /\ \A i \in (k - (l - last - 1) + 1)..k : rcvd[i] \in PacketType
      BY <2>1, <2>2, <3>1, ElementOfSeq
    <3>3. /\ a \in Seq(PacketType) /\ Len(a) = l - last - 1
          /\ \A i \in 1..(l - last - 1) : a[i] = sent[last + 1 + i]
      <4>1. /\ a \in Seq(PacketType)
            /\ Len(a) = l - (last + 2) + 1
            /\ \A i \in 1..(l - (last + 2) + 1) : a[i] = sent[(last + 2) + i - 1]
        BY <2>1, <2>2, <2>3, <3>2, SubSeqProperties
      <4>2. QED
        BY <2>1, <2>2, <4>1
    <3> HIDE DEF a
    <3>4. /\ b \in Seq(PacketType) /\ Len(b) = l - last - 1
          /\ \A i \in 1..(l - last - 1) : b[i] = rcvd[k - (l - last - 1) + i]
      <4> DEFINE j == k - (l - last - 1) + 1
      <4>1. b = SubSeq(rcvd, j, k) /\ j \in Int /\ j <= k
        BY <2>1, <2>2, <2>3, <3>3
      <4>2. /\ SubSeq(rcvd, j, k) \in Seq(PacketType)
            /\ Len(SubSeq(rcvd, j, k)) = k - j + 1
            /\ \A i \in 1..(k - j + 1) : SubSeq(rcvd, j, k)[i] = rcvd[j + i - 1]
        BY <3>2, <4>1, SubSeqProperties
      <4>3. /\ k - j + 1 = l - last - 1
            /\ \A i \in 1..(l - last - 1) : j + i - 1 = k - (l - last - 1) + i
        BY <2>1, <2>2
      <4> HIDE DEF j
      <4>4. QED
        BY <4>1, <4>2, <4>3
    <3> HIDE DEF b
    <3>5. ASSUME NEW i \in 1..(l - last - 1)
          PROVE  b[i] = a[i]
      <4>1. last + 1 + i \in (last + 2)..l
        BY <2>1, <2>2
      <4>2. k - l + (last + 1 + i) = k - (l - last - 1) + i
        BY <2>1, <2>2
      <4>3. QED
        BY <3>1, <3>3, <3>4, <4>1, <4>2
    <3>6. b = a
      BY <3>3, <3>4, <3>5, SeqEqual
    <3>7. QED
      BY <2>1, <3>1, <3>3, <3>6 DEF Ends, a, b
  <2>4. CASE ~(last + 2 <= l)
    <3>1. a = <<>>
      BY <2>1, <2>2, <2>4, SubSeqEmpty
    <3> HIDE DEF a
    <3>2. Len(a) = 0
      BY <3>1
    <3>3. b = <<>>
      BY <2>1, <3>2, SubSeqEmpty
    <3> HIDE DEF b
    <3>4. Len(a) <= Len(rcvd) /\ b = a
      BY <2>1, <3>1, <3>2, <3>3
    <3>5. QED
      BY <3>4 DEF Ends, a, b
  <2>5. QED
    BY <2>3, <2>4
<1>2. QED
  BY <1>1, NoisyInductive, PTL
==============================================================================
