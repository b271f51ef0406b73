---------------------------- MODULE CodecProofs ----------------------------
(***************************************************************************)
(* What the proofs about links and decoders need of the codec: the two     *)
(* languages agree, a CRC is a byte, and no byte whatsoever takes a        *)
(* decoder out of its type or its buffer.                                  *)
(***************************************************************************)
EXTENDS PyPacketEncoder, PyPacketDecoder, SequenceTheorems, TLAPS

\* A packet with room for its CRC.
Fits(pkt) == pkt \in PacketType /\ Len(pkt.data) < MaxDataLen

(***************************************************************************)
(* What Append and Tail do to the elements of a sequence.                  *)
(***************************************************************************)
LEMMA SeqElement ==
  ASSUME NEW S, NEW s \in Seq(S), NEW i \in 1..Len(s)
  PROVE  s[i] \in S
OBVIOUS

\* A sequence with one more element.
LEMMA AppendFacts ==
  ASSUME NEW S, NEW s \in Seq(S), NEW x
  PROVE  /\ Len(s) \in Nat
         /\ Len(Append(s, x)) = Len(s) + 1
         /\ \A i \in 1..Len(s) : Append(s, x)[i] = s[i]
         /\ Append(s, x)[Len(s) + 1] = x
         /\ x \in S => Append(s, x) \in Seq(S)
OBVIOUS

\* A sequence without its first element.
LEMMA TailFacts ==
  ASSUME NEW S, NEW s \in Seq(S), s # <<>>
  PROVE  /\ Len(s) \in Nat \ {0}
         /\ Head(s) = s[1]
         /\ Head(s) \in S
         /\ Tail(s) \in Seq(S)
         /\ Len(Tail(s)) = Len(s) - 1
         /\ \A i \in 1..(Len(s) - 1) : Tail(s)[i] = s[i + 1]
OBVIOUS

(***************************************************************************)
(* calcCrc (Packet.cpp) yields a byte for every packet that fits.          *)
(***************************************************************************)
LEMMA CrcIsByte ==
  ASSUME NEW pkt \in PacketType, Len(pkt.data) <= MaxDataLen
  PROVE  calcCrc(pkt) \in Byte
<1>1. /\ 0 \in Byte
      /\ pkt.command \in Byte
      /\ pkt.data \in Seq(Byte)
  BY FramingAssumption DEF PacketType
<1>2. 1 \in 0..MaxDataLen /\ <<pkt.command>> \in [1..1 -> Byte]
  BY <1>1, MaxDataLenAssumption
<1>3. Crc8(0, <<pkt.command>>) \in Byte
  BY <1>1, <1>2, Crc8Assumption, Zenon
<1>4. /\ Len(pkt.data) \in 0..MaxDataLen
      /\ pkt.data \in [1..Len(pkt.data) -> Byte]
  BY <1>1, MaxDataLenAssumption
<1>5. QED
  BY <1>3, <1>4, Crc8Assumption DEF calcCrc

(***************************************************************************)
(* The Python encoder (packet_encoder.py) computes what the C++ one does.  *)
(***************************************************************************)
LEMMA EncodersAgree ==
  ASSUME NEW e \in EncoderType
  PROVE  encode_byte(e) = encodeByte(e)
<1>1. CASE e.state = "IDLE"
  BY <1>1 DEF encode_byte, encodeByte, encode_byte_idle, EncoderType
<1>2. CASE e.state = "COMMAND"
  BY <1>2, FramingAssumption
  DEF encode_byte, encodeByte, encode_byte_command, handle_escape, handleEscape
<1>3. CASE e.state = "DATA"
  <2>1. e.encodeIdx \in Nat /\ Len(e.packet.data) \in Nat
    BY DEF EncoderType, PacketType
  <2>2. encode_byte_data(e) = encodeData(e)
    BY <2>1, FramingAssumption
    DEF encode_byte_data, encodeData, handle_escape, handleEscape
  <2>3. QED
    BY <1>3, <2>2 DEF encode_byte, encodeByte
<1>4. CASE e.state = "ESCAPE"
  BY <1>4 DEF encode_byte, encodeByte, encode_byte_escape
<1>5. QED
  BY <1>1, <1>2, <1>3, <1>4 DEF EncoderType, EncoderState

(***************************************************************************)
(* The Python decoder agrees with the C++ one on every byte for which that *)
(* one reports no error.                                                   *)
(***************************************************************************)
LEMMA DecodersAgree ==
  ASSUME NEW d \in DecoderType, NEW b \in Byte,
         decodeByte(d, b).err \in {"NONE", "NOT_DONE"}
  PROVE  decode_byte(d, b) = decodeByte(d, b)
<1> DEFINE n == Len(d.packet.data)
<1>0. /\ n \in Nat
      /\ d.state \in DecoderState
      /\ d.escape \in BOOLEAN
      /\ d.packet = [command |-> d.packet.command, data |-> d.packet.data, crc |-> d.packet.crc]
  BY DEF DecoderType, PacketType
<1>1. CASE d.state = "IDLE"
  BY <1>1 DEF decode_byte, decodeByte, decode_byte_idle, decodeIdle
<1>2. CASE d.state = "COMMAND"
  BY <1>2, <1>0 DEF decode_byte, decodeByte, decode_byte_command, decodeCommand
<1>3. CASE d.state = "DATA"
  <2>1. CASE ~d.escape /\ b = ESC
    BY <1>3, <2>1 DEF decode_byte, decodeByte
  <2>2. CASE IsDelimiter(d, b)
    <3>1. decodeByte(d, b) = decodeEnd(d) /\ decode_byte(d, b) = decode_byte_data_end(d)
      BY <1>3, <2>2, FramingAssumption
      DEF decodeByte, decode_byte, decode_byte_data, IsDelimiter
    <3>2. extract_crc(d.packet) = extractCrc(d.packet)
      BY <1>0 DEF extract_crc, extractCrc
    <3>3. calc_crc(extractCrc(d.packet)) = calcCrc(extractCrc(d.packet))
      BY DEF calc_crc, calcCrc
    <3>4. QED
      BY <1>0, <3>1, <3>2, <3>3 DEF decodeEnd, decode_byte_data_end
  <2>3. CASE ~IsDelimiter(d, b) /\ (d.escape \/ b # ESC)
    BY <1>0, <1>3, <2>3, MaxDataLenAssumption
    DEF decodeByte, decode_byte, decode_byte_data, decodeStore
  <2>4. QED
    BY <2>1, <2>2, <2>3, FramingAssumption DEF IsDelimiter
<1>4. QED
  BY <1>0, <1>1, <1>2, <1>3 DEF DecoderState

-----------------------------------------------------------------------------
\* What no byte takes from a decoder: its buffer is not overrun, and it is between
\* packets only with no escape pending.
Sound(dec) ==
  /\ dec \in DecoderType
  /\ Len(dec.packet.data) <= MaxDataLen
  /\ dec.state = "IDLE" => ~dec.escape

(***************************************************************************)
(* One byte and one decoder.                                               *)
(***************************************************************************)
LEMMA DecoderFields ==
  ASSUME NEW d, Sound(d)
  PROVE  /\ d = Decoder(d.packet, d.state, d.escape)
         /\ d.packet = [command |-> d.packet.command, data |-> d.packet.data,
                        crc |-> d.packet.crc]
         /\ d.packet.command \in Byte /\ d.packet.crc \in Byte
         /\ d.packet.data \in Seq(Byte)
         /\ Len(d.packet.data) \in Nat /\ Len(d.packet.data) <= MaxDataLen
         /\ d.state \in {"IDLE", "COMMAND", "DATA"} /\ d.escape \in BOOLEAN
         /\ d.state = "IDLE" => ~d.escape
BY DEF Sound, DecoderType, PacketType, Decoder, DecoderState

\* A decoder made of sound parts is sound.
LEMMA SoundDecoder ==
  ASSUME NEW pkt \in PacketType, NEW state \in DecoderState, NEW escape \in BOOLEAN,
         Len(pkt.data) <= MaxDataLen, state = "IDLE" => ~escape
  PROVE  Sound(Decoder(pkt, state, escape))
BY DEF Sound, DecoderType, Decoder

\* What an escaped byte stands for is a byte.
LEMMA UnescapedByte ==
  ASSUME NEW d, NEW b \in Byte
  PROVE  Unescape(d, b) \in Byte
BY FramingAssumption DEF Unescape

\* storing a byte, and taking the CRC off the end, on the way to appendByte's assert.
LEMMA StoredByte ==
  ASSUME NEW pkt \in PacketType, NEW b \in Byte, Len(pkt.data) < MaxDataLen
  PROVE  /\ appendByte(pkt, b) \in PacketType
         /\ Len(appendByte(pkt, b).data) <= MaxDataLen
<1>1. pkt.data \in Seq(Byte) /\ Len(pkt.data) \in Nat /\ pkt.command \in Byte /\ pkt.crc \in Byte
  BY DEF PacketType
<1>2. Append(pkt.data, b) \in Seq(Byte) /\ Len(Append(pkt.data, b)) = Len(pkt.data) + 1
  BY <1>1, AppendProperties
<1>3. QED
  BY <1>1, <1>2, MaxDataLenAssumption DEF PacketType, appendByte, setData

\* extractCrc moves the last data byte out, and loses none.
LEMMA Extracted ==
  ASSUME NEW pkt \in PacketType, Len(pkt.data) # 0, Len(pkt.data) <= MaxDataLen
  PROVE  /\ extractCrc(pkt) \in PacketType
         /\ Len(extractCrc(pkt).data) <= MaxDataLen
         /\ extractCrc(pkt).command = pkt.command
         /\ Append(extractCrc(pkt).data, extractCrc(pkt).crc) = pkt.data
<1> DEFINE n == Len(pkt.data)
           front == SubSeq(pkt.data, 1, n - 1)
<1>1. pkt.data \in Seq(Byte) /\ n \in Nat \ {0} /\ pkt.command \in Byte
  BY DEF PacketType
<1>2. \A i \in 1..n : pkt.data[i] \in Byte
  BY <1>1, ElementOfSeq
<1>3. /\ front \in Seq(Byte) /\ Len(front) = n - 1
      /\ \A i \in 1..(n - 1) : front[i] = pkt.data[i]
  <2>1. \A i \in 1..(n - 1) : pkt.data[i] \in Byte
    BY <1>1, <1>2
  <2>2. /\ front \in Seq(Byte)
        /\ Len(front) = IF 1 <= n - 1 THEN n - 1 - 1 + 1 ELSE 0
        /\ \A i \in 1..(n - 1 - 1 + 1) : front[i] = pkt.data[1 + i - 1]
    BY <1>1, <2>1, SubSeqProperties
  <2>3. QED
    BY <1>1, <2>2
<1>4. Append(front, pkt.data[n]) = pkt.data
  <2>1. /\ Append(front, pkt.data[n]) \in Seq(Byte)
        /\ Len(Append(front, pkt.data[n])) = n
        /\ \A i \in 1..(n - 1) : Append(front, pkt.data[n])[i] = front[i]
        /\ Append(front, pkt.data[n])[n] = pkt.data[n]
    BY <1>1, <1>2, <1>3, AppendProperties
  <2>2. \A i \in 1..n : Append(front, pkt.data[n])[i] = pkt.data[i]
    BY <1>1, <1>3, <2>1
  <2>3. QED
    BY <1>1, <2>1, <2>2, SeqEqual
<1>5. QED
  BY <1>1, <1>2, <1>3, <1>4, MaxDataLenAssumption DEF extractCrc, PacketType

\* decodeByte, every branch of it: no stream makes Packet::appendByte's assert fire.
LEMMA CppSound ==
  ASSUME NEW d, Sound(d), NEW b \in Byte
  PROVE  Sound(decodeByte(d, b).dec)
<1>0. /\ d.packet \in PacketType /\ d.packet.command \in Byte /\ d.packet.crc \in Byte
      /\ d.packet.data \in Seq(Byte) /\ Len(d.packet.data) \in Nat
      /\ Len(d.packet.data) <= MaxDataLen
      /\ d.state \in DecoderState /\ d.escape \in BOOLEAN
      /\ d.state = "IDLE" => ~d.escape
  BY DEF Sound, DecoderType, PacketType
<1>1. CASE d.state = "IDLE"
  <2>1. decodeByte(d, b).dec =
          Decoder(d.packet, IF b = END THEN "COMMAND" ELSE "IDLE", d.escape)
    BY <1>1 DEF decodeByte, decodeIdle, NotDone
  <2>2. QED
    BY <1>0, <1>1, <2>1, SoundDecoder DEF DecoderState
<1>2. CASE d.state # "IDLE" /\ ~d.escape /\ b = ESC
  <2>1. decodeByte(d, b).dec = Decoder(d.packet, d.state, TRUE)
    BY <1>2 DEF decodeByte, NotDone
  <2>2. QED
    BY <1>0, <1>2, <2>1, SoundDecoder
<1>3. CASE d.state = "COMMAND" /\ ~(~d.escape /\ b = ESC)
  <2>1. CASE IsDelimiter(d, b)
    <3>1. decodeByte(d, b).dec = d
      BY <1>3, <2>1 DEF decodeByte, decodeCommand, NotDone
    <3>2. QED
      BY <3>1
  <2>2. CASE ~IsDelimiter(d, b)
    <3> DEFINE pkt == setData(setCommand(d.packet, Unescape(d, b)), <<>>)
    <3>1. decodeByte(d, b).dec = Decoder(pkt, "DATA", FALSE)
      BY <1>3, <2>2 DEF decodeByte, decodeCommand, NotDone
    <3>2. pkt \in PacketType /\ Len(pkt.data) <= MaxDataLen
      BY <1>0, UnescapedByte, MaxDataLenAssumption DEF setData, setCommand, PacketType
    <3>3. QED
      BY <3>1, <3>2, SoundDecoder DEF DecoderState
  <2>3. QED
    BY <2>1, <2>2
<1>4. CASE d.state = "DATA" /\ IsDelimiter(d, b)
  <2>1. decodeByte(d, b).dec = decodeEnd(d).dec
    BY <1>4, FramingAssumption DEF decodeByte, IsDelimiter
  <2>2. CASE Len(d.packet.data) = 0
    BY <2>1, <2>2 DEF decodeEnd
  <2>3. CASE Len(d.packet.data) # 0
    <3>1. \E state \in {"IDLE", "DATA"} :
            decodeEnd(d).dec = Decoder(extractCrc(d.packet), state, d.escape)
      BY <2>3 DEF decodeEnd
    <3>2. extractCrc(d.packet) \in PacketType /\ Len(extractCrc(d.packet).data) <= MaxDataLen
      BY <1>0, <2>3, Extracted
    <3>3. ~d.escape
      BY <1>4 DEF IsDelimiter
    <3>4. QED
      BY <1>0, <2>1, <3>1, <3>2, <3>3, SoundDecoder DEF DecoderState
  <2>4. QED
    BY <2>2, <2>3
<1>5. CASE d.state = "DATA" /\ ~(~d.escape /\ b = ESC) /\ ~IsDelimiter(d, b)
  <2>1. decodeByte(d, b).dec = decodeStore(d, b).dec
    BY <1>5 DEF decodeByte
  <2>2. CASE Len(d.packet.data) >= MaxDataLen
    <3>1. decodeStore(d, b).dec = Decoder(d.packet, "DATA", FALSE)
      BY <2>2 DEF decodeStore
    <3>2. QED
      BY <1>0, <2>1, <3>1, SoundDecoder DEF DecoderState
  <2>3. CASE ~(Len(d.packet.data) >= MaxDataLen)
    <3>1. decodeStore(d, b).dec = Decoder(appendByte(d.packet, Unescape(d, b)), "DATA", FALSE)
      BY <2>3 DEF decodeStore, NotDone
    <3>2. Len(d.packet.data) < MaxDataLen
      BY <1>0, <2>3, MaxDataLenAssumption
    <3>3. QED
      BY <1>0, <2>1, <3>1, <3>2, StoredByte, UnescapedByte, SoundDecoder DEF DecoderState
  <2>4. QED
    BY <2>2, <2>3
<1>6. QED
  BY <1>0, <1>1, <1>2, <1>3, <1>4, <1>5 DEF DecoderState

(***************************************************************************)
(* The Python decoder differs from the C++ one in the error cases of a     *)
(* regular END alone.                                                      *)
(***************************************************************************)
LEMMA PyByCases ==
  ASSUME NEW d, Sound(d), NEW b \in Byte
  PROVE  /\ extract_crc(d.packet) = extractCrc(d.packet)
         /\ ~(d.state = "DATA" /\ IsDelimiter(d, b)) => decode_byte(d, b) = decodeByte(d, b)
         /\ d.state = "DATA" /\ IsDelimiter(d, b) =>
              /\ decodeByte(d, b) = decodeEnd(d)
              /\ decode_byte(d, b) = decode_byte_data_end(d)
              /\ decode_byte_data_end(d).err = decodeEnd(d).err
<1>1. extract_crc(d.packet) = extractCrc(d.packet)
  BY DEF extract_crc, extractCrc
<1>2. d.state \in {"IDLE", "COMMAND", "DATA"}
  BY DecoderFields
<1>3. CASE d.state = "IDLE"
  BY <1>1, <1>3 DEF decode_byte, decodeByte, decode_byte_idle, decodeIdle
<1>4. CASE d.state = "COMMAND"
  BY <1>1, <1>4 DEF decode_byte, decodeByte, decode_byte_command, decodeCommand
<1>5. CASE d.state = "DATA" /\ ~IsDelimiter(d, b)
  BY <1>1, <1>5 DEF decode_byte, decodeByte, decode_byte_data, decodeStore
<1>6. CASE d.state = "DATA" /\ IsDelimiter(d, b)
  <2>1. decodeByte(d, b) = decodeEnd(d) /\ decode_byte(d, b) = decode_byte_data_end(d)
    BY <1>6, FramingAssumption DEF decode_byte, decodeByte, decode_byte_data, IsDelimiter
  <2>2. decode_byte_data_end(d).err = decodeEnd(d).err
    <3>1. calc_crc(extract_crc(d.packet)) = calcCrc(extractCrc(d.packet))
      BY <1>1 DEF calc_crc, calcCrc
    <3>2. QED
      BY <1>1, <3>1 DEF decode_byte_data_end, decodeEnd
  <2>3. QED
    BY <1>1, <1>6, <2>1, <2>2
<1>7. QED
  BY <1>2, <1>3, <1>4, <1>5, <1>6

\* decode_byte of Python keeps its decoder sound, whatever the byte.
LEMMA PySound ==
  ASSUME NEW d, Sound(d), NEW b \in Byte
  PROVE  Sound(decode_byte(d, b).dec)
<1>1. CASE ~(d.state = "DATA" /\ IsDelimiter(d, b))
  BY <1>1, PyByCases, CppSound
<1>2. CASE d.state = "DATA" /\ IsDelimiter(d, b)
  <2>0. /\ d.packet \in PacketType /\ Len(d.packet.data) <= MaxDataLen
        /\ d.escape \in BOOLEAN /\ ~d.escape
    BY <1>2 DEF Sound, DecoderType, IsDelimiter
  <2>1. decode_byte(d, b).dec = decode_byte_data_end(d).dec
    BY <1>2, PyByCases
  <2>2. CASE Len(d.packet.data) = 0
    <3>1. decode_byte_data_end(d).dec = Decoder(d.packet, "COMMAND", d.escape)
      BY <2>2 DEF decode_byte_data_end
    <3>2. QED
      BY <2>0, <2>1, <3>1, SoundDecoder DEF DecoderState
  <2>3. CASE Len(d.packet.data) # 0
    <3>1. decode_byte_data_end(d).dec = Decoder(extractCrc(d.packet), "IDLE", d.escape)
      BY <2>3, PyByCases DEF decode_byte_data_end
    <3>2. extractCrc(d.packet) \in PacketType /\ Len(extractCrc(d.packet).data) <= MaxDataLen
      BY <2>0, <2>3, Extracted
    <3>3. QED
      BY <2>0, <2>1, <3>1, <3>2, SoundDecoder DEF DecoderState
  <2>4. QED
    BY <2>2, <2>3
<1>3. QED
  BY <1>1, <1>2
=============================================================================
