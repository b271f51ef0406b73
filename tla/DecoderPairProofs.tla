-------------------------- MODULE DecoderPairProofs --------------------------
(***************************************************************************)
(* DecoderPair for every byte alphabet, CRC function and buffer size, over *)
(* streams of any length and any content.                                  *)
(***************************************************************************)
EXTENDS DecoderPair, CodecProofs

\* The two decoders say and do the same. The C++ one may hold an uninitialized CRC.
Same(c, p) ==
  /\ c.state = p.state
  /\ c.escape <=> p.escape
  /\ c.packet.command = p.packet.command
  /\ c.packet.data = p.packet.data

\* In State::DATA the frame so far is what the packet holds: a byte that does not fit
\* the one does not fit the other. Elsewhere there is no frame.
FrameHeld ==
  frame = IF pdec.state = "DATA" THEN <<pdec.packet.command>> \o pdec.packet.data ELSE <<>>

\* InBuffer, EscapeInFrame and SameUntilError hold of a step if this does before it.
IInv ==
  /\ Sound(cdec) /\ Sound(pdec)
  /\ clean \in BOOLEAN
  /\ clean => Same(cdec, pdec)
  /\ FrameHeld
-----------------------------------------------------------------------------
\* An uninitialized CRC, which is all that tells two such decoders apart, is never read.
LEMMA CrcUnread ==
  ASSUME NEW c, Sound(c), NEW p, Sound(p), Same(c, p), NEW b \in Byte
  PROVE  /\ decodeByte(c, b).err = decodeByte(p, b).err
         /\ Same(decodeByte(c, b).dec, decodeByte(p, b).dec)
<1>0. /\ c.state = p.state /\ (c.escape <=> p.escape)
      /\ c.packet.command = p.packet.command /\ c.packet.data = p.packet.data
      /\ c.state \in {"IDLE", "COMMAND", "DATA"}
  BY DecoderFields DEF Same
<1>1. Unescape(c, b) = Unescape(p, b) /\ (IsDelimiter(c, b) <=> IsDelimiter(p, b))
  BY <1>0 DEF Unescape, IsDelimiter
<1>2. CASE c.state = "IDLE"
  <2>1. /\ decodeByte(c, b) = NotDone(Decoder(c.packet, IF b = END THEN "COMMAND" ELSE "IDLE", c.escape))
        /\ decodeByte(p, b) = NotDone(Decoder(p.packet, IF b = END THEN "COMMAND" ELSE "IDLE", p.escape))
    BY <1>0, <1>2 DEF decodeByte, decodeIdle
  <2>2. QED
    BY <1>0, <2>1 DEF NotDone, Decoder, Same
<1>3. CASE c.state # "IDLE" /\ ~c.escape /\ b = ESC
  <2>1. /\ decodeByte(c, b) = NotDone(Decoder(c.packet, c.state, TRUE))
        /\ decodeByte(p, b) = NotDone(Decoder(p.packet, c.state, TRUE))
    BY <1>0, <1>3 DEF decodeByte
  <2>2. /\ decodeByte(c, b).err = "NOT_DONE" /\ decodeByte(p, b).err = "NOT_DONE"
        /\ decodeByte(c, b).dec.packet = c.packet /\ decodeByte(p, b).dec.packet = p.packet
        /\ decodeByte(c, b).dec.state = c.state /\ decodeByte(p, b).dec.state = c.state
    BY <2>1 DEF NotDone, Decoder
  <2>3. decodeByte(c, b).dec.escape /\ decodeByte(p, b).dec.escape
    BY <2>1 DEF NotDone, Decoder
  <2>4. QED
    BY <1>0, <2>2, <2>3 DEF Same
<1>4. CASE c.state = "COMMAND" /\ ~(~c.escape /\ b = ESC)
  <2>1. decodeByte(c, b) = decodeCommand(c, b) /\ decodeByte(p, b) = decodeCommand(p, b)
    BY <1>0, <1>4 DEF decodeByte
  <2>2. CASE IsDelimiter(c, b)
    BY <1>0, <1>1, <2>1, <2>2 DEF decodeCommand, NotDone, Same
  <2>3. CASE ~IsDelimiter(c, b)
    <3> DEFINE Fresh(d) == setData(setCommand(d.packet, Unescape(c, b)), <<>>)
    <3>1. /\ decodeByte(c, b) = NotDone(Decoder(Fresh(c), "DATA", FALSE))
          /\ decodeByte(p, b) = NotDone(Decoder(Fresh(p), "DATA", FALSE))
      BY <1>1, <2>1, <2>3 DEF decodeCommand
    <3>2. Fresh(c).command = Fresh(p).command /\ Fresh(c).data = Fresh(p).data
      BY DEF setData, setCommand
    <3>3. /\ decodeByte(c, b).err = "NOT_DONE" /\ decodeByte(p, b).err = "NOT_DONE"
          /\ decodeByte(c, b).dec.packet = Fresh(c) /\ decodeByte(p, b).dec.packet = Fresh(p)
          /\ decodeByte(c, b).dec.state = "DATA" /\ decodeByte(p, b).dec.state = "DATA"
      BY <3>1 DEF NotDone, Decoder
    <3>4. ~decodeByte(c, b).dec.escape /\ ~decodeByte(p, b).dec.escape
      BY <3>1 DEF NotDone, Decoder
    <3>5. QED
      BY <3>2, <3>3, <3>4 DEF Same
  <2>4. QED
    BY <2>2, <2>3
<1>5. CASE c.state = "DATA" /\ IsDelimiter(c, b)
  <2>1. decodeByte(c, b) = decodeEnd(c) /\ decodeByte(p, b) = decodeEnd(p)
    BY <1>0, <1>1, <1>5, FramingAssumption DEF decodeByte, IsDelimiter
  <2>2. extractCrc(c.packet) = extractCrc(p.packet)
    BY <1>0 DEF extractCrc
  <2>3. CASE Len(c.packet.data) = 0
    BY <1>0, <2>1, <2>3 DEF decodeEnd, Same
  <2>4. CASE Len(c.packet.data) # 0
    BY <1>0, <2>1, <2>2, <2>4 DEF decodeEnd, Decoder, Same
  <2>5. QED
    BY <2>3, <2>4
<1>6. CASE c.state = "DATA" /\ ~(~c.escape /\ b = ESC) /\ ~IsDelimiter(c, b)
  <2>1. decodeByte(c, b) = decodeStore(c, b) /\ decodeByte(p, b) = decodeStore(p, b)
    BY <1>0, <1>1, <1>6 DEF decodeByte
  <2>2. QED
    BY <1>0, <1>1, <2>1 DEF decodeStore, NotDone, Decoder, appendByte, setData, Same
<1>7. QED
  BY <1>0, <1>2, <1>3, <1>4, <1>5, <1>6

\* As long as there is no error, one byte leaves the two decoders the same and with the same code.
LEMMA SameStep ==
  ASSUME NEW c, Sound(c), NEW p, Sound(p), Same(c, p), NEW b \in Byte
  PROVE  /\ decodeByte(c, b).err = decode_byte(p, b).err
         /\ ErrorFree(decodeByte(c, b).err) =>
              Same(decodeByte(c, b).dec, decode_byte(p, b).dec)
<1>1. CASE ~(p.state = "DATA" /\ IsDelimiter(p, b))
  BY <1>1, CrcUnread, PyByCases
<1>2. CASE p.state = "DATA" /\ IsDelimiter(p, b)
  <2>1. decodeByte(p, b).err = decode_byte(p, b).err
    BY <1>2, PyByCases
  <2>2. ASSUME ErrorFree(decodeByte(c, b).err)
        PROVE  decode_byte(p, b).dec = decodeByte(p, b).dec
    <3>1. decodeEnd(p).err = "NONE"
      <4>1. decodeEnd(p).err \in {"TOO_SMALL", "NONE", "CRC"}
        BY DEF decodeEnd
      <4>2. ErrorFree(decodeEnd(p).err)
        BY <1>2, <2>2, CrcUnread, PyByCases
      <4>3. QED
        BY <4>1, <4>2 DEF ErrorFree
    <3>2. Len(p.packet.data) # 0
      BY <3>1 DEF decodeEnd
    <3>3. decodeEnd(p).dec = Decoder(extractCrc(p.packet), "IDLE", p.escape)
      BY <3>1, <3>2 DEF decodeEnd
    <3>4. decode_byte_data_end(p).dec = Decoder(extractCrc(p.packet), "IDLE", p.escape)
      BY <3>2, PyByCases DEF decode_byte_data_end
    <3>5. QED
      BY <1>2, <3>3, <3>4, PyByCases
  <2>3. QED
    BY <2>1, <2>2, CrcUnread
<1>3. QED
  BY <1>1, <1>2
-----------------------------------------------------------------------------
(***************************************************************************)
(* The frame.                                                              *)
(***************************************************************************)
LEMMA FrameGrows ==
  ASSUME NEW x \in Byte, NEW s \in Seq(Byte), NEW y \in Byte
  PROVE  /\ <<x>> \o Append(s, y) = Append(<<x>> \o s, y)
         /\ Len(<<x>> \o s) = Len(s) + 1
         /\ Append(<<>>, x) = <<x>> \o <<>>
<1>1. /\ <<x>> \in Seq(Byte) /\ <<y>> \in Seq(Byte) /\ <<x>> \o s \in Seq(Byte)
      /\ Len(<<x>> \o s) = Len(s) + 1
  BY ConcatProperties
<1>2. Append(s, y) = s \o <<y>> /\ Append(<<x>> \o s, y) = (<<x>> \o s) \o <<y>>
  BY <1>1, AppendIsConcat
<1>3. (<<x>> \o s) \o <<y>> = <<x>> \o (s \o <<y>>)
  BY <1>1, ConcatAssociative
<1>4. Append(<<>>, x) = <<x>> \o <<>>
  BY <1>1, ConcatEmptySeq
<1>5. QED
  BY <1>1, <1>2, <1>3, <1>4

\* What both have stored of the frame grows with the frame, byte by byte.
LEMMA FrameStep ==
  ASSUME IInv, NEW b \in Byte, Skip(b) \/ Content(b) \/ Delimiter(b)
  PROVE  FrameHeld'
<1>0. /\ Sound(pdec) /\ FrameHeld
      /\ pdec' = decode_byte(pdec, b).dec
  BY DEF IInv, Skip, Content, Delimiter, Feed
<1>1. /\ pdec.packet.command \in Byte /\ pdec.packet.data \in Seq(Byte)
      /\ Len(pdec.packet.data) \in Nat /\ Len(pdec.packet.data) <= MaxDataLen
      /\ pdec.state \in {"IDLE", "COMMAND", "DATA"}
      /\ pdec.state = "IDLE" => ~pdec.escape
      /\ Unescape(pdec, b) \in Byte
  BY <1>0, DecoderFields, UnescapedByte
<1>2. CASE Skip(b) /\ pdec.state = "IDLE"
  <2>1. frame' = <<>>
    BY <1>0, <1>2 DEF Skip, FrameHeld
  <2>2. b # END
    BY <1>1, <1>2 DEF Skip, IsDelimiter
  <2>3. pdec'.state = "IDLE"
    BY <1>0, <1>2, <2>2 DEF decode_byte, decode_byte_idle, NotDone, Decoder
  <2>4. QED
    BY <2>1, <2>3 DEF FrameHeld
<1>3. CASE Skip(b) /\ pdec.state # "IDLE"
  <2>1. pdec' = Decoder(pdec.packet, pdec.state, TRUE)
    BY <1>0, <1>3 DEF Skip, decode_byte, NotDone
  <2>2. pdec'.packet = pdec.packet /\ pdec'.state = pdec.state
    BY <2>1 DEF Decoder
  <2>3. QED
    BY <1>0, <1>3, <2>2 DEF FrameHeld, Skip
<1>4. CASE Content(b) /\ pdec.state = "COMMAND"
  <2>1. pdec' = Decoder(setData(setCommand(pdec.packet, Unescape(pdec, b)), <<>>), "DATA", FALSE)
    BY <1>0, <1>4 DEF Content, decode_byte, decode_byte_command, NotDone
  <2>2. pdec'.packet.command = Unescape(pdec, b) /\ pdec'.packet.data = <<>>
        /\ pdec'.state = "DATA"
    BY <2>1 DEF Decoder, setData, setCommand
  <2>3. frame = <<>> /\ Len(frame) <= MaxDataLen
    BY <1>0, <1>4, MaxDataLenAssumption DEF FrameHeld
  <2>4. frame' = Append(<<>>, Unescape(pdec, b))
    BY <1>4, <2>3 DEF Content
  <2>5. frame' = <<Unescape(pdec, b)>> \o <<>>
    BY <1>1, <2>4, FrameGrows
  <2>6. QED
    BY <2>2, <2>5 DEF FrameHeld
<1>5. CASE Content(b) /\ pdec.state = "DATA"
  <2>1. decode_byte(pdec, b) = decode_byte_data(pdec, b) /\ ~IsDelimiter(pdec, b)
    BY <1>5 DEF Content, decode_byte
  <2>2. frame = <<pdec.packet.command>> \o pdec.packet.data
        /\ Len(frame) = Len(pdec.packet.data) + 1
    BY <1>0, <1>1, <1>5, FrameGrows DEF FrameHeld
  <2>3. CASE Len(pdec.packet.data) >= MaxDataLen
    <3>1. pdec' = Decoder(pdec.packet, "DATA", FALSE)
      <4>1. decode_byte_data(pdec, b).dec = Decoder(pdec.packet, "DATA", FALSE)
        BY <2>1, <2>3 DEF decode_byte_data
      <4>2. QED
        BY <1>0, <2>1, <4>1
    <3>2. pdec'.packet = pdec.packet /\ pdec'.state = "DATA"
      BY <3>1 DEF Decoder
    <3>3. ~(Len(frame) <= MaxDataLen)
      BY <1>1, <2>2, <2>3, MaxDataLenAssumption
    <3>4. frame' = frame
      BY <1>5, <3>3 DEF Content
    <3>5. QED
      BY <2>2, <3>2, <3>4 DEF FrameHeld
  <2>4. CASE ~(Len(pdec.packet.data) >= MaxDataLen)
    <3>1. pdec' = Decoder(appendByte(pdec.packet, Unescape(pdec, b)), "DATA", FALSE)
      <4>1. decode_byte_data(pdec, b).dec =
              Decoder(appendByte(pdec.packet, Unescape(pdec, b)), "DATA", FALSE)
        BY <2>1, <2>4 DEF decode_byte_data, NotDone
      <4>2. QED
        BY <1>0, <2>1, <4>1
    <3>2. /\ pdec'.packet.command = pdec.packet.command /\ pdec'.state = "DATA"
          /\ pdec'.packet.data = Append(pdec.packet.data, Unescape(pdec, b))
      BY <3>1 DEF Decoder, appendByte, setData
    <3>3. Len(frame) <= MaxDataLen
      BY <1>1, <2>2, <2>4, MaxDataLenAssumption
    <3>4. frame' = Append(frame, Unescape(pdec, b))
      BY <1>5, <3>3 DEF Content
    <3>5. frame' = <<pdec.packet.command>> \o Append(pdec.packet.data, Unescape(pdec, b))
      BY <1>1, <2>2, <3>4, FrameGrows
    <3>6. QED
      BY <3>2, <3>5 DEF FrameHeld
  <2>5. QED
    BY <2>3, <2>4
<1>6. CASE Delimiter(b)
  <2>1. frame' = <<>> /\ IsDelimiter(pdec, b) /\ b = END
    BY <1>6 DEF Delimiter, IsDelimiter
  <2>2. pdec'.state # "DATA"
    <3>1. CASE pdec.state = "IDLE"
      BY <1>0, <2>1, <3>1 DEF decode_byte, decode_byte_idle, NotDone, Decoder
    <3>2. CASE pdec.state = "COMMAND"
      BY <1>0, <2>1, <3>2, FramingAssumption
      DEF decode_byte, decode_byte_command, NotDone
    <3>3. CASE pdec.state = "DATA"
      BY <1>0, <2>1, <3>3, PyByCases DEF decode_byte_data_end, Decoder
    <3>4. QED
      BY <1>1, <3>1, <3>2, <3>3
  <2>3. QED
    BY <2>1, <2>2 DEF FrameHeld
<1>7. QED
  BY <1>1, <1>2, <1>3, <1>4, <1>5, <1>6 DEF Content
-----------------------------------------------------------------------------
(***************************************************************************)
(* The invariant.                                                          *)
(***************************************************************************)
LEMMA InitInv == Init => IInv
<1>1. SUFFICES ASSUME Init PROVE IInv
  OBVIOUS
<1>2. 0 \in Byte /\ Uninit \subseteq Byte
  BY FramingAssumption, UninitAssumption
<1>3. PICK crc \in Uninit :
        cdec = Decoder([command |-> 0, data |-> <<>>, crc |-> crc], "IDLE", FALSE)
  BY <1>1 DEF Init
<1>4. pdec = Decoder([command |-> 0, data |-> <<>>, crc |-> 0], "IDLE", FALSE)
  BY <1>1 DEF Init
<1>5. \A c \in Byte : [command |-> 0, data |-> <<>>, crc |-> c] \in PacketType
  BY <1>2 DEF PacketType
<1>6. Len(<<>>) <= MaxDataLen
  BY MaxDataLenAssumption
<1>7. Sound(cdec) /\ Sound(pdec)
  BY <1>2, <1>3, <1>4, <1>5, <1>6, SoundDecoder DEF DecoderState
<1>8. Same(cdec, pdec)
  BY <1>3, <1>4 DEF Same, Decoder
<1>9. FrameHeld
  BY <1>1, <1>4 DEF Init, FrameHeld, Decoder
<1>10. clean \in BOOLEAN
  BY <1>1, Zenon DEF Init
<1>11. QED
  BY <1>7, <1>8, <1>9, <1>10 DEF IInv

\* The step the three action properties and the invariant have in common.
LEMMA FeedStep ==
  ASSUME IInv, NEW b \in Byte, Feed(b)
  PROVE  /\ Sound(cdec') /\ Sound(pdec')
         /\ clean' \in BOOLEAN
         /\ clean => cerr' = perr'
         /\ clean' => Same(cdec', pdec')
<1>1. /\ cdec' = decodeByte(cdec, b).dec /\ cerr' = decodeByte(cdec, b).err
      /\ pdec' = decode_byte(pdec, b).dec /\ perr' = decode_byte(pdec, b).err
  BY DEF Feed
<1>2. clean' \in BOOLEAN /\ (clean' => clean /\ ErrorFree(decodeByte(cdec, b).err))
  BY Zenon DEF Feed
<1>3. Sound(cdec) /\ Sound(pdec) /\ (clean => Same(cdec, pdec))
  BY DEF IInv
<1>4. QED
  BY <1>1, <1>2, <1>3, CppSound, PySound, SameStep

\* The inductive step: one byte, whichever of the three kinds.
LEMMA NextInv == IInv /\ [Next]_vars => IInv'
<1>1. SUFFICES ASSUME IInv, [Next]_vars PROVE IInv'
  OBVIOUS
<1>2. ASSUME NEW b \in Byte, Skip(b) \/ Content(b) \/ Delimiter(b)
      PROVE  IInv'
  <2>1. Feed(b)
    BY <1>2 DEF Skip, Content, Delimiter
  <2>2. QED
    BY <1>1, <1>2, <2>1, FeedStep, FrameStep DEF IInv
<1>3. CASE UNCHANGED vars
  BY <1>1, <1>3 DEF vars, IInv, FrameHeld
<1>4. QED
  BY <1>1, <1>2, <1>3 DEF Next

\* IInv holds of whatever bytes arrive: the theorems below rest on it.
THEOREM Inductive == Spec => []IInv
BY InitInv, NextInv, PTL DEF Spec

(***************************************************************************)
(* Neither decoder's packet ever outgrows its buffer, whatever arrives.    *)
(***************************************************************************)
THEOREM NoOverrun == Spec => []InBuffer
<1>1. IInv => InBuffer
  BY DEF IInv, Sound, InBuffer
<1>2. QED
  BY <1>1, Inductive, PTL

(***************************************************************************)
(* A decoder that is between packets has no escape pending.                *)
(***************************************************************************)
THEOREM EscapeEndsWithFrame == Spec => []EscapeInFrame
<1>1. IInv => EscapeInFrame
  BY DEF IInv, Sound, EscapeInFrame
<1>2. QED
  BY <1>1, Inductive, PTL

(***************************************************************************)
(* Up to and including the first error, the C++ and the Python decoder say *)
(* the same of every byte and, but for that error, hold the same packet.   *)
(***************************************************************************)
THEOREM Interchangeable == Spec => SameUntilError
<1> DEFINE A == clean => /\ cerr' = perr'
                         /\ clean' => /\ cdec'.state = pdec'.state
                                      /\ cdec'.escape = pdec'.escape
                                      /\ cdec'.packet.command = pdec'.packet.command
                                      /\ cdec'.packet.data = pdec'.packet.data
<1>1. IInv /\ [Next]_vars => [A]_vars
  <2>1. SUFFICES ASSUME IInv, Next PROVE A
    OBVIOUS
  <2>2. PICK b \in Byte : Feed(b)
    BY <2>1 DEF Next, Skip, Content, Delimiter
  <2>3. /\ clean => cerr' = perr'
        /\ clean' => Same(cdec', pdec')
        /\ Sound(cdec') /\ Sound(pdec')
    BY <2>1, <2>2, FeedStep
  <2>4. cdec'.escape \in BOOLEAN /\ pdec'.escape \in BOOLEAN
    BY <2>3, DecoderFields
  <2>5. Same(cdec', pdec') => cdec'.escape = pdec'.escape
    BY <2>4, Zenon DEF Same
  <2>6. QED
    BY <2>3, <2>5 DEF Same
<1>2. QED
  BY <1>1, Inductive, PTL DEF Spec, SameUntilError

(***************************************************************************)
(* The Python decoder delivers a frame that just ended, as much of it as   *)
(* fitted, and never bytes of two frames.                                  *)
(***************************************************************************)
THEOREM OnlyWholeFrames == Spec => OneFrameOnePacket
<1> DEFINE A == perr' = "NONE" =>
                  <<pdec'.packet.command>> \o Append(pdec'.packet.data, pdec'.packet.crc) = frame
<1>1. IInv /\ [Next]_vars => [A]_vars
  <2>1. SUFFICES ASSUME IInv, Next, perr' = "NONE"
                 PROVE  <<pdec'.packet.command>> \o Append(pdec'.packet.data, pdec'.packet.crc)
                          = frame
    OBVIOUS
  <2>2. PICK b \in Byte : Feed(b)
    BY <2>1 DEF Next, Skip, Content, Delimiter
  <2>3. /\ pdec' = decode_byte(pdec, b).dec /\ decode_byte(pdec, b).err = "NONE"
        /\ Sound(pdec) /\ FrameHeld
        /\ pdec.packet \in PacketType
    BY <2>1, <2>2 DEF Feed, IInv, Sound, DecoderType
  <2>4. pdec.state = "DATA" /\ IsDelimiter(pdec, b)
    <3>1. SUFFICES ASSUME ~(pdec.state = "DATA" /\ IsDelimiter(pdec, b))
                   PROVE  decodeByte(pdec, b).err # "NONE"
      BY <2>3, PyByCases
    <3>2. pdec.state \in {"IDLE", "COMMAND", "DATA"}
      BY <2>3, DecoderFields
    <3>3. CASE pdec.state = "IDLE"
      BY <3>3 DEF decodeByte, decodeIdle, NotDone
    <3>4. CASE pdec.state = "COMMAND"
      BY <3>4 DEF decodeByte, decodeCommand, NotDone
    <3>5. CASE pdec.state = "DATA" /\ ~IsDelimiter(pdec, b)
      BY <3>5 DEF decodeByte, decodeStore, NotDone
    <3>6. QED
      BY <3>1, <3>2, <3>3, <3>4, <3>5
  <2>5. decode_byte_data_end(pdec).err = "NONE" /\ pdec' = decode_byte_data_end(pdec).dec
    BY <2>3, <2>4, PyByCases
  <2>6. Len(pdec.packet.data) # 0
    BY <2>5 DEF decode_byte_data_end
  <2>7. pdec'.packet = extractCrc(pdec.packet)
    BY <2>3, <2>5, <2>6, PyByCases DEF decode_byte_data_end, Decoder
  <2>8. QED
    BY <2>3, <2>4, <2>6, <2>7, Extracted DEF FrameHeld, Sound
<1>2. QED
  BY <1>1, Inductive, PTL DEF Spec, OneFrameOnePacket

(***************************************************************************)
(* After a regular END the Python decoder is between packets, whatever the *)
(* frame that it ended was.                                                *)
(***************************************************************************)
THEOREM EndsDelimit == Spec => PyEndDelimits
<1> DEFINE A == IsDelimiter(pdec, END) /\ Feed(END) => pdec'.state \in {"IDLE", "COMMAND"}
<1>1. IInv => A
  <2>1. SUFFICES ASSUME IInv, IsDelimiter(pdec, END), Feed(END)
                 PROVE  pdec'.state \in {"IDLE", "COMMAND"}
    OBVIOUS
  <2>2. END \in Byte
    BY FramingAssumption
  <2>3. /\ pdec' = decode_byte(pdec, END).dec /\ Sound(pdec)
        /\ pdec.state \in {"IDLE", "COMMAND", "DATA"}
    BY <2>1, DecoderFields DEF Feed, IInv
  <2>4. CASE pdec.state = "IDLE"
    BY <2>3, <2>4 DEF decode_byte, decode_byte_idle, NotDone, Decoder
  <2>5. CASE pdec.state = "COMMAND"
    BY <2>1, <2>3, <2>5, FramingAssumption DEF decode_byte, decode_byte_command, NotDone
  <2>6. CASE pdec.state = "DATA"
    BY <2>1, <2>2, <2>3, <2>6, PyByCases DEF decode_byte_data_end, Decoder
  <2>7. QED
    BY <2>3, <2>4, <2>5, <2>6
<1>2. QED
  BY <1>1, Inductive, PTL DEF Spec, PyEndDelimits
==============================================================================
