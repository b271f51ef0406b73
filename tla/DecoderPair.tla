---------------------------- MODULE DecoderPair ----------------------------
(***************************************************************************)
(* The C++ and the Python decoder fed the same bytes, any bytes at all:    *)
(* noise, truncated frames, frames longer than the receiver's buffer. Each *)
(* step is one processByte on either side.                                 *)
(*                                                                         *)
(* frame is a history variable: the unescaped bytes the Python decoder was *)
(* given since the last regular END, as many as it could keep. No decoder  *)
(* reads it.                                                               *)
(***************************************************************************)
EXTENDS PyPacketDecoder

CONSTANT Uninit         \* the values an uninitialized byte may hold

ASSUME UninitAssumption == Uninit \subseteq Byte

VARIABLES
  cdec, cerr,           \* the C++ decoder and what its last decodeByte returned
  pdec, perr,           \* the Python decoder and what its last decode_byte returned
  clean,                \* no error has been returned yet
  frame                 \* history, see above

vars == <<cdec, cerr, pdec, perr, clean, frame>>

\* Packet's constructors: the C++ one leaves m_crc uninitialized.
Init ==
  /\ \E crc \in Uninit :
       cdec = Decoder([command |-> 0, data |-> <<>>, crc |-> crc], "IDLE", FALSE)
  /\ pdec = Decoder([command |-> 0, data |-> <<>>, crc |-> 0], "IDLE", FALSE)
  /\ cerr = "NOT_DONE"
  /\ perr = "NOT_DONE"
  /\ clean = TRUE
  /\ frame = <<>>

ErrorFree(err) == err \in {"NONE", "NOT_DONE"}

\* Both sides run one byte through their decoder.
Feed(byte) ==
  LET c == decodeByte(cdec, byte)
      p == decode_byte(pdec, byte)
  IN  /\ cdec' = c.dec
      /\ cerr' = c.err
      /\ pdec' = p.dec
      /\ perr' = p.err
      /\ clean' = (clean /\ ErrorFree(c.err) /\ ErrorFree(p.err))

\* A byte the Python decoder skips: outside a frame, or an ESC.
Skip(byte) ==
  /\ ~IsDelimiter(pdec, byte)
  /\ pdec.state = "IDLE" \/ (byte = ESC /\ ~pdec.escape)
  /\ Feed(byte)
  /\ UNCHANGED frame

\* A byte inside a frame.
Content(byte) ==
  /\ ~IsDelimiter(pdec, byte)
  /\ pdec.state # "IDLE" /\ ~(byte = ESC /\ ~pdec.escape)
  /\ Feed(byte)
  /\ frame' = IF Len(frame) <= MaxDataLen THEN Append(frame, Unescape(pdec, byte)) ELSE frame

\* A regular END.
Delimiter(byte) ==
  /\ IsDelimiter(pdec, byte)
  /\ Feed(byte)
  /\ frame' = <<>>

Next == \E byte \in Byte : Skip(byte) \/ Content(byte) \/ Delimiter(byte)

Spec == Init /\ [][Next]_vars
-----------------------------------------------------------------------------
\* The two decoders are interchangeable up to and including the first error that either
\* reports: the same code on the same byte and, but for an error, the same state and the
\* same packet, whatever the stream.
SameUntilError ==
  [][clean => /\ cerr' = perr'
              /\ clean' => /\ cdec'.state = pdec'.state
                           /\ cdec'.escape = pdec'.escape
                           /\ cdec'.packet.command = pdec'.packet.command
                           /\ cdec'.packet.data = pdec'.packet.data]_vars

\* No stream makes a decoder store past its buffer: Packet::appendByte's assert
\* (m_dataLen < m_maxDataLen) never fires, and MAX_DATA_LEN bounds the Python
\* packet, even where bytes keep coming after TOO_MUCH_DATA was returned.
InBuffer ==
  /\ Len(cdec.packet.data) <= MaxDataLen
  /\ Len(pdec.packet.data) <= MaxDataLen

\* An escape never outlives the frame it was read in: a decoder that is between
\* packets takes the next byte at face value, even after an error in mid-escape.
EscapeInFrame ==
  /\ cdec.state = "IDLE" => ~cdec.escape
  /\ pdec.state = "IDLE" => ~pdec.escape

\* The Python decoder never delivers bytes of two frames as one packet: what it
\* completes is the frame that just ended or, if that one overran the buffer,
\* as much of it as fitted.
OneFrameOnePacket ==
  [][perr' = "NONE" =>
       <<pdec'.packet.command>> \o Append(pdec'.packet.data, pdec'.packet.crc) = frame]_vars

\* Every regular END leaves the Python decoder between packets: no error makes
\* it swallow the frames that follow.
PyEndDelimits ==
  [][IsDelimiter(pdec, END) /\ Feed(END) => pdec'.state \in {"IDLE", "COMMAND"}]_vars

\* PacketDecoder.cpp says of a byte that is END outside an escape: "A regular
\* END marks the beginning/end of a packet." After one, the decoder would not be
\* inside a packet. It is: TOO_SMALL and CRC leave it in State::DATA.
EndMarksPacket ==
  [][IsDelimiter(cdec, END) /\ Feed(END) => cdec'.state \in {"IDLE", "COMMAND"}]_vars
=============================================================================
