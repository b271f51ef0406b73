-------------------------------- MODULE Link --------------------------------
(***************************************************************************)
(* One direction of a bus over an intact byte stream: IBus::writePacket    *)
(* on one side, IBus::processByte on the other, and the bytes in between.  *)
(* In the direction "toHost" the C++ encoder of the device talks to the    *)
(* Python decoder of the host, in the direction "toDevice" the Python      *)
(* encoder to the C++ decoder.                                             *)
(*                                                                         *)
(* src is a history variable: src[i] is the encoder (and the number of the *)
(* packet it was encoding) that produced wire[i]. No action reads it.      *)
(***************************************************************************)
EXTENDS PyPacketEncoder, PyPacketDecoder

CONSTANTS
  Payload,      \* the [command, data] contents that may be sent
  Uninit,       \* the values an uninitialized byte may hold
  WireCap,      \* bound: bytes in flight
  MaxPackets    \* bound: packets sent in a behaviour

\* The receiver has room for the data and, until it is extracted, the CRC.
ASSUME PayloadAssumption ==
  \A p \in Payload : /\ p \in [command : Byte, data : Seq(Byte)]
                     /\ Len(p.data) < MaxDataLen

ASSUME UninitAssumption == Uninit \subseteq Byte

ASSUME BoundAssumption == WireCap \in Nat \ {0} /\ MaxPackets \in Nat

VARIABLES
  dir,          \* which pair of implementations is talking
  enc,          \* the writer's encoder
  busy,         \* TRUE inside the loop of writePacket
  wire,         \* bytes written and not yet read
  dec,          \* the reader's decoder
  err,          \* what the last call of processByte returned
  sent,         \* packets passed to writePacket
  rcvd,         \* packets for which processByte returned NONE
  src           \* history: origin of the bytes in flight

vars == <<dir, enc, busy, wire, dec, err, sent, rcvd, src>>

Dir == {"toHost", "toDevice"}

Start(pkt)  == IF dir = "toHost" THEN encodeStart(enc, pkt) ELSE encode_start(enc, pkt)
Encoded     == IF dir = "toHost" THEN encodeByte(enc) ELSE encode_byte(enc)
Decoded(b)  == IF dir = "toHost" THEN decode_byte(dec, b) ELSE decodeByte(dec, b)

\* A packet as the application fills it in; its CRC is set by encodeStart.
PacketOf(p) == [command |-> p.command, data |-> p.data, crc |-> 0]

BlankPacket(crc) == [command |-> 0, data |-> <<>>, crc |-> crc]

\* The C++ Packet leaves m_crc, and the encoder m_escapeChar, uninitialized.
Init ==
  /\ dir \in Dir
  /\ \E crc, char \in Uninit :
       /\ enc = [packet     |-> BlankPacket(crc),
                 state      |-> "IDLE",
                 encodeIdx  |-> 0,
                 escapeChar |-> char]
       /\ dec = [packet |-> BlankPacket(crc), state |-> "IDLE", escape |-> FALSE]
  /\ busy = FALSE
  /\ wire = <<>>
  /\ err = "NOT_DONE"
  /\ sent = <<>>
  /\ rcvd = <<>>
  /\ src = <<>>

\* writePacket is entered: encodeStart.
WritePacket(p) ==
  /\ ~busy
  /\ Len(sent) < MaxPackets
  /\ busy' = TRUE
  /\ enc' = Start(PacketOf(p))
  /\ sent' = Append(sent, enc'.packet)
  /\ UNCHANGED <<dir, wire, dec, err, rcvd, src>>

\* One turn of writePacket's loop: encodeByte, writeByte, leave on NONE.
WriteByte ==
  /\ busy
  /\ Len(wire) < WireCap
  /\ enc' = Encoded.enc
  /\ busy' = (Encoded.err = "NOT_DONE")
  /\ wire' = Append(wire, Encoded.byte)
  /\ src' = Append(src, [enc |-> enc, n |-> Len(sent)])
  /\ UNCHANGED <<dir, dec, err, sent, rcvd>>

\* processByte finds a byte to read and runs it through the decoder.
ProcessByte ==
  /\ wire # <<>>
  /\ LET r == Decoded(Head(wire))
     IN  /\ dec' = r.dec
         /\ err' = r.err
         /\ rcvd' = IF r.err = "NONE" THEN Append(rcvd, r.dec.packet) ELSE rcvd
  /\ wire' = Tail(wire)
  /\ src' = Tail(src)
  /\ UNCHANGED <<dir, enc, busy, sent>>

Next == WriteByte \/ ProcessByte \/ \E p \in Payload : WritePacket(p)

Spec == Init /\ [][Next]_vars

\* writePacket's loop runs to its end, and the reader keeps polling.
FairSpec == Spec /\ WF_vars(WriteByte) /\ WF_vars(ProcessByte)
-----------------------------------------------------------------------------
TypeOK ==
  /\ dir \in Dir
  /\ enc \in EncoderType
  /\ enc.state \in {"DATA", "ESCAPE"} => enc.encodeIdx <= Len(enc.packet.data) + 1
  /\ busy \in BOOLEAN
  /\ wire \in Seq(Byte)
  /\ dec \in DecoderType
  /\ err \in Error
  /\ sent \in Seq(PacketType)
  /\ rcvd \in Seq(PacketType)
  /\ src \in Seq([enc : EncoderType, n : Nat])
  /\ Len(src) = Len(wire)
  /\ Len(wire) <= WireCap

\* The packets the reader completes are the ones written, whole, once each and
\* in the order written: whatever framing bytes they hold, escaping on one side
\* and unescaping on the other, and the CRC, cancel out byte for byte.
InOrder ==
  /\ Len(rcvd) <= Len(sent)
  /\ \A i \in 1..Len(rcvd) : rcvd[i] = sent[i]

\* On an intact stream decodeByte reports no error: no frame the encoder emits
\* is taken for a short, oversized or corrupt one, nor loses its delimiter.
NoDecodeError == err \in {"NOT_DONE", "NONE"}

\* With no byte in flight and no packet being written, everything written has
\* been received: the closing END alone completes a frame, none waits in the
\* decoder for the next frame's opening END.
Drained == (wire = <<>> /\ ~busy) => rcvd = sent

\* The packets of Payload as the pipe sees them, CRC included.
Framed == {calcAndStoreCrc(PacketOf(p)) : p \in Payload}

Pipe == INSTANCE PacketPipe WITH Payload <- Framed

\* A byte-level link implements the packet pipe.
ImplementsPipe == Pipe!Spec

\* ... and, with a writer that finishes its loop and a reader that polls, every
\* packet written is eventually received.
ImplementsFairPipe == Pipe!FairSpec
-----------------------------------------------------------------------------
(***************************************************************************)
(* The inductive invariant. The bytes in flight are a chain of encoder     *)
(* steps that ends in the current encoder; the decoder mirrors the encoder *)
(* at the chain's first link, whatever its length.                         *)
(***************************************************************************)

\* The writer now. Between packets it stands before the packet to come.
Current == [enc |-> enc, n |-> IF busy THEN Len(sent) ELSE Len(sent) + 1]

Chain == Append(src, Current)

\* What the packet's frame holds after the command: data bytes, then CRC.
Body(pkt) == Append(pkt.data, calcCrc(pkt))

\* s and t are successive writers: t is s after one encodeByte.
Follows(s, t) ==
  LET r == encodeByte(s.enc)
  IN  IF r.err = "NOT_DONE"
      THEN t = [enc |-> r.enc, n |-> s.n]
      ELSE t.enc.state = "IDLE" /\ t.n = s.n + 1

\* The escape in progress, if any, stands for the byte that comes next.
Encoding(e) ==
  /\ e.state \in {"DATA", "ESCAPE"} => e.encodeIdx <= Len(e.packet.data) + 1
  /\ e.state = "ESCAPE" =>
       LET byte == IF e.encodeIdx = 0 THEN e.packet.command
                                      ELSE Body(e.packet)[e.encodeIdx]
       IN  \/ byte = END /\ e.escapeChar = ESC_END
           \/ byte = ESC /\ e.escapeChar = ESC_ESC

\* A writer at work on the s.n-th packet.
Writing(s) ==
  /\ s.n \in 1..Len(sent)
  /\ s.enc.packet = sent[s.n]
  /\ Encoding(s.enc)

\* Decoder d has stored the first k bytes of pkt's body.
Stored(d, pkt, k) ==
  /\ d.state = "DATA"
  /\ d.packet.command = pkt.command
  /\ Len(d.packet.data) = k
  /\ \A i \in 1..k : d.packet.data[i] = Body(pkt)[i]

\* Decoder d is where an encoder e left it.
Mirrors(d, e) ==
  /\ d.escape <=> e.state = "ESCAPE"
  /\ e.state = "IDLE"    => d.state = "IDLE"
  /\ e.state = "COMMAND" => d.state = "COMMAND"
  /\ e.state = "DATA"    => Stored(d, e.packet, e.encodeIdx)
  /\ e.state = "ESCAPE"  => IF e.encodeIdx = 0 THEN d.state = "COMMAND"
                                               ELSE Stored(d, e.packet, e.encodeIdx - 1)

SentOK ==
  \A i \in 1..Len(sent) :
    /\ Len(sent[i].data) < MaxDataLen
    /\ sent[i].crc = calcCrc(sent[i])

ChainOK ==
  /\ \A i \in 1..Len(src) : /\ Writing(src[i])
                            /\ wire[i] = encodeByte(src[i].enc).byte
                            /\ Follows(src[i], Chain[i + 1])
  /\ IF busy THEN Writing(Current) ELSE enc.state = "IDLE"

ReaderOK ==
  /\ Mirrors(dec, Chain[1].enc)
  /\ Len(rcvd) = Chain[1].n - 1

\* The strengthening of InOrder and NoDecodeError that every step preserves.
IInv == TypeOK /\ SentOK /\ ChainOK /\ ReaderOK /\ InOrder /\ NoDecodeError
=============================================================================
