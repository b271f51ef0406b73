------------------------------ MODULE Transport ------------------------------
(***************************************************************************)
(* The bytes of writePacket on their way to processByte: readByte,          *)
(* writeByte, flush, isDataAvailable and isSpaceAvailable of each bus       *)
(* (src/src/PicoUsbBus.cpp, ArduinoSerialBus.cpp, LinuxSerialBus.cpp,       *)
(* SocketBus.cpp, src/duino_bus/socket_bus.py) over the buffers at either   *)
(* end, which belong to TinyUSB, the Arduino core or the kernel.            *)
(*                                                                         *)
(* Bytes are numbered as they are written. Of a packet only the number of   *)
(* its bytes matters here.                                                 *)
(***************************************************************************)
EXTENDS Naturals, Sequences

CONSTANTS
  FifoCap, RxCap,   \* what the sender's and the receiver's buffer hold
  PacketLen,        \* the bytes of a frame
  MaxPackets,       \* bound: packets written
  MaxCuts           \* bound: times the link goes down

ASSUME TransportAssumption ==
  {FifoCap, RxCap, PacketLen, MaxPackets, MaxCuts} \subseteq Nat \ {0}

VARIABLES
  from, to,         \* the kinds of bus at the two ends
  asks,             \* whether the applications ask isSpaceAvailable and isDataAvailable
  link,             \* "down" if the other end is closed, gone or unplugged
  writer,           \* "idle", "writing" a packet, or "killed"
  left,             \* bytes that writePacket has yet to write
  written,          \* bytes handed to writeByte so far
  fifo,             \* the sender's buffer
  pushed,           \* what is in it is on its way out
  rx,               \* the receiver's buffer
  reader,           \* the receiving main loop: "top", "asked" or "waiting" in readByte
  received,         \* the bytes passed to the decoder
  packets, cuts,    \* packets written and times the link went down, for the bounds
  faulty            \* history: the link has been down, or a buffer full

vars == <<from, to, asks, link, writer, left, written, fifo, pushed, rx, reader,
          received, packets, cuts, faulty>>

kinds == <<from, to, asks>>
writerVars == <<writer, left, written>>
counts == <<packets, cuts>>

\* Which buses are connected: USB CDC, a serial line, and TCP, Python's end included.
Ends ==
  {<<"usb", "linux">>, <<"linux", "usb">>, <<"arduino", "linux">>, <<"linux", "arduino">>,
   <<"socket", "socket">>, <<"socket", "pysocket">>, <<"pysocket", "socket">>}

Uart == "arduino" \in {from, to}
Tcp == "socket" \in {from, to}

\* The ends are open and connected. IBus.process_byte in Python
\* always asks is_data_available.
Init ==
  /\ \E ends \in Ends : from = ends[1] /\ to = ends[2]
  /\ asks \in (IF to = "pysocket" THEN {TRUE} ELSE BOOLEAN)
  /\ link = "up"
  /\ writer = "idle"
  /\ left = 0 /\ written = 0
  /\ fifo = <<>> /\ rx = <<>>
  /\ pushed = (from # "usb")
  /\ reader = "top"
  /\ received = <<>>
  /\ packets = 0 /\ cuts = 0
  /\ faulty = FALSE
-----------------------------------------------------------------------------
(***************************************************************************)
(* IBus::writePacket. An operator says what becomes of the byte given to a  *)
(* bus's writeByte: "sent", "dropped", "waits" for room, "kills" or "raises".*)
(***************************************************************************)
Room == Len(fifo) < FifoCap

\* Faulty isSpaceAvailable: poll's result is compared with >= 0.
isSpaceAvailableAlways == TRUE

\* A descriptor is asked with poll, which finds one whose other end is gone ready, for
\* want of anything to wait for.
Polled(kind, ready) == ready \/ (link = "down" /\ kind \notin {"usb", "arduino"})

isSpaceAvailable == Polled(from, Room)

\* The host has opened the port.
isConnected == link = "up"

PicoUsbBus_writeByte == IF isConnected /\ Room THEN {"sent"} ELSE {"dropped"}

\* HardwareSerial::write returns when there was room.
ArduinoSerialBus_writeByte == IF Room THEN {"sent"} ELSE {"waits"}

\* ::write on a descriptor that may block, whose result is not looked at.
LinuxSerialBus_writeByte ==
  IF link = "down" THEN {"dropped"} ELSE IF Room THEN {"sent"} ELSE {"waits"}

\* ::send on one that may not. The peer having reset the connection, SIGPIPE is
\* raised, which the code neither blocks nor handles.
SocketBus_writeByte ==
  IF link = "down" THEN {"dropped", "kills"} ELSE IF Room THEN {"sent"} ELSE {"dropped"}

\* socket.send raises BlockingIOError, BrokenPipeError or ConnectionResetError.
SocketBus_write_byte ==
  IF link = "down" THEN {"dropped", "raises"} ELSE IF Room THEN {"sent"} ELSE {"raises"}

writeByte ==
  CASE from = "usb"      -> PicoUsbBus_writeByte
    [] from = "arduino"  -> ArduinoSerialBus_writeByte
    [] from = "linux"    -> LinuxSerialBus_writeByte
    [] from = "socket"   -> SocketBus_writeByte
    [] from = "pysocket" -> SocketBus_write_byte

WritePacket ==
  /\ writer = "idle"
  /\ packets < MaxPackets
  /\ asks => isSpaceAvailable
  /\ writer' = "writing"
  /\ left' = PacketLen
  /\ packets' = packets + 1
  /\ UNCHANGED <<kinds, link, written, fifo, pushed, rx, reader, received, cuts, faulty>>

\* Faulty remaining: an exception does not end the loop.
remainingAlways(outcome) == left - 1

\* What is left of the packet: a signal ends the process, an exception the call.
remaining(outcome) == IF outcome \in {"kills", "raises"} THEN 0 ELSE left - 1

\* One turn of the loop.
WriteByte ==
  /\ writer = "writing" /\ left > 0
  /\ written' = written + 1
  /\ \E outcome \in writeByte \ {"waits"} :
       /\ fifo' = IF outcome = "sent" THEN Append(fifo, written') ELSE fifo
       /\ writer' = CASE outcome = "kills"  -> "killed"
                      [] outcome = "raises" -> "idle"
                      [] OTHER              -> writer
       /\ left' = remaining(outcome)
  /\ faulty' = (faulty \/ link = "down" \/ ~Room)
  /\ UNCHANGED <<kinds, link, pushed, rx, reader, received, counts>>

\* Faulty flush: PicoUsbBus does not override IBus::flush.
flushNothing == pushed

\* PicoUsbBus::flush; the other buses' buffers need none.
flush == pushed \/ (isConnected /\ fifo # <<>>)

\* The end of writePacket.
Flush ==
  /\ writer = "writing" /\ left = 0
  /\ writer' = "idle"
  /\ pushed' = flush
  /\ UNCHANGED <<kinds, link, left, written, fifo, rx, reader, received, counts, faulty>>
-----------------------------------------------------------------------------
(***************************************************************************)
(* TinyUSB, the Arduino core and the kernel.                                *)
(***************************************************************************)

\* A byte moves from one buffer to the other. A serial line does not wait for room,
\* and what is sent to a peer that is gone is lost, or not yet.
Transmit ==
  /\ fifo # <<>>
  /\ fifo' = Tail(fifo)
  /\ pushed' = (from # "usb" \/ (pushed /\ fifo' # <<>>))
  /\ LET arrives == Len(rx) < RxCap
     IN  \/ /\ arrives /\ (link = "up" \/ Tcp)
            /\ rx' = Append(rx, Head(fifo))
            /\ UNCHANGED faulty
         \/ /\ (link = "up" /\ ~arrives /\ Uart) \/ (link = "down" /\ from # "usb")
            /\ faulty' = TRUE
            /\ UNCHANGED rx
  /\ UNCHANGED <<kinds, link, writerVars, reader, received, counts>>

\* The host closes its port or goes, the line is unplugged, the peer closes. What
\* Linux has not read from a terminal that hangs up is discarded.
Down ==
  /\ link = "up"
  /\ cuts < MaxCuts
  /\ cuts' = cuts + 1
  /\ link' = "down"
  /\ rx' = IF to = "linux" THEN <<>> ELSE rx
  /\ faulty' = TRUE
  /\ UNCHANGED <<kinds, writerVars, fifo, pushed, reader, received, packets>>

\* LinuxSerialBus::open, between packets or at the top of the loop, of a port that is
\* there again. What it had not sent is gone, and TCSAFLUSH discards what has arrived.
LinuxSerialBus_open ==
  /\ link = "down" /\ ~Tcp
  /\ IF to = "linux" THEN reader = "top" ELSE writer = "idle"
  /\ link' = "up"
  /\ IF to = "linux" THEN rx' = <<>> /\ UNCHANGED fifo ELSE fifo' = <<>> /\ UNCHANGED rx
  /\ UNCHANGED <<kinds, writerVars, pushed, reader, received, counts, faulty>>
-----------------------------------------------------------------------------
(***************************************************************************)
(* The receiving main loop.                                                *)
(***************************************************************************)

\* Faulty isDataAvailable: poll's result is compared with >= 0.
isDataAvailableAlways == TRUE

isDataAvailable == Polled(to, rx # <<>>)

IsDataAvailable ==
  /\ reader = "top" /\ asks
  /\ isDataAvailable
  /\ reader' = "asked"
  /\ UNCHANGED <<kinds, link, writerVars, fifo, pushed, rx, received, counts, faulty>>

Reading == reader = "waiting" \/ reader = (IF asks THEN "asked" ELSE "top")

\* processByte: readByte finds a byte, which goes to the decoder.
ReadByte ==
  /\ Reading
  /\ rx # <<>>
  /\ received' = Append(received, Head(rx))
  /\ rx' = Tail(rx)
  /\ reader' = "top"
  /\ UNCHANGED <<kinds, link, writerVars, fifo, pushed, counts, faulty>>

\* LinuxSerialBus::readByte waits for a byte: open has set VMIN to 1. The others return
\* false at once, and so does a read from a port that has hung up.
Blocks == to = "linux" /\ link = "up"

\* Faulty ReadNothing: read's result is compared with >= 0.
ReadStale ==
  /\ Reading
  /\ rx = <<>>
  /\ reader' = IF Blocks THEN "waiting" ELSE "top"
  /\ received' = IF to = "linux" /\ link = "down" THEN Append(received, 0) ELSE received
  /\ UNCHANGED <<kinds, link, writerVars, fifo, pushed, rx, counts, faulty>>

\* It finds none, and processByte returns NOT_DONE. When the peer has reset the connection,
\* Python's recv may raise instead: no byte is read either, and the loop goes on if it catches that.
ReadNothing ==
  /\ Reading
  /\ rx = <<>>
  /\ reader' = IF Blocks THEN "waiting" ELSE "top"
  /\ UNCHANGED <<kinds, link, writerVars, fifo, pushed, rx, received, counts, faulty>>
-----------------------------------------------------------------------------
Writing == WriteByte \/ Flush

Receiving == IsDataAvailable \/ ReadByte \/ ReadNothing

Next == WritePacket \/ Writing \/ Transmit \/ Down \/ LinuxSerialBus_open \/ Receiving

Spec == Init /\ [][Next]_vars

\* Both ends run their loops; what has been flushed, or has filled the buffer, is sent.
FairSpec ==
  Spec /\ WF_vars(Writing) /\ WF_vars(Receiving) /\ WF_vars(Transmit /\ (pushed \/ ~Room))
-----------------------------------------------------------------------------
TypeOK ==
  /\ <<from, to>> \in Ends
  /\ link \in {"up", "down"} /\ writer \in {"idle", "writing", "killed"}
  /\ left \in 0..PacketLen /\ (writer # "writing" => left = 0)
  /\ fifo \in Seq(1..written) /\ Len(fifo) <= FifoCap
  /\ rx \in Seq(1..written) /\ Len(rx) <= RxCap
  /\ reader \in {"top", "asked", "waiting"}
  /\ pushed \in BOOLEAN /\ (from # "usb" => pushed)

Stream == INSTANCE ByteStream WITH put <- written, transit <- rx \o fifo, taken <- received

\* On every bus the bytes that reach the decoder are bytes that were written, in
\* order and none twice, and none is missing as long as the link stays up and the
\* buffers have room: all that a transport may do to a frame is to lose bytes of it.
ImplementsStream == Stream!Spec

\* What an application was told is still so when it acts on it, although the line
\* goes on meanwhile: readByte finds a byte, or a link that is down, and does not
\* wait, although LinuxSerialBus's blocks for a byte; and a frame's first byte is
\* neither waited for nor dropped for want of room.
AnswersHold ==
  asks =>
    /\ reader = "asked" => rx # <<>> \/ link = "down"
    /\ reader # "waiting"
    /\ writer = "writing" /\ left = PacketLen => Room \/ link = "down"

\* writePacket returns, although two of the buses wait for room; and what it wrote leaves the
\* buffer while the link is up, also after cuts. It may stay only in PicoUsbBus's, if the port
\* was closed when the packet was flushed: until a later packet is.
PacketsLeave ==
  /\ writer = "writing" ~> writer # "writing"
  /\ (writer = "idle" /\ fifo # <<>>) ~>
       (fifo = <<>> \/ link = "down" \/ (from = "usb" /\ cuts > 0 /\ ~pushed))
=============================================================================
