------------------------------- MODULE HostBus -------------------------------
(***************************************************************************)
(* The host's end of a bus: IBus (src/duino_bus/bus.py) over a serial port *)
(* (src/duino_bus/serial_bus.py). Two threads share it without a lock: the *)
(* application, which opens, sends commands and closes, and                *)
(* incoming_data_thread, which decodes what arrives and puts responses on  *)
(* recv_queue. There is one decoder and one Packet for it to decode into;  *)
(* recv_queue holds references to that Packet, never copies.               *)
(*                                                                         *)
(* A frame on its way to the host is abstracted to what its packet says    *)
(* and the codes other than NOT_DONE that decode_byte returns for it. It   *)
(* is decoded in a first step, which overwrites the packet, and one step   *)
(* per code. The device and the line are the environment.                  *)
(***************************************************************************)
EXTENDS Naturals, Sequences, Frames

CONSTANTS
  MaxCommands,      \* bound: calls of send_command_get_response
  MaxExcess,        \* bound: bytes of a frame past MAX_DATA_LEN
  MaxOpens,         \* bound: calls of open
  Disturbances,     \* the kinds of disturbance a behaviour may contain
  MaxDisturbances   \* bound: how many of them

\* A write timeout, a log message, one whose text is not UTF-8, an event, a frame that
\* arrives damaged, cut or too long, a POLLERR from the port.
DisturbanceKind == {"writeError", "LOG", "rawText", "EVENT", "damaged", "pollError"}

ASSUME DisturbancesAssumption == Disturbances \subseteq DisturbanceKind

ASSUME BoundsAssumption == {MaxCommands, MaxExcess, MaxOpens, MaxDisturbances} \subseteq Nat

VARIABLES
  serial,           \* the port: not opened yet, open, closed, or the reference is None
  app,              \* where the application is
  n,                \* the number of the latest command
  reader,           \* where incoming_data_thread is, "none" if there is none
  decoded,          \* how much of the frame at hand decode_byte has seen
  torn,             \* TRUE if decode_byte is in a frame whose rest was discarded
  packet,           \* decoder.packet
  recv_queue,       \* references to packet, as what it held when they were put
  result,           \* what the latest command returned
  toDevice,         \* commands written and not yet handled by the device
  toHost,           \* frames written by the device and not yet decoded
  count             \* history: how often each of Counted happened; bounds read it

vars == <<serial, app, n, reader, decoded, torn, packet, recv_queue, result,
          toDevice, toHost, count>>

appVars     == <<app, n, result>>
decoderVars == <<decoded, torn, packet>>

\* DAMAGED_LOG: a packet whose command is LOG and whose data may be anything.
Kind == {"RSP", "LOG", "EVENT", "DAMAGED_LOG"}

\* What a packet says (for a response, to which command), and the code with
\* which it was completed, NOT_DONE while its bytes are still arriving.
PacketValue ==
  [kind : Kind \cup {"BLANK"},
   n    : 0..MaxCommands,
   err  : {"NOT_DONE", "NONE", "CRC", "TOO_SMALL", "TOO_MUCH_DATA"}]

\* The codes that end a call of process_byte with something to process: each of the
\* bytes past MAX_DATA_LEN yields a TOO_MUCH_DATA, and the CRC may be good by chance.
Overlong(excess, err) == [i \in 1..(excess + 1) |-> IF i <= excess THEN "TOO_MUCH_DATA" ELSE err]

Codes == {<<"TOO_SMALL">>} \cup {Overlong(excess, err) : excess \in 0..MaxExcess, err \in {"NONE", "CRC"}}

Frame == [kind : Kind, n : 0..MaxCommands, codes : Codes]

\* A damaged frame may pass for a log message or for what is queued like a response, and
\* its CRC may be good; it answers nothing.
Damaged == [kind : {"RSP", "DAMAGED_LOG"}, n : {0}, codes : Codes]

Garbled(kind) == IF kind = "LOG" THEN "DAMAGED_LOG" ELSE kind

\* What is counted besides disturbances: calls of open, calls that timed out, bytes past
\* MAX_DATA_LEN, frames cut by a close, and the disturbances so far.
Counted == DisturbanceKind \cup {"open", "timeout", "excess", "torn", "all"}

Count(what) == count' = [count EXCEPT ![what] = @ + 1]

Disturb(kind) ==
  /\ kind \in Disturbances
  /\ count["all"] < MaxDisturbances
  /\ count' = [count EXCEPT !["all"] = @ + 1, ![kind] = @ + 1]

Init ==
  /\ serial = "unopened"
  /\ app = "idle"
  /\ n = 0
  /\ reader = "none"
  /\ decoded = 0
  /\ torn = FALSE
  /\ packet = [kind |-> "BLANK", n |-> 0, err |-> "NOT_DONE"]
  /\ recv_queue = <<>>
  /\ result = [err |-> "NOT_DONE", n |-> 0]
  /\ toDevice = <<>>
  /\ toHost = <<>>
  /\ count = [what \in Counted |-> 0]
-----------------------------------------------------------------------------
(***************************************************************************)
(* The application.                                                        *)
(***************************************************************************)

\* SerialBus.is_open. It holds before the first open, too.
is_open == serial # "none"

\* SerialBus.open and IBus.bus_opened: a new thread, the old decoder and queue.
Open ==
  /\ app = "idle"
  /\ serial # "open"
  /\ count["open"] < MaxOpens
  /\ Count("open")
  /\ serial' = "open"
  /\ reader' = "top"
  /\ UNCHANGED <<appVars, decoderVars, recv_queue, toDevice, toHost>>

Return(err) ==
  /\ app' = "idle"
  /\ result' = [err |-> err, n |-> n']

\* send_command_get_response is called. write_byte raises on an unopened port.
SendCommand ==
  /\ app = "idle"
  /\ n < MaxCommands
  /\ n' = n + 1
  /\ IF ~is_open THEN Return("NOT_OPEN")
     ELSE IF serial = "unopened" THEN Return("RAISED")
     ELSE app' = "writing" /\ UNCHANGED result
  /\ UNCHANGED <<serial, reader, decoderVars, recv_queue, toDevice, toHost, count>>

\* write_packet returns NONE.
Written ==
  /\ app = "writing"
  /\ app' = "waiting"
  /\ toDevice' = Append(toDevice, n)
  /\ UNCHANGED <<serial, n, reader, decoderVars, recv_queue, result, toHost, count>>

\* Faulty WriteError: the command is sent again, as another one.
WriteErrorRetrying ==
  /\ app = "writing"
  /\ Disturb("writeError")
  /\ n' = n + 1
  /\ UNCHANGED <<serial, app, result, reader, decoderVars, recv_queue, toDevice, toHost>>

\* write_packet returns OS: write_byte timed out, and part of a frame is out. If only its
\* closing END is missing, the opening END of the next command completes it, and the device
\* may take it for a command, and will not see the next one; or the END was written, too, and
\* serial.write timed out waiting for the port to be ready again. When the device deals with
\* it, and whether it does with the next one, is left to Answer.
WriteError ==
  /\ app = "writing"
  /\ Disturb("writeError")
  /\ toDevice' \in {toDevice, Append(toDevice, n)}
  /\ UNCHANGED n
  /\ Return("OS")
  /\ UNCHANGED <<serial, reader, decoderVars, recv_queue, toHost>>

\* recv_queue.get returns a reference.
Get ==
  /\ app = "waiting"
  /\ recv_queue # <<>>
  /\ app' = "got"
  /\ recv_queue' = Tail(recv_queue)
  /\ UNCHANGED <<serial, n, reader, decoderVars, result, toDevice, toHost, count>>

\* Faulty Timeout: get is called without one.
TimeoutNever == FALSE /\ UNCHANGED vars

\* recv_queue.get raises queue.Empty after the timeout.
Timeout ==
  /\ app = "waiting"
  /\ recv_queue = <<>>
  /\ Count("timeout")
  /\ UNCHANGED n
  /\ Return("TIMEOUT")
  /\ UNCHANGED <<serial, reader, decoderVars, recv_queue, toDevice, toHost>>

\* The call has returned (NONE, packet), and the caller looks at the packet.
Use ==
  /\ app = "got"
  /\ app' = "idle"
  /\ result' = [err |-> "NONE", n |-> n, pkt |-> packet]
  /\ UNCHANGED <<serial, n, reader, decoderVars, recv_queue, toDevice, toHost, count>>

\* SerialBus.close, up to self.serial.close(): what has arrived is discarded.
ClosePort ==
  /\ app = "idle"
  /\ serial = "open"
  /\ serial' = "closed"
  /\ toHost' = <<>>
  /\ IF decoded > 0
     THEN torn' = TRUE /\ Count("torn")
     ELSE UNCHANGED <<torn, count>>
  /\ app' = "closing"
  /\ UNCHANGED <<n, reader, decoded, packet, recv_queue, result, toDevice>>

\* Faulty ForgetPort: close returns without joining the thread.
ForgetPortUnjoined ==
  /\ app = "closing"
  /\ serial' = "none"
  /\ app' = "idle"
  /\ UNCHANGED <<n, reader, decoderVars, recv_queue, result, toDevice, toHost, count>>

\* self.serial = None, and into bus_closed.
ForgetPort ==
  /\ app = "closing"
  /\ serial' = "none"
  /\ app' = "joining"
  /\ UNCHANGED <<n, reader, decoderVars, recv_queue, result, toDevice, toHost, count>>

\* bus_closed: thread.join() returns once incoming_data_thread is over.
Join ==
  /\ app = "joining"
  /\ reader \in {"exited", "raised"}
  /\ reader' = "none"
  /\ app' = "idle"
  /\ UNCHANGED <<serial, n, decoderVars, recv_queue, result, toDevice, toHost, count>>
-----------------------------------------------------------------------------
(***************************************************************************)
(* incoming_data_thread.                                                   *)
(***************************************************************************)
Goto(pc) == reader' = pc /\ UNCHANGED decoderVars

\* Faulty CheckOpen: the loop does not look whether the bus is open.
CheckNothing ==
  /\ reader = "top"
  /\ Goto("poll")
  /\ UNCHANGED <<serial, appVars, recv_queue, toDevice, toHost, count>>

\* while True: if not self.is_open(): break
CheckOpen ==
  /\ reader = "top"
  /\ Goto(IF is_open THEN "poll" ELSE "exited")
  /\ UNCHANGED <<serial, appVars, recv_queue, toDevice, toHost, count>>

\* Faulty Poll: the thread ends when the poll times out.
PollOnce ==
  /\ reader = "poll"
  /\ Goto(IF serial = "open" /\ toHost # <<>> THEN "available" ELSE "exited")
  /\ UNCHANGED <<serial, appVars, recv_queue, toDevice, toHost, count>>

\* Faulty Poll: data is looked at only while a call waits for its response.
PollForResponse ==
  /\ reader = "poll"
  /\ Goto(IF serial = "open" /\ toHost # <<>> /\ app = "waiting" THEN "available" ELSE "top")
  /\ UNCHANGED <<serial, appVars, recv_queue, toDevice, toHost, count>>

\* poll.poll(500): a closed port reports POLLNVAL, which is not looked at.
Poll ==
  /\ reader = "poll"
  /\ Goto(IF serial = "open" /\ toHost # <<>> THEN "available" ELSE "top")
  /\ UNCHANGED <<serial, appVars, recv_queue, toDevice, toHost, count>>

\* POLLERR: the thread returns, and the bus stays open.
PollError ==
  /\ reader = "poll"
  /\ serial = "open"
  /\ Disturb("pollError")
  /\ Goto("exited")
  /\ UNCHANGED <<serial, appVars, recv_queue, toDevice, toHost>>

\* process_byte: is_data_available. A port closed since raises.
IsDataAvailable ==
  /\ reader = "available"
  /\ Goto(CASE serial = "none"   -> "top"
            [] serial = "closed" -> "raised"
            [] OTHER             -> IF toHost # <<>> THEN "read" ELSE "top")
  /\ UNCHANGED <<serial, appVars, recv_queue, toDevice, toHost, count>>

\* read_byte when there is nothing left to read from.
ReadNothing ==
  /\ reader = "read"
  /\ serial # "open" \/ toHost = <<>>
  /\ Goto(IF serial = "closed" THEN "raised" ELSE "top")
  /\ UNCHANGED <<serial, appVars, recv_queue, toDevice, toHost, count>>

\* read_byte finds a byte, and decode_byte runs it.
Decoding == reader = "read" /\ serial = "open" /\ toHost # <<>>

\* Faulty DecodeFirst: a packet is processed before it is complete.
DecodeFirstProcessing ==
  /\ Decoding
  /\ decoded = 0
  /\ decoded' = 1
  /\ packet' = [kind |-> Head(toHost).kind, n |-> Head(toHost).n, err |-> "NOT_DONE"]
  /\ reader' = "process"
  /\ UNCHANGED <<serial, appVars, torn, recv_queue, toDevice, toHost, count>>

\* ... up to a NOT_DONE that overwrites the packet.
DecodeFirst ==
  /\ Decoding
  /\ decoded = 0
  /\ decoded' = 1
  /\ packet' = [kind |-> Head(toHost).kind, n |-> Head(toHost).n, err |-> "NOT_DONE"]
  /\ reader' = "top"
  /\ UNCHANGED <<serial, appVars, torn, recv_queue, toDevice, toHost, count>>

\* ... with a result to process.
DecodeNext ==
  /\ Decoding
  /\ decoded > 0 /\ ~torn
  /\ LET codes == Head(toHost).codes
     IN  /\ packet' = [packet EXCEPT !.err = codes[decoded]]
         /\ IF decoded = Len(codes)
            THEN decoded' = 0 /\ toHost' = Tail(toHost) /\ UNCHANGED count
            ELSE decoded' = decoded + 1 /\ Count("excess") /\ UNCHANGED toHost
  /\ reader' = "process"
  /\ UNCHANGED <<serial, appVars, torn, recv_queue, toDevice>>

\* ... in a frame whose rest was discarded by a close. The next frame's opening
\* END ends it. If no data was seen, it is also the one that opens that frame;
\* otherwise the CRC is bad, or good by chance, and that frame is skipped.
DecodeTorn ==
  /\ Decoding
  /\ torn
  /\ torn' = FALSE
  /\ decoded' = 0
  /\ \E err \in {"TOO_SMALL", "CRC", "NONE"} :
       /\ packet' = [kind |-> Garbled(packet.kind), n |-> 0, err |-> err]
       /\ toHost' = IF err = "TOO_SMALL" THEN toHost ELSE Tail(toHost)
  /\ reader' = "process"
  /\ UNCHANGED <<serial, appVars, recv_queue, toDevice, count>>

\* Faulty ProcessPacket: log messages are queued, too.
ProcessPacketAll ==
  /\ reader = "process"
  /\ recv_queue' = Append(recv_queue, packet)
  /\ Goto("top")
  /\ UNCHANGED <<serial, appVars, toDevice, toHost, count>>

\* process_packet, whatever the code was: a log message is unpacked, which raises if it is
\* empty or its text is not UTF-8, and may if it is damaged; all else is a response.
ProcessPacket ==
  /\ reader = "process"
  /\ IF packet.kind \in {"LOG", "DAMAGED_LOG"}
     THEN /\ \/ packet.err # "TOO_SMALL" /\ Goto("top") /\ UNCHANGED count
             \/ packet.kind = "DAMAGED_LOG" /\ Goto("raised") /\ UNCHANGED count
             \/ packet.kind = "LOG" /\ Disturb("rawText") /\ Goto("raised")
          /\ UNCHANGED recv_queue
     ELSE /\ recv_queue' = Append(recv_queue, packet)
          /\ Goto("top")
          /\ UNCHANGED count
  /\ UNCHANGED <<serial, appVars, toDevice, toHost>>
-----------------------------------------------------------------------------
(***************************************************************************)
(* The line, and the device, which is any that Device describes; it writes *)
(* only while its port is open. Its buffer may have been full at any time. *)
(***************************************************************************)
D == INSTANCE Device WITH
       received <- n,
       pending  <- toDevice,
       ignored  <- 0,
       frames   <- toHost,
       steady   <- serial = "open" /\ count["open"] = 0

\* The device deals with the oldest command in its own time: it answers or, for a
\* reason the host does not see, it does not.
Answer ==
  /\ UNCHANGED <<serial, appVars, reader, decoderVars, recv_queue, count>>
  /\ D!Lose \/ (serial = "open" /\ D!Answer)

\* A log message or an event.
Unsolicited ==
  \E kind \in {"LOG", "EVENT"} :
    /\ Disturb(kind)
    /\ UNCHANGED <<serial, appVars, reader, decoderVars, recv_queue>>
    /\ serial = "open"
    /\ D!Send(kind)

\* Noise makes the newest frame another one, or hides it, the device's buffer had no room
\* for all of it, or the device sends one that is too long.
Damage ==
  /\ Disturb("damaged")
  /\ Len(toHost) > 1 \/ (toHost # <<>> /\ decoded = 0)
  /\ \/ \E frame \in Damaged : toHost' = [toHost EXCEPT ![Len(toHost)] = frame]
     \/ toHost' = SubSeq(toHost, 1, Len(toHost) - 1)
  /\ UNCHANGED <<serial, appVars, reader, decoderVars, recv_queue, toDevice>>
-----------------------------------------------------------------------------
AppNext ==
  \/ Open \/ SendCommand \/ Written \/ WriteError \/ Get \/ Timeout \/ Use
  \/ ClosePort \/ ForgetPort \/ Join

ReaderNext ==
  \/ CheckOpen \/ Poll \/ PollError \/ IsDataAvailable \/ ReadNothing
  \/ DecodeFirst \/ DecodeNext \/ DecodeTorn \/ ProcessPacket

DeviceNext == Answer \/ Unsolicited \/ Damage

Next == AppNext \/ ReaderNext \/ DeviceNext

\* Both threads are scheduled, writes end and the timeout of get expires.
\* Nothing is asked of the device, nor that the application calls anything.
Fairness ==
  /\ WF_vars(Written \/ WriteError \/ Get \/ Timeout \/ Use)
  /\ WF_vars(ForgetPort) /\ WF_vars(Join)
  /\ WF_vars(ReaderNext)

Spec == Init /\ [][Next]_vars

FairSpec == Spec /\ Fairness
-----------------------------------------------------------------------------
TypeOK ==
  /\ serial \in {"unopened", "open", "closed", "none"}
  /\ app \in {"idle", "writing", "waiting", "got", "closing", "joining"}
  /\ n \in 0..MaxCommands
  /\ reader \in {"none", "top", "poll", "available", "read", "process", "exited", "raised"}
  /\ decoded \in 0..(MaxExcess + 1)
  /\ torn \in BOOLEAN
  /\ packet \in PacketValue
  /\ recv_queue \in Seq(PacketValue)
  /\ toDevice \in Seq(1..MaxCommands)
  /\ toHost \in Seq(Frame)
  /\ count \in [Counted -> Nat]

\* None of these has happened.
Free(happenings) == \A what \in happenings : count[what] = 0

\* What incoming_data_thread queues are answers to commands that were sent, in their order
\* and none twice, however many are late or belong to a command whose write failed; and if
\* none is or does, it is the one to the command in progress, while its caller waits for it.
Correlated ==
  Free({"EVENT", "damaged", "torn"}) =>
    /\ \A i \in 1..Len(recv_queue) :
         /\ recv_queue[i] = [kind |-> "RSP", n |-> recv_queue[i].n, err |-> "NONE"]
         /\ recv_queue[i].n \in 1..n
         /\ \A j \in 1..(i - 1) : recv_queue[j].n < recv_queue[i].n
    /\ Free({"timeout", "writeError"}) /\ recv_queue # <<>> =>
         app = "waiting" /\ Len(recv_queue) = 1 /\ recv_queue[1].n = n

\* What the caller finds in the packet it got is the whole answer to its command.
AnswersCommand ==
  result.err = "NONE" => result.pkt = [kind |-> "RSP", n |-> result.n, err |-> "NONE"]

\* ... as long as every command is written and answered in time and the device says no more.
AnswersUndisturbed ==
  Free({"timeout", "writeError", "LOG", "EVENT", "damaged", "torn"}) => AnswersCommand

\* Between calls, recv_queue holds no more stale entries than there were timeouts, failed
\* writes, events, frames in error and bytes past MAX_DATA_LEN: nothing else makes later
\* calls return an earlier answer.
BoundedDrift ==
  app = "idle" =>
    Len(recv_queue) <=
      count["timeout"] + count["writeError"] + count["EVENT"] + count["damaged"]
        + count["excess"] + count["torn"]

\* The reader of an open bus stops over nothing but frames in error, a POLLERR and log
\* messages that are not UTF-8: not because an earlier session was closed under it.
ReaderSurvives ==
  serial = "open" /\ Free({"rawText", "damaged", "torn", "pollError"}) =>
    reader \notin {"none", "exited", "raised"}

\* When close has returned, incoming_data_thread is over: it cannot touch the
\* decoder that the next open's thread will use.
NoReaderWhenClosed == app = "idle" /\ serial # "open" => reader = "none"

\* send_command_get_response returns, whatever the device and the reader do.
CallReturns == app \in {"writing", "waiting", "got"} ~> app = "idle"

\* close returns: the reader notices within its poll, or has died.
CloseReturns == app = "closing" ~> app = "idle"

\* What arrives is decoded, whether or not a call is in progress.
ReaderKeepsUp ==
  toHost # <<>> ~> (toHost = <<>> \/ reader \in {"none", "exited", "raised"})

\* ErrorCode.NONE is "No Error", ErrorCode.CRC "CRC error occurred during
\* parsing": a packet that failed its CRC is not returned with NONE.
NoErrorMeansNone == result.err = "NONE" => result.pkt.err # "CRC"
=============================================================================
