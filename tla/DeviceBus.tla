------------------------------ MODULE DeviceBus ------------------------------
(***************************************************************************)
(* The device's end of a bus: IBus (src/src/Bus.cpp) with the core packet  *)
(* handler (src/src/CorePacketHandler.cpp) and a handler of the            *)
(* application, log messages sent over the same bus (src/src/BusLog.cpp),  *)
(* and the USB port (src/src/PicoUsbBus.cpp): its connection flag, and     *)
(* TinyUSB's buffer, of which it is told whether there is room in it.      *)
(*                                                                         *)
(* One thread runs the main loop, which calls processByte and, on NONE,    *)
(* handlePacket. calls is its stack, innermost last: a call of do_log, or  *)
(* one of writePacket, whose loop uses the bus's only encoder. The USB     *)
(* callback interrupts it anywhere. A frame is written as three pieces,    *)
(* the opening END, the body and the closing END.                          *)
(***************************************************************************)
EXTENDS SequencesExt, Frames

CONSTANTS
  CmdCap, RspCap, LogCap,   \* m_maxDataLen of the command, response and log packet
  WordLen,                  \* sizeof(uint32_t)
  ByteRange,                \* number of values of a uint8_t
  MaxText,                  \* bound: length of a formatted log message
  MaxCommands,              \* bound: commands received
  MaxNotices,               \* bound: events, log messages and damaged frames
  MaxToggles,               \* bound: changes of the connection flag or the buffer
  MaxDepth                  \* the depth of calls at which the stack overflows

ASSUME BoundsAssumption ==
  {CmdCap, WordLen, ByteRange, MaxText, MaxCommands, MaxNotices, MaxToggles, MaxDepth}
    \subseteq Nat \ {0}

\* The stack holds what every configuration needs: the dump of a packet, logged while the
\* packet is written, in the place of a message that was itself logged after another one.
ASSUME MaxDepthAssumption == MaxDepth >= 3

\* The capacities an application must choose. The response holds five words for
\* HEAP_INFO, and whatever data a PING may have come with; a command's data has
\* the CRC behind it while it is received.
ASSUME RspCapAssumption == RspCap \in Nat /\ RspCap >= 5 * WordLen /\ RspCap >= CmdCap - 1

\* The log packet holds a level, a length and a terminator at least, and no more
\* text than a length byte counts.
ASSUME LogCapAssumption == LogCap \in 3..(ByteRange + 1)

VARIABLES
  connected,        \* g_isConnected[m_intf]
  room,             \* TRUE if TinyUSB's buffer has room for the next piece
  debug,            \* m_debug of the decoder and the encoder
  m_handlers,       \* the packet handlers added so far
  logging,          \* which messages reach do_log, and a log packet to put them in
  main,             \* where the main loop is
  calls,            \* the calls in progress
  packets,          \* what the command, response, log and event packet hold
  m_packet,         \* which of them the encoder is encoding
  phase,            \* the encoder's position: the piece it writes next
  out,              \* the pieces written to the USB endpoint
  frames,           \* history: what the frames whose writePacket has returned amount to
  due,              \* history: the answers the commands handled so far call for
  count,            \* commands, notices and toggles so far, for the bounds
  writes            \* history: the number of the latest writePacket

vars == <<connected, room, debug, m_handlers, logging, main, calls, packets, m_packet, phase, out,
          frames, due, count, writes>>

encoderVars == <<m_packet, phase, out, frames, writes>>
setup == <<m_handlers, logging>>

Core == {"PING", "DEBUG", "STACK_INFO", "HEAP_INFO"}

\* A packet: its command, how much data it holds, the number of the command that
\* its contents answer, and the length byte of its string, if it has one.
Packet(command, len, n, str) == [command |-> command, len |-> len, n |-> n, str |-> str]

Blank == Packet("NONE", 0, 0, 0)

Init ==
  /\ connected \in BOOLEAN
  /\ room = TRUE
  /\ debug = FALSE
  /\ logging \in {"nothing", "errors", "everything"}
  /\ m_handlers = {}
  /\ main = "starting"
  /\ calls = <<>>
  /\ packets = [which \in {"cmd", "rsp", "log", "evt"} |-> Blank]
  /\ m_packet = "none"
  /\ phase = 1
  /\ out = <<>>
  /\ frames = <<>>
  /\ due = <<>>
  /\ count = [what \in {"command", "notice", "toggle"} |-> 0]
  /\ writes = 0

Count(what, bound) ==
  /\ count[what] < bound
  /\ count' = [count EXCEPT ![what] = @ + 1]

\* Calls of Log::error or Log::info, which reach do_log if the level passes, and
\* of writePacket.
LogCall(level) == [op |-> "log", arg |-> level, w |-> 0]
WriteCall(which) == [op |-> "start", arg |-> which, w |-> 0]

Quiet == main = "idle" /\ calls = <<>>

Top == calls[Len(calls)]

Caller == SubSeq(calls, 1, Len(calls) - 1)

Running(op) == main # "overflow" /\ calls # <<>> /\ Top.op = op
-----------------------------------------------------------------------------
(***************************************************************************)
(* The main loop: what arrives, and what the application does of itself.   *)
(***************************************************************************)

\* Handlers are added, the core one and one of the application, before the main loop
\* runs. Their commands differ, and with them nothing depends on the order.
add(handler) ==
  /\ main = "starting"
  /\ m_handlers' = m_handlers \cup {handler}
  /\ UNCHANGED <<connected, room, debug, logging, main, calls, packets, encoderVars, due, count>>

Start ==
  /\ main = "starting"
  /\ main' = "idle"
  /\ UNCHANGED <<connected, room, debug, setup, calls, packets, encoderVars, due, count>>

\* What data a command comes with matters to PING alone: none, or all that fits.
DataLengths(command) == IF command = "PING" THEN {0, CmdCap - 1} ELSE {0}

\* processByte returns NONE. With debug on, the decoder has dumped the packet.
ReceiveCommand ==
  /\ Quiet
  /\ Count("command", MaxCommands)
  /\ \E command \in Core \cup {"OTHER"} : \E len \in DataLengths(command) :
       packets' = [packets EXCEPT !["cmd"] = Packet(command, len, count'["command"], 0)]
  /\ calls' = IF debug THEN <<LogCall("info")>> ELSE <<>>
  /\ main' = "received"
  /\ UNCHANGED <<connected, room, debug, setup, encoderVars, due>>

\* processByte returns CRC: the decoder has logged the error, and with debug on
\* dumped the packet.
ReceiveDamaged ==
  /\ Quiet
  /\ Count("notice", MaxNotices)
  /\ calls' = IF debug THEN <<LogCall("info"), LogCall("error")>> ELSE <<LogCall("error")>>
  /\ UNCHANGED <<connected, room, debug, setup, main, packets, encoderVars, due>>

\* The application logs something, or writes an event.
Notice ==
  /\ Quiet
  /\ Count("notice", MaxNotices)
  /\ \/ \E level \in {"error", "info"} :
          calls' = <<LogCall(level)>> /\ UNCHANGED packets
     \/ /\ calls' = <<WriteCall("evt")>>
        /\ packets' = [packets EXCEPT !["evt"] = Packet("EVENT", 0, 0, 0)]
  /\ UNCHANGED <<connected, room, debug, setup, main, encoderVars, due>>
-----------------------------------------------------------------------------
(***************************************************************************)
(* IBus::handlePacket. Each handler turns the command and the response     *)
(* packet into [rsp, debug, answers] for one of the ways it may go, where  *)
(* answers is history: whether the command calls for an answer.            *)
(***************************************************************************)
setCommand(pkt, command) == [pkt EXCEPT !.command = command]

setData(pkt, len) == [pkt EXCEPT !.len = len]

append(pkt, len) == [pkt EXCEPT !.len = @ + len]

\* Faulty clear: the response packet is not emptied for the next command.
clearNothing(pkt) == pkt

\* handlePacket empties the response packet before any handler sees it.
clear(pkt) == setData(setCommand(pkt, "NONE"), 0)

Answer(rsp) == [rsp |-> rsp, debug |-> debug, answers |-> TRUE]

handlePing(cmd, rsp) == {Answer(setData(setCommand(rsp, "PING"), cmd.len))}

\* Of the decoder and the encoder.
setDebug(r, flag) == [r EXCEPT !.debug = flag]

\* flags is what the data says or, if there is too little of it, uninitialized.
handleDebug(cmd, rsp) ==
  {setDebug(Answer(append(setCommand(rsp, "DEBUG"), WordLen)), flag) : flag \in BOOLEAN}

handleStackInfo(cmd, rsp) == {Answer(append(setCommand(rsp, "STACK_INFO"), 3 * WordLen))}

handleHeapInfo(cmd, rsp) == {Answer(append(setCommand(rsp, "HEAP_INFO"), 5 * WordLen))}

\* A handler of the application: it answers, has nothing to answer, or forgets
\* the command of its answer. It keeps within the packet's capacity.
handleOther(cmd, rsp) ==
  {Answer(append(setCommand(rsp, "OTHER"), WordLen)),
   [Answer(rsp) EXCEPT !.answers = FALSE],
   [Answer(append(rsp, WordLen)) EXCEPT !.answers = FALSE]}

Handle(cmd, rsp) ==
  CASE cmd.command = "PING"       -> handlePing(cmd, rsp)
    [] cmd.command = "DEBUG"      -> handleDebug(cmd, rsp)
    [] cmd.command = "STACK_INFO" -> handleStackInfo(cmd, rsp)
    [] cmd.command = "HEAP_INFO"  -> handleHeapInfo(cmd, rsp)
    [] OTHER                      -> handleOther(cmd, rsp)

\* The answer a command calls for: PING echoes the data it came with.
AnswerTo(cmd) ==
  Packet(cmd.command,
         CASE cmd.command = "PING"       -> cmd.len
           [] cmd.command = "STACK_INFO" -> 3 * WordLen
           [] cmd.command = "HEAP_INFO"  -> 5 * WordLen
           [] OTHER                      -> WordLen,
         cmd.n, 0)

HandlerOf(cmd) == IF cmd.command \in Core THEN "core" ELSE "app"

\* A handler takes the command: the response is written if it has a command.
HandlePacket ==
  /\ main = "received" /\ calls = <<>>
  /\ HandlerOf(packets["cmd"]) \in m_handlers
  /\ main' = "idle"
  /\ LET cmd == packets["cmd"]
     IN  \E r \in Handle(cmd, [clear(packets["rsp"]) EXCEPT !.n = cmd.n]) :
           /\ packets' = [packets EXCEPT !["rsp"] = r.rsp]
           /\ debug' = r.debug
           /\ calls' = IF r.rsp.command # "NONE" THEN <<WriteCall("rsp")>>
                       ELSE IF r.rsp.len > 0 THEN <<LogCall("error")>>
                       ELSE <<>>
           /\ due' = IF r.answers THEN Append(due, AnswerTo(cmd)) ELSE due
  /\ UNCHANGED <<connected, room, setup, encoderVars, count>>

\* No handler takes it.
HandleNothing ==
  /\ main = "received" /\ calls = <<>>
  /\ HandlerOf(packets["cmd"]) \notin m_handlers
  /\ main' = "idle"
  /\ packets' = [packets EXCEPT !["rsp"] = [clear(@) EXCEPT !.n = packets["cmd"].n]]
  /\ calls' = <<LogCall("error")>>
  /\ UNCHANGED <<connected, room, debug, setup, encoderVars, due, count>>
-----------------------------------------------------------------------------
(***************************************************************************)
(* BusLog::do_log.                                                         *)
(***************************************************************************)

\* Faulty log_char_to_packet: no room is left for the terminator.
log_char_to_packetFull(space) == space > 0

\* A character is stored while this much space is left in the log packet.
log_char_to_packet(space) == space > 1

\* A message of k characters: level, length byte, what fits of it, terminator.
Logged(k) ==
  LET bytes_written == Cardinality({i \in 0..(k - 1) : log_char_to_packet(LogCap - 2 - i)})
  IN  Packet("LOG", bytes_written + 3, 0, (bytes_written + 1) % ByteRange)

Passes(level) == logging = "everything" \/ (logging = "errors" /\ level = "error")

DoLog ==
  /\ Running("log")
  /\ IF Passes(Top.arg)
     THEN /\ \E k \in 0..MaxText : packets' = [packets EXCEPT !["log"] = Logged(k)]
          /\ calls' = Append(Caller, WriteCall("log"))
     ELSE /\ calls' = Caller
          /\ UNCHANGED packets
  /\ UNCHANGED <<connected, room, debug, setup, main, encoderVars, due, count>>
-----------------------------------------------------------------------------
(***************************************************************************)
(* IBus::writePacket.                                                      *)
(***************************************************************************)
InLoop(w) == [op |-> "loop", arg |-> Top.arg, w |-> w]

\* encodeStart. With debug on it dumps the packet, which logs it, before it
\* resets the encoder. A dump's lines are one message here.
EncodeStart ==
  /\ Running("start")
  /\ m_packet' = Top.arg
  /\ writes' = writes + 1
  /\ IF ~debug
     THEN phase' = 1 /\ calls' = Append(Caller, InLoop(writes')) /\ UNCHANGED main
     ELSE /\ IF Len(calls) < MaxDepth
             THEN /\ calls' = Caller \o <<[op |-> "dumped", arg |-> Top.arg, w |-> writes'],
                                         LogCall("info")>>
                  /\ UNCHANGED main
             ELSE main' = "overflow" /\ UNCHANGED calls
          /\ UNCHANGED phase
  /\ UNCHANGED <<connected, room, debug, setup, packets, out, frames, due, count>>

\* ... m_state = State::IDLE.
EncodeReset ==
  /\ Running("dumped")
  /\ phase' = 1
  /\ calls' = Append(Caller, InLoop(Top.w))
  /\ UNCHANGED <<connected, room, debug, setup, main, packets, m_packet, out, frames, due, count, writes>>

\* What the frame of the w-th writePacket amounts to for the host, if any of its pieces
\* was written: an answer if all are there, whole, and say what some command calls for.
FrameOf(w, pieces) ==
  LET mine  == {j \in DOMAIN pieces : pieces[j].w = w}
      i     == Min(mine)
      pkt   == pieces[i].pkt
      whole == i + 2 <= Len(pieces) /\ \A j \in 0..2 : /\ pieces[i + j].w = w
                                                       /\ pieces[i + j].piece = j + 1
                                                       /\ pieces[i + j].pkt = pkt
                                                       /\ pieces[i + j].extent = "whole"
  IN  IF mine = {} THEN <<>>
      ELSE IF ~whole THEN <<Cut>>
      ELSE IF pkt.command \in {"LOG", "EVENT"} THEN <<Message(pkt.command)>>
      ELSE IF pkt \in ToSet(due) THEN <<Response(pkt.n)>>
      ELSE <<Cut>>

Piece(extent) ==
  [w |-> Top.w, piece |-> phase, pkt |-> packets[m_packet], extent |-> extent]

\* What out may be after writeByte was given the next piece: it drops what it is given while
\* the host has not opened the port, and what does not fit in the buffer, whose answer it
\* does not look at; of a body, that may be some bytes only.
PieceWritten ==
  IF connected /\ room THEN {Append(out, Piece("whole"))}
  ELSE {out} \cup (IF phase = 2 THEN {Append(out, Piece("part"))} ELSE {})

\* writePacket returns.
Return ==
  /\ phase' = 1
  /\ calls' = Caller
  /\ frames' = frames \o FrameOf(Top.w, out')

\* Faulty WriteByte: the frame does not end with its closing END.
WriteByteOneMore ==
  /\ Running("loop")
  /\ out' \in PieceWritten
  /\ IF phase > 3 THEN Return ELSE phase' = phase + 1 /\ UNCHANGED <<calls, frames>>
  /\ UNCHANGED <<connected, room, debug, setup, main, packets, m_packet, due, count, writes>>

\* Faulty WriteByte: a byte that cannot be written is logged.
WriteByteLogging ==
  /\ Running("loop")
  /\ IF connected
     THEN /\ out' \in PieceWritten
          /\ IF phase = 3 THEN Return ELSE phase' = phase + 1 /\ UNCHANGED <<calls, frames>>
          /\ UNCHANGED main
     ELSE /\ IF Len(calls) < MaxDepth
             THEN calls' = Append(calls, LogCall("error")) /\ UNCHANGED main
             ELSE main' = "overflow" /\ UNCHANGED calls
          /\ UNCHANGED <<out, frames, phase>>
  /\ UNCHANGED <<connected, room, debug, setup, packets, m_packet, due, count, writes>>

\* Some turns of writePacket's loop, up to the next piece's end.
WriteByte ==
  /\ Running("loop")
  /\ out' \in PieceWritten
  /\ IF phase = 3 THEN Return ELSE phase' = phase + 1 /\ UNCHANGED <<calls, frames>>
  /\ UNCHANGED <<connected, room, debug, setup, main, packets, m_packet, due, count, writes>>

\* tud_cdc_line_state_cb: the host opens the port or closes it.
LineState ==
  /\ main # "overflow"
  /\ Count("toggle", MaxToggles)
  /\ connected' = ~connected
  /\ UNCHANGED <<room, debug, setup, main, calls, packets, encoderVars, due>>

\* The host falls behind with reading what was written, or catches up.
Backlog ==
  /\ main # "overflow"
  /\ Count("toggle", MaxToggles)
  /\ room' = ~room
  /\ UNCHANGED <<connected, debug, setup, main, calls, packets, encoderVars, due>>
-----------------------------------------------------------------------------
Handling == HandlePacket \/ HandleNothing

Logging == DoLog \/ EncodeStart \/ EncodeReset \/ WriteByte

Setup == Start \/ \E handler \in {"core", "app"} : add(handler)

Next == Setup \/ ReceiveCommand \/ ReceiveDamaged \/ Notice \/ Handling \/ Logging
          \/ LineState \/ Backlog

Spec == Init /\ [][Next]_vars

\* The device runs. Nothing is asked of the host.
FairSpec == Spec /\ WF_vars(Logging)
-----------------------------------------------------------------------------
TypeOK ==
  /\ connected \in BOOLEAN /\ room \in BOOLEAN /\ debug \in BOOLEAN
  /\ logging \in {"nothing", "errors", "everything"}
  /\ m_handlers \subseteq {"core", "app"}
  /\ main \in {"starting", "idle", "received", "overflow"}
  /\ \A i \in 1..Len(calls) : calls[i].op \in {"log", "start", "dumped", "loop"}
  /\ Len(calls) <= MaxDepth
  /\ DOMAIN packets = {"cmd", "rsp", "log", "evt"}
  /\ m_packet \in {"none", "rsp", "log", "evt"}
  /\ phase \in 1..3
  /\ writes \in Nat

\* The asserts of Packet::appendByte and appendData (src/src/Packet.cpp:71, 76)
\* hold, given the capacities assumed: no command with any data, and no message
\* of any length, makes a handler or do_log write past its packet.
InCapacity ==
  /\ packets["rsp"].len <= RspCap
  /\ packets["log"].len <= LogCap

\* The length byte of a log message counts its text and terminator, although it
\* is one byte and the message's length is not bounded by it.
StrLenExact ==
  packets["log"] # Blank => packets["log"].str = packets["log"].len - 2

\* Frames are not mixed on the wire, whenever the host opens and closes its port and the
\* buffer is full: a frame's pieces are of one packet and in order, and no other frame's
\* come in between. Every writePacket uses the bus's one encoder.
NotMixed ==
  \A i \in 1..(Len(out) - 1) :
    \/ out[i].w < out[i + 1].w
    \/ /\ out[i].w = out[i + 1].w
       /\ out[i].piece < out[i + 1].piece
       /\ out[i].pkt = out[i + 1].pkt

\* Only dumps that go to the bus they report about can exhaust the stack:
\* writePacket re-enters itself for no other reason.
OverflowOnlyByDebug == main = "overflow" => debug /\ logging = "everything"

Handled == packets["rsp"].n

\* The command that came last is not handled yet, or its answer is being written.
Owed == Handled < count["command"] \/ \E k \in DOMAIN calls : calls[k].arg = "rsp"

Pending == IF Owed THEN <<count["command"]>> ELSE <<>>

Ignored == Handled - Len(due)

Steady == connected /\ room /\ count["toggle"] = 0

\* The device keeps its promise to the host: commands are answered once and in order,
\* with what they call for and nothing of an earlier command or of a message that went
\* out in between, and no answer is lost or cut but by a port that is not open, or was not
\* all along, or by a buffer that has been full.
D == INSTANCE Device WITH
       received <- count["command"],
       pending  <- Pending,
       ignored  <- Ignored,
       steady   <- Steady

ImplementsDevice == D!Spec

\* A call of writePacket or do_log ends.
WritesEnd == calls # <<>> ~> (calls = <<>> \/ main = "overflow")
=============================================================================
