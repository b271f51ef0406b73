# A TLA+ model of duino_bus

duino_bus moves packets (a command byte, data bytes, a CRC-8) between a host
and a device over a byte stream: a serial port, USB CDC or a TCP socket. The
device side is C++ (`src/src`), the host side Python (`src/duino_bus`), and the
packet codec exists in both languages. This directory specifies the library in
TLA+, model-checks small instances with TLC and proves theorems about it with
TLAPS. Paths below start with `src/`, the root of the repository; `PROJECT.json`
maps every definition to the lines it models.

## Inventory

| Component | State | Operations | Hard behaviour |
|---|---|---|---|
| Packet (`Packet.cpp`, `packet.py`) | command, data, crc; capacity in C++ | setCommand, setData, append..., calcCrc, calcAndStoreCrc, extractCrc | asserts on capacity; `m_crc` starts uninitialized; a length kept in one byte |
| PacketEncoder | packet, state, encodeIdx, escapeChar | encodeStart, encodeByte | the CRC is escaped, too; index and escape char survive from packet to packet |
| PacketDecoder | packet, state, escape | decodeByte | arbitrary input; overlong, short and corrupt frames; resynchronisation; the languages differ |
| IBus, byte path (`Bus.cpp`, `bus.py`) | decoder, encoder | writePacket, processByte | a stream that loses, changes or adds bytes; `writeByte` has no result in C++ |
| IBus, host threads (`bus.py`, `serial_bus.py`) | one packet, recv_queue, thread, port | send_command_get_response, incoming_data_thread, open, close | two threads without a lock; timeouts, failed writes and late answers; log text that is not UTF-8; references on the queue; closing under the reader; reopening |
| IBus, device handlers (`Bus.cpp`, `CorePacketHandler.cpp`) | command, response, log and event packet, handlers, debug flag | handlePacket, add, setDebug, PING, DEBUG, STACK_INFO, HEAP_INFO | capacities chosen by the user; a handler's unread error; uninitialized flags |
| BusLog | the bus's log packet | do_log | called from within the bus itself when debug is on: re-entrancy of the encoder |
| PicoUsbBus | connected flag per interface; TinyUSB's buffers | tud_cdc_line_state_cb, readByte, writeByte, flush | the flag changes between two bytes of a packet; a full buffer drops bytes and nobody notices; a frame stays in the buffer until it is flushed |
| LinuxSerialBus, ArduinoSerialBus | file descriptor; the port's buffers | open, close, readByte, writeByte, isDataAvailable, isSpaceAvailable | ignored results of `write`; a `readByte` that blocks; an open that fails half-way |
| SocketBus (C++, Python) | listening and connected sockets; the kernel's buffers | setup, connect, close, readByte, writeByte | partial failure while connecting; a full buffer; a peer that is gone |
| Packer, Unpacker | a position in a packet's data | pack, unpack | underflow, string lengths, nulls in strings, UTF-8 |
| dump_mem | none | formatting | none |

The parts call each other. On the device, the main loop calls processByte and, when
that returns NONE, handlePacket, which calls the handlers and writePacket;
BusLog calls writePacket from wherever something is logged. On the host, the
application's thread encodes and writes commands, the reader thread decodes
what arrives, and the two share the decoder's packet and `recv_queue`. Below both are
readByte, writeByte and flush of whichever bus it is.

What makes each part correct: the codec is the identity on an intact stream and
recovers on one that is not; both ports agree; no buffer is overrun; a caller
gets the answer to its own command; every call returns; the device answers each
command it handles once and its log messages and answers do not mix; a bus loses
bytes at worst, and never reorders or repeats them.

## Modules

| Module | Models | How |
|---|---|---|
| `Packet` | Packet in both languages | values and operators; the byte alphabet, the framing bytes, the capacity and the CRC function are parameters |
| `PacketEncoder`, `PacketDecoder` | the C++ codec | operators from a codec value and a byte to a new value and an error code, one per state |
| `PyPacketEncoder`, `PyPacketDecoder` | the Python codec | the same, written from the Python source |
| `PacketPipe` | what a link promises | abstract: packets sent, and received whole, once and in order |
| `Link` | writePacket and processByte at the ends of an intact stream | `WritePacket` enters the writer's loop, `WriteByte` is one turn of it, `ProcessByte` one call of the reader; both directions, C++ to Python and back |
| `NoisyLink` | `Link` over a stream that is not intact | adds `LoseByte` (what `writeByte` drops), `ChangeByte`, `AddByte` |
| `DecoderPair` | both decoders fed the same, arbitrary bytes | one step per byte |
| `Frames`, `Device` | what a device promises its host | abstract: commands received, and frames sent: each command answered at most once and in order, and no answer lost while the port stays open and its buffer has room |
| `HostBus` | the host's two threads, the serial port and the line | one action per step between which the other thread may run; the device's steps are those of `Device` |
| `DeviceBus` | add, handlePacket, writePacket, CorePacketHandler, BusLog, the connected flag and the room in TinyUSB's buffer | one thread with an explicit stack of calls, the USB callback that interrupts it, and the host that reads or does not; implements `Device` |
| `ByteStream` | what a bus promises of bytes | abstract: in order, none twice, some lost once something went wrong |
| `Transport` | readByte, writeByte, flush, isDataAvailable and isSpaceAvailable of PicoUsbBus, ArduinoSerialBus, LinuxSerialBus and SocketBus (C++, Python), from writePacket to processByte | a buffer at either end, which the system moves bytes between; the link goes down, and a serial port is opened again; implements `ByteStream` |
| `SocketSetup` | how SocketBus gets its socket, C++ and Python, and LinuxSerialBus its port | one action per system call, each of which may fail, and a thread that uses descriptors meanwhile |
| `PayloadCodec` | Packer and Unpacker, C++ and Python, and Packet::append | one action per value packed or unpacked, sender and receiver of either language |
| `LinkMC`, `NoisyLinkMC`, `DecoderPairMC`, `PayloadCodecMC` | | the values of byte alphabets, CRCs, payloads and strings for TLC |
| `CodecProofs` | | the lemmas about the encoders and decoders that the proofs about `Link`, `NoisyLink` and `DecoderPair` share |
| `LinkProofs`, `DecoderPairProofs`, `HostBusProofs`, `DeviceBusProofs`, `TransportProofs`, `SocketSetupProofs`, `PayloadCodecProofs` | | inductive invariants of, and theorems about, the module each is named after; `LinkProofs` has those about `NoisyLink` as well |

Definitions keep the names of the source. History variables (`src` in `Link`,
`frame` in `DecoderPair`, `first` and `last` in `NoisyLink`, `count` in `HostBus`,
`frames`, `due`, `count` and `writes` in `DeviceBus`, `before`, `ended`, `connected`, `stray` and
`calls` in `SocketSetup`, `packets`, `cuts` and `faulty` in `Transport`, `results` and the outcomes in `attempts` in `PayloadCodec`) are
read by properties and bounds only.

`HostBus` abstracts a frame to what its packet says and to the error codes its
bytes end in, because what the two threads do to each other depends on no more;
the codec modules justify it: a frame's first bytes overwrite the decoder's
packet (`decode_byte_command`), and a frame ends in one code, after a TOO_MUCH_DATA for
each of its bytes past MAX_DATA_LEN (`Codes`); incoming_data_thread processes the packet each time.
A write that fails has left part of the command on the line, and `WriteError` says what becomes
of that: nothing that is answered, or, if all was out but the closing END, for which the
opening END of the next command stands in, or that too, a command like any other, which the
device may answer although the call has returned. Whether the
device then sees the next command is part of what `Answer` leaves open (`Lose`). A log message's
text need not be UTF-8 (`rawText`); then unpacking it raises in the reader's thread.
The port has four states: not opened yet, open, closed but still referenced
(between `self.serial.close()` and `self.serial = None`), and forgotten.
`poll.poll(500)` returning nothing is a step back to the top of the loop.

`DeviceBus` abstracts a frame to three pieces (opening END, body, closing END) and a
packet to its command, the length of its data and, as history, the number of the
command it answers. A piece is written whole, dropped, or, of a body, written in part
(`PieceWritten`): the first if the port is open and TinyUSB's buffer has room, one of the others if not.
`LineState` and `Backlog` change these between any two pieces. Log calls reach `do_log` or not (`logging`) as the application's
log level and the presence of a log packet decide; a dump's lines are one message.
A handler of the application (`handleOther`) answers, has nothing to answer, or
fills in data without a command. What each packet can hold is assumed
(`RspCapAssumption`, `LogCapAssumption`); the code documents no such requirement, and
without it `appendData`'s asserts fail.

The modules meet at the abstract ones. `Link` implements `PacketPipe` on an intact stream.
What the stream does otherwise is `ByteStream`'s: `Transport` implements it for every pair
of buses, and `LoseByte` of `NoisyLink` is its `Refuse`. `DeviceBus` implements `Device`, and
`HostBus` takes `Answer` and `Unsolicited` from `Device`, so that what is shown of the
host's threads holds of them with this device at the other end. A truncated frame of `Device` is, in `HostBus`,
a frame that `Damage` then strikes.

`Transport` numbers bytes as they are handed to writeByte; of a packet it keeps how many
bytes are left. The two ends of `Ends` are those an application can connect: USB CDC
between PicoUsbBus and a terminal of Linux, a UART between ArduinoSerialBus and one,
TCP between SocketBuses. `asks` says whether the applications ask isSpaceAvailable before
a packet and isDataAvailable before processByte, as `BusTest.cpp` does not and Python's
`process_byte` does. What TinyUSB, HardwareSerial and the kernel do is modelled from how the
buses use them: a full buffer makes a blocking write wait and the others fail, a UART
overruns a receiver that is not read, a terminal that hangs up loses what was not read.

In `PayloadCodec` a string is the sequence of its bytes. A str of Python is represented by its
encoding in UTF-8, of which `IsUtf8` has characters of one and of two bytes, so that a string can be cut in the
middle of one; `unpack_str` raises for what is not UTF-8, and a C string ends at its first null. `Received`
says what a receiver is given for each value, the values that its language cannot hold included.

The operators called `Faulty ...` in comments are variants of the definition that
follows them, with a plausible bug. Nothing uses them in the specifications:
`PROJECT.json` pairs each property with one, and the property fails with the
variant in place of the definition.

## Runs

All runs exhaust their state space (on one machine, 3 s to 3.5 min each). Numbers of
distinct states are rounded.

| Run | Question | Bounds | Result |
|---|---|---|---|
| `Link` | do packets arrive whole, once, in order, without error, in both directions, and does every packet written arrive? | 8 bytes of which 4 frame; all payloads of a command and up to 2 data bytes over {ordinary, END, ESC, ESC_END}; 2 packets; 2 bytes in flight | holds, 430 000 states |
| `DecoderPair` | what do the decoders do with any stream? | 4 bytes, all framing; capacity 2; streams of any length | holds, 530 000 states |
| `NoisyLink` | how far does a fault reach? | 2 payloads, 4 packets, 2 faults, 1 byte in flight | holds, 2 500 000 states |
| `HostBus` | which answers may a call be given, how far may answers drift from commands, what ends the reader, and do calls and close return? | 2 commands, 2 opens, 2 disturbances of 6 kinds, 1 byte past MAX_DATA_LEN | holds, 590 000 states |
| `DeviceBus` | is every command answered once, whole, in order, within the packets' capacities, whatever is logged or dumped meanwhile, and in particular as `Device` has it? does every write end? | 2 commands, 1 log message, event or damaged frame, 1 change of the connection flag or of the buffer's room, 3 nested calls, bytes of 3 values, a log packet of 4 bytes | holds, 1 740 000 states |
| `Transport` | what becomes of a packet's bytes on each bus? do polls hold when they are acted on? does what was written leave? | 2 packets of 3 bytes, buffers of 2, the link down twice | holds, 42 000 states |
| `SocketSetup` | what do failing system calls leave behind, is a descriptor of another thread ever closed, and does every call come to its end? | 5 descriptors, 2 addresses, 2 calls | holds, 110 000 states |
| `PayloadCodec` | are the values packed those unpacked, in each pair of languages? | 3 values: 1- and 2-byte integers, 8 strings of up to 5 bytes, raw data; bytes of 4 values (a null, a character, the two bytes of another), packets of 7 | holds, 150 000 states |
| `CppResync`, `HostShared`, `HostDamaged`, `PayloadEmpty` | where do code and comments disagree? | as above, fewer | violated, see Findings |

Why the bounds are enough. In `Link`, two packets show everything that one packet
can leave behind for the next (the index, the escape char, the decoder's packet),
and two data bytes every pair of adjacent framing bytes including data and CRC;
`LinkProofs` removes the bounds, as `DecoderPairProofs`, `HostBusProofs`, `DeviceBusProofs`, `TransportProofs`,
`SocketSetupProofs` and `PayloadCodecProofs` do for all safety invariants of the other runs. In `DecoderPair` the streams are unbounded: the
state space is that of the decoders. A capacity of 2 allows an empty frame, a
full one and an overlong one. In `NoisyLink`, four packets leave room for two
faults and for the packet that must arrive after the last; the CRC is a real
CRC-3, so that some damaged frames pass it. In `HostBus`, two commands are what it
takes to hand one's answer to the other, two opens what it takes to reopen, and
two disturbances allow any two of write timeout, log message, one that is not UTF-8, event, damaged frame
and POLLERR to coincide; two frames that are a byte too long are queued four times, twice as often as there are commands, and the proof is for any excess.

In `DeviceBus`, two commands are what it takes for one answer to reach
into another's, and three levels of calls what it takes for a log message to be
written while another packet is, and for that to happen again. The data of a PING is
empty or as much as fits: nothing between them tells an answer from another.

In `Transport`, a frame is longer than a buffer, so that writers meet a full one, and
shorter than two, so that the end of one and the beginning of the next share it; two cuts
allow one to fall into a frame and one after the port was opened again.

In `SocketSetup`, two addresses are the last and one that is not, two calls
the first and one that finds a socket in place, and five descriptors enough for each to
fail for want of one. In `PayloadCodec`, a byte counts to 4, so that strings of up to 5
pass each boundary of `strLength`; among the strings are the empty one, one with a null in front of a character,
one that is cut in a character, and characters of both lengths, in each position of three values.

`CHECK_DEADLOCK FALSE` is stated where a behaviour ends: the packets, commands or
faults of the bound are used up, and nothing more is asked.

### Fairness

`Link!FairSpec`: `writePacket` is a loop without an exit but its end, and the
reader polls. `HostBus!FairSpec`: both threads are scheduled by the operating
system, `serial.write` has a write timeout (0.1 s), `recv_queue.get` has a timeout,
`poll` has one; nothing is assumed of the device or of the application, which may
never answer and never call again. `DeviceBus!FairSpec`: the device executes the calls
it has begun; neither the host nor the callback is asked for anything. `SocketSetup!FairSpec`: every
system call returns but accept. `Transport!FairSpec`: both ends run their loops, and what
has been flushed, or fills the buffer, is sent; the link need not come back.

### Findings

- `CppResync`: a regular END is said to mark the beginning or end of a packet
  (`PacketDecoder.cpp:74`), but the C++ decoder stays inside one after TOO_SMALL
  and CRC. The Python decoder does not (`PyEndDelimits`).
- `HostShared`: the response a caller gets is the decoder's own packet, which the
  reader overwrites.
- `HostDamaged`: a packet with a bad CRC is returned with ErrorCode.NONE.
- `PayloadEmpty`: Python's `unpack_str` returns a null character for an empty string.

Beside these, `HostBus` shows that responses are matched with commands by order only: one
that comes after its command timed out is returned as the next command's
(`AnswersUndisturbed` excludes it, and `AnswersCommand` fails without any disturbance once a call may time
out). So is the answer to a command whose write failed at its last byte: the next command completes it.
An overlong frame is queued again for every byte too many. A log message whose text is not UTF-8 raises in
the reader thread and ends it, and the bus stays open without a reader (`ReaderSurvives` says what else does):
BusLog itself produces such text, when it cuts a message at its packet's capacity in the middle of a character.
`HostBus` also shows that an event is queued and returned as a response like any
other packet, although `incoming_data_thread` is said to handle events. `SocketSetup` shows
that the C++ code closes a descriptor twice when every address has failed
(`StrayOnlyIfNoneLeft` says that it does so nowhere else), and what it keeps when
`makeSocketNonBlocking` or `setsockopt` fails (`KeepsSockets`, `KeepsList`).
`DeviceBus` shows that a device whose log goes to its bus at info level
exhausts its stack once debug is switched on, the dump of a packet being written
as a packet that is dumped. `OverflowOnlyByDebug` says that nothing else does. No
document says otherwise, so no run is expected to fail on it.

`DeviceBus` shows that an answer may be cut, or be missing, although the port is open all along: what
does not fit in TinyUSB's buffer is dropped, and `writePacket` returns NONE.

`Transport` has three things in it that the documents do not say. LinuxSerialBus's
`readByte` blocks (`open` sets VMIN to 1), although `Bus.h:49` calls `readByte`
non-blocking, so that a main loop that calls processByte without asking, as
`BusTest.cpp:139` does, stands still until a byte comes: `AnswersHold` is about applications that ask. A SocketBus whose peer has reset
the connection is killed by SIGPIPE in `send`. And of a connection that is gone,
isDataAvailable is always true and readByte never finds a byte. `SocketSetup` shows that an `open` of LinuxSerialBus that fails
at `tcgetattr` or `tcsetattr` keeps the port open, and that a second `open` loses the first one's descriptor.

`AnswersUndisturbed`, `Correlated` and `BoundedDrift` say what remains true: the
answer is right unless one of these causes occurs, and the number of stale entries
on the queue never exceeds the number of causes.

## Proofs

### LinkProofs: Link

`LinkProofs` proves, for every byte alphabet with four distinct framing bytes,
every CRC function that returns a byte, every capacity, every set of payloads
that fit and every bound:

| Theorem | Statement |
|---|---|
| `Inductive` | `Spec => []IInv` |
| `TypeCorrect` | `Spec => []TypeOK` |
| `Fidelity` | `Spec => []InOrder` |
| `ErrorFree` | `Spec => []NoDecodeError` |
| `NothingHeldBack` | `Spec => []Drained` |
| `LinkImplementsPipe` | `Spec => ImplementsPipe` |

Assumptions: `FramingAssumption`, `MaxDataLenAssumption`, `Crc8Assumption`,
`PayloadAssumption`, `UninitAssumption`, `BoundAssumption`, all of them evaluated
by TLC in every run of `Link`. That CRC errors are detected is neither assumed nor
needed: on an intact stream nothing is to be detected.

The argument. `InOrder` says nothing about bytes in flight and is not inductive.
Because the encoder is deterministic, the bytes in flight and the encoder form a
chain: each byte is what `encodeByte` yields for the encoder state recorded with
it (`src`), and leads to the next link, the last link being the encoder now
(`ChainOK`). The decoder need only agree with the first link, whatever the length
of the chain (`Mirrors`, `ReaderOK`): it has stored exactly the body bytes that the
first link has behind it. `WriteByte` appends a link and does not touch the first;
`ProcessByte` removes the first link, and `DecodeStep` shows that one `decodeByte` of
its byte takes a decoder that mirrors it to one that mirrors the next. `EncodersAgree` and `DecodersAgree` (C++ and
Python, the latter up to the first error) let one proof serve both directions.

### TransportProofs

`TransportProofs` proves, for every pair of buses, every size of buffer and frame and
any number of packets and cuts (`TransportAssumption`: none of them is zero):

| Theorem | Statement |
|---|---|
| `Inductive` | `Spec => []IInv` |
| `TypeCorrect` | `Spec => []TypeOK` |
| `AnswersAreKept` | `Spec => []AnswersHold` |
| `TransportImplementsStream` | `Spec => ImplementsStream` |

The argument. `AnswersHold` alone is not inductive: an application may be told that it can
read or write because the link is down, and a port that is opened again would then leave it in
front of an empty or a full buffer. `IInv` says who can be told so, an end that has a
descriptor to poll, and `LinuxSerialBus_open` happens only where that end is not between
asking and acting. For the refinement, the two buffers are one sequence, `rx \o fifo`: moving a
byte leaves it as it is (`ConcatShift`), reading takes its head (`ConcatTake`), and a line that
overruns, a terminal that hangs up and an open that flushes leave out a stretch of it
(`StretchLost`), which `ByteStream` allows once `faulty`; that a link that is down has made it
so is part of `IInv`.

### LinkProofs: NoisyLink

For every alphabet, CRC function, capacity, set of payloads, wire and number of faults; the
assumptions are those of `Link` and `MaxFaultsAssumption` (a natural number). Nothing is assumed of the CRC but that it is a
byte: a damaged frame may pass it.

| Theorem | Statement |
|---|---|
| `NoisyInductive` | `NoisySpec => []NoisyInv` |
| `SoundOnAnyLine` | `NoisySpec => [](TypeOK /\ Sound(dec))`: no fault makes either decoder store past its buffer |
| `FaultsStayPut` | `NoisySpec => []Unhit` |
| `HostComesBack` | `NoisySpec => []HostRecovers` |

The argument. The chain of `Link` survives where no fault struck: `CleanOK` says so of the
bytes of packets before the first one hit and after the last, which is all that the history
variables tell. Three cases follow from where the reader is. Before the first packet hit
all is as in `Link` (`BeforeOK`); past it what was received up to there stays
(`AfterOK`); and past the last one, the Python decoder reads one frame that it may take for anything,
but with which it agrees on what is escaped, or skips it (`Resyncing`, `ResyncStep`), so that
the closing END is a regular one to it and leaves it between two frames (`Synced`), from where it completes each packet
(`SyncedStep`). `RecoveryOK` counts them from the end of `rcvd`. Two facts were
missing in the first version of `NoisyInv` and came out of the proof: the first frame after the last packet hit
is opened whole and is the next packet's (`Resumes`), and the frame that follows an intact
one may have lost its first bytes only if it is the first one hit (`Leads`). `HostRecovers` fails in the other direction,
for the reason `CppResync` shows.

### DecoderPairProofs

For every alphabet with four distinct framing bytes, every CRC function that returns a byte and every capacity
(`FramingAssumption`, `MaxDataLenAssumption`, `Crc8Assumption`, `UninitAssumption`).

| Theorem | Statement |
|---|---|
| `Inductive` | `Spec => []IInv` |
| `NoOverrun` | `Spec => []InBuffer` |
| `EscapeEndsWithFrame` | `Spec => []EscapeInFrame` |
| `Interchangeable` | `Spec => SameUntilError` |
| `OnlyWholeFrames` | `Spec => OneFrameOnePacket` |
| `EndsDelimit` | `Spec => PyEndDelimits` |

The argument. Up to the first error the decoders agree on everything but an uninitialized CRC,
which is never read (`Same`, `CrcUnread`); the bound on the buffer needs that an idle decoder has no
escape pending (`Sound`), and what the Python decoder delivers is the frame so far because `frame`
and its packet are the same bytes in State.DATA (`FrameHeld`).

### HostBusProofs

For any number of commands, opens, disturbances and bytes past MAX_DATA_LEN, and any set of kinds of disturbance
(`BoundsAssumption`, `DisturbancesAssumption`), under every interleaving of the two threads.

| Theorem | Statement |
|---|---|
| `TypeCorrect` | `Spec => []TypeOK` |
| `Joined` | `Spec => []NoReaderWhenClosed` |
| `ReaderStaysAlive` | `Spec => []ReaderSurvives` |
| `AnswersCorrelate` | `Spec => []Correlated` |
| `PacketHolds` | `Spec => []AnswersUndisturbed` |
| `DriftBounded` | `Spec => []BoundedDrift` |

The argument. `Control` ties the port to where the application is, `Halfway` the shared packet to the
frame being decoded. Only a frame in error, a POLLERR or text that is not UTF-8 ends the thread (`WellFormed`).

The responses are in four places: with the device, on the line, in the reader's hands and on the queue. They may be many, once
calls time out or writes fail and their commands are answered all the same; `Orderly` says that only answers are queued, that the numbers of responses grow within each place and from each to the next, and that a command still being written is in none of them:
every step moves the head of one place to the end of the next. If no call timed out and no write failed,
there is one response at most (`OneOnItsWay`), and nothing overwrites the packet until the caller looks at it,
if the device sends nothing else (`Untouched`).

`BoundedDrift` sums over frames of a sequence, which cannot
be defined by recursion here; `Drift` says instead that some function gives each frame on the line an upper bound for what it
and those behind it will add to the queue, and each step adjusts that function. A frame counts for one entry, and each entry more
that an overlong frame makes comes with a byte that `count` counts; a command whose write failed counts for the entry
that its answer would be.

### DeviceBusProofs

For all capacities, words, byte ranges, lengths of text and bounds, of which these are assumed:

- `BoundsAssumption`: none is zero.
- `RspCapAssumption`, `LogCapAssumption`: what an application has to choose for its packets; without them the
  code's asserts fail (see Modules). `LogCap` is at most what a length byte counts and one more.
- `MaxDepthAssumption`: the stack holds three calls. With one or two, a single dump that goes nowhere exhausts it,
  and `OverflowOnlyByDebug` is false: the proof showed that this had to be assumed.

| Theorem | Statement |
|---|---|
| `TypeCorrect` | `Spec => []TypeOK` |
| `Fits` | `Spec => []InCapacity` |
| `LengthByteExact` | `Spec => []StrLenExact` |
| `OverflowExplained` | `Spec => []OverflowOnlyByDebug` |
| `FramesKeptApart` | `Spec => []NotMixed` |
| `DeviceKeepsPromise` | `Spec => ImplementsDevice` |

The argument. `InCapacity` and `StrLenExact` hold at each fill (`Room`). `OverflowOnlyByDebug` needs what is on the stack:
unless everything is logged to the bus itself, only a line of a dump is above the second call (`Shallow`). `NotMixed`
needs that the loop of the latest writePacket is the innermost call, and that no other
writePacket begins between encodeStart and the loop except in a recursion that never comes back (`Encoding`);
and that what it has written so far is of the packet the encoder has (`Latest`).

For the refinement, `frames` records what each frame amounts to for the host when its writePacket returns; a
command is pending from its reception until it is found to need no answer or its answer's writePacket returns.
`Promise` adds to `WireInv` that what each call on the stack writes is still what it was filled with
(`Contents`): the response is the answer to the latest command and is written at the bottom of the stack, so that
nothing refills it, and a log packet may be refilled, but only where no loop is below. While the port has been open and its
buffer has had room all along, the end of the wire is the beginning of the frame being written, each piece whole and without a gap (`Complete`). `FrameFacts` then says what the
frame amounts to: nothing, a cut frame, or what its packet says, and the last of these if no piece is missing. A
step is `Receive`, `Ignore` (a handler without an answer), `Unplug` (the callback, or a buffer that fills up) or a stutter, and the
return from writePacket is `Answer`, `Lose`, `Truncate` or `Send`.

### SocketSetupProofs

For every number of descriptors, addresses and calls (`SocketBoundsAssumption`: none is zero), whichever
system calls fail and whatever another thread opens and closes meanwhile.

| Theorem | Statement |
|---|---|
| `Usable` | `Spec => []SocketUsable` |
| `StrayAtTheEnd` | `Spec => StrayOnlyIfNoneLeft` |
| `ReleasesWhatItTook` | `Spec => []Released` |
| `EveryCallAdvances` | `Spec => CallAdvances` |

The argument. `Steps` and `Kept` say what each descriptor at hand is at each step of a call,
as long as none of another thread was closed; `Lists` and `Accounted` relate the lists and
descriptors in use to those before the call. The proof showed that `Released` does not need the
hypothesis it once had, that no other thread's descriptor was closed: a
double close may hit one, but never loses one. `CallAdvances` is what `CallEnds` needs besides fairness: a call has
two ways on, to a later step for the same address or to the next address (`CallMoves`), and both lower `Left`, which
is a natural number because the address is one there is (`Counted`).

### PayloadCodecProofs

For every number of values of a byte from two up, every size of packet and of integers, any set of strings of any bytes, and any number of values
packed (`PayloadCodecAssumption`: none of the bounds is zero, and the first and second bytes of characters of two are
disjoint sets without the null).

| Theorem | Statement |
|---|---|
| `Inductive` | `Spec => []IInv` |
| `TypeCorrect` | `Spec => []TypeOK` |
| `ValuesReturn` | `Spec => []RoundTrip` |

The argument. `RoundTrip` says nothing of values that are not unpacked yet, and is not inductive. `Layout` says that
there are offsets in the data such that what was packed by each attempt is between two of them: the value's encoding, if the
attempt succeeded, and whatever it left behind otherwise. The encoding depends on the packer, since C++ cuts a string at a
length byte that has wrapped, and Python does not. As long as nothing went wrong, the Unpacker stands at one of them (`InStep`). One lemma says of all three ways to pack that they append,
within the packet, and append the value's encoding if they succeed (`PackAppends`); another says of both languages that they give back the value
whose encoding is ahead, or what `Misread` has in its place, and use as many bytes as it has (`UnpackReturns`). For strings, C++ needs that the
first null of the data ahead is the string's own or the one behind it (`StringEnds`, `StringCut`), Python that all but the last
byte of its slice is the string. The size is right even where the value is not, which keeps the values behind it readable.

Integers need arithmetic over any number of bytes, and the provers know neither powers nor induction over data. `Weight`
and `FromBytes` are recursive functions instead, and a CHOOSE until a function is shown to satisfy their equations. The
library's induction theorems cannot be used (see below), but its well-founded induction can be stated for sets: a
set with 0 that has the successor of each of its members has every number (`Induction`). `Recursion` constructs from it
the function with a given first value and step, from which the equations follow (`WeightDef`,
`FromBytesDef`), and `NumberReturns` that the first i bytes of v add up to v modulo the i-th weight (`NextDigit`).

### Only model-checked

Liveness: `ImplementsFairPipe`, the three of `HostBus`, `WritesEnd`, `CallEnds`, `PacketsLeave`. The prover has no rules
for fairness of parameterised actions (ENABLED), and its library's induction theorems take an operator as a
parameter, which none of the provers can instantiate. For `CallEnds` the part that is no matter of fairness is proved
(`EveryCallAdvances`).

## Not modelled

- The values of Crc8: a parameter; TLC uses a CRC-3, or a checksum, over a small
  alphabet. No theorem depends on the CRC catching anything.
- Debug dumps and log messages in the codec modules; `DeviceBus` has them.
- The data of the device's packets, and handlers that share a command: `IBus::add` then
  decides by order which of them takes it.
- `Packet::removeByte`, which nothing calls, `dump`, `as_str`, `dump_mem` and
  `printAddrInfo`, which format, and Python's `enable_keepalive`, which sets options of a socket.
- A baud rate, and parity or framing errors of a UART other than as bytes changed or added
  (`NoisyLink`).
- Opening a SerialBus that is open already, and calls of one bus from several
  application threads: the code has neither.
- Strings that Python packs behind a length byte that has wrapped: TLC goes through them, but no property says what
  their receiver makes of the rest. Characters of three and four bytes of UTF-8, and what is forbidden in it besides bytes out of place.
- What a device makes of a command it receives in parts, other than that it answers or does not.
- The parts that PROJECT.json lists as not modelled.

## Plan

Every component that keeps state is modelled, and every safety invariant, action property and
refinement (fairness apart) that the runs check is proved. What is left is liveness, which stays
with TLC; the part of it that needs no fairness can be proved with a measure:

1. `DeviceBus`: a measure for `WritesEnd` as `Left` is for `CallEnds`, the sum over the stack of
   calls of the bytes each has still to write.
2. `HostBus`: one for `CallReturns`, from the bytes queued for the reader and the timeout.
