--------------------------- MODULE DeviceBusProofs ---------------------------
(***************************************************************************)
(* What DeviceBus keeps, for every capacity, every number of commands and   *)
(* of messages, and every stack that is deep enough for one dump.           *)
(***************************************************************************)
EXTENDS DeviceBus, SequenceTheorems, FiniteSetTheorems, WellFoundedInduction, TLAPS

\* What a packet holds, what is on the stack and what has been written.
Command == Core \cup {"OTHER", "EVENT", "LOG", "NONE"}

PacketValue == [command : Command, len : Nat, n : Nat, str : Nat]

Call ==
  [op : {"log"}, arg : {"error", "info"}, w : {0}]
    \cup [op : {"start", "dumped", "loop"}, arg : {"rsp", "log", "evt"}, w : Nat]

PieceValue ==
  [w : Nat, piece : 1..3, pkt : PacketValue, extent : {"whole", "part"}]

Flags == connected \in BOOLEAN /\ room \in BOOLEAN /\ debug \in BOOLEAN

Types ==
  /\ logging \in {"nothing", "errors", "everything"}
  /\ m_handlers \subseteq {"core", "app"}
  /\ main \in {"starting", "idle", "received", "overflow"}
  /\ calls \in Seq(Call)
  /\ Len(calls) <= MaxDepth
  /\ packets \in [{"cmd", "rsp", "log", "evt"} -> PacketValue]
  /\ m_packet \in {"none", "rsp", "log", "evt"}
  /\ phase \in 1..3
  /\ out \in Seq(PieceValue)
  /\ count \in [{"command", "notice", "toggle"} -> Nat]
  /\ writes \in Nat

\* Writing has a packet to write.
Chosen == \A i \in 1..Len(calls) : calls[i].op \in {"dumped", "loop"} => m_packet # "none"

\* What the packets hold fits, and is counted where it is a string.
Room ==
  /\ packets["cmd"].len <= CmdCap - 1
  /\ packets["rsp"].len <= RspCap
  /\ packets["log"].len <= LogCap
  /\ packets["log"] # Blank => packets["log"].str = packets["log"].len - 2

TypeInv == Flags /\ Types /\ Chosen /\ Room

\* A dump that goes to the bus it reports about, which never ends.
Endless == debug /\ logging = "everything"

\* Otherwise nothing is above the second call but a line of a dump, which goes nowhere.
Shallow == logging # "everything" => \A i \in 3..Len(calls) : calls[i] = LogCall("info")

OverflowEndless == main = "overflow" => Endless

DepthInv == Shallow /\ OverflowEndless

\* The loop of the latest writePacket is the innermost call. No other writePacket begins
\* between its encodeStart and its loop, unless it never gets that far.
Encoding ==
  \A i \in 1..Len(calls) :
    /\ calls[i].op = "loop" => i = Len(calls) /\ calls[i].w = writes /\ ~Endless
    /\ calls[i].op = "dumped" =>
         /\ debug
         /\ \/ Endless /\ i < Len(calls)
            \/ /\ ~Endless /\ calls[i].w = writes
               /\ i = Len(calls) \/ (i + 1 = Len(calls) /\ calls[i + 1] = LogCall("info"))
               /\ \A j \in 1..Len(out) : out[j].w < writes

\* What it has written so far is of the packet that the encoder is encoding.
Latest ==
  /\ \A j \in 1..Len(out) : out[j].w <= writes
  /\ calls # <<>> /\ calls[Len(calls)].op = "loop" =>
       \A j \in 1..Len(out) :
         out[j].w = writes => out[j].piece < phase /\ out[j].pkt = packets[m_packet]

WireInv == Encoding /\ Latest /\ NotMixed
-----------------------------------------------------------------------------
(***************************************************************************)
(* The types, and the capacities.                                          *)
(***************************************************************************)

\* The bounds are numbers.
LEMMA Bounds ==
  /\ CmdCap \in Nat /\ CmdCap >= 1 /\ WordLen \in Nat /\ WordLen >= 1
  /\ ByteRange \in Nat /\ ByteRange >= 1 /\ MaxText \in Nat
  /\ MaxDepth \in Nat /\ MaxDepth >= 3
  /\ RspCap \in Nat /\ RspCap >= 5 * WordLen /\ RspCap >= CmdCap - 1
  /\ LogCap \in Nat /\ LogCap >= 3 /\ LogCap <= ByteRange + 1
<1>1. /\ CmdCap \in Nat \ {0} /\ WordLen \in Nat \ {0} /\ ByteRange \in Nat \ {0}
      /\ MaxText \in Nat \ {0} /\ MaxDepth \in Nat \ {0}
  BY BoundsAssumption
<1>2. QED
  BY <1>1, MaxDepthAssumption, RspCapAssumption, LogCapAssumption

\* A log message of any length fits, and its length byte is right.
LEMMA LoggedFacts ==
  ASSUME NEW k \in Nat
  PROVE  /\ Logged(k) \in PacketValue
         /\ Logged(k).len <= LogCap
         /\ Logged(k).str = Logged(k).len - 2
<1> DEFINE stored == {i \in 0..(k - 1) : log_char_to_packet(LogCap - 2 - i)}
<1> DEFINE b == Cardinality(stored)
<1>1. stored \subseteq 0..(LogCap - 4)
  BY Bounds DEF log_char_to_packet
<1>2. /\ IsFiniteSet(0..(LogCap - 4))
      /\ Cardinality(0..(LogCap - 4)) = IF 0 > LogCap - 4 THEN 0 ELSE LogCap - 4 - 0 + 1
  <2>1. 0 \in Int /\ LogCap - 4 \in Int
    BY Bounds
  <2>2. QED
    BY <2>1, FS_Interval
<1>3. IsFiniteSet(stored) /\ b <= Cardinality(0..(LogCap - 4))
  BY <1>1, <1>2, FS_Subset
<1>4. b \in Nat
  BY <1>3, FS_CardinalityType
<1>5. Logged(k) = Packet("LOG", b + 3, 0, (b + 1) % ByteRange)
  BY DEF Logged
<1> HIDE DEF b, stored
<1>6. b <= LogCap - 3
  BY <1>2, <1>3, <1>4, Bounds
<1>7. (b + 1) % ByteRange = b + 1
  <2>1. b + 1 \in Nat /\ b + 1 < ByteRange
    BY <1>4, <1>6, Bounds
  <2>2. QED
    BY <2>1, Bounds
<1>8. QED
  BY <1>4, <1>5, <1>6, <1>7, Bounds DEF Packet, PacketValue, Command

\* A handler's response fits, and has the type of a packet.
LEMMA HandleFacts ==
  ASSUME debug \in BOOLEAN,
         NEW cmd \in PacketValue, cmd.len <= CmdCap - 1,
         NEW rsp \in PacketValue, rsp.len = 0,
         NEW r \in Handle(cmd, rsp)
  PROVE  r.rsp \in PacketValue /\ r.rsp.len <= RspCap /\ r.debug \in BOOLEAN
<1>1. PICK w \in Nat, w3 \in Nat, w5 \in Nat :
        /\ w = WordLen /\ w3 = 3 * WordLen /\ w5 = 5 * WordLen
        /\ w <= RspCap /\ w3 <= RspCap /\ w5 <= RspCap
  BY Bounds
<1>2. ASSUME NEW command \in Command, NEW len \in Nat, len <= RspCap
      PROVE  /\ append(setCommand(rsp, command), len) \in PacketValue
             /\ append(setCommand(rsp, command), len).len <= RspCap
             /\ append(rsp, len) \in PacketValue /\ append(rsp, len).len <= RspCap
  <2>1. ASSUME NEW pkt \in PacketValue, pkt.len = 0
        PROVE  append(pkt, len) \in PacketValue /\ append(pkt, len).len <= RspCap
    <3>1. append(pkt, len) = [pkt EXCEPT !.len = len]
      BY <2>1 DEF append, PacketValue
    <3>2. QED
      BY <1>2, <3>1 DEF PacketValue
  <2>2. setCommand(rsp, command) \in PacketValue /\ setCommand(rsp, command).len = 0
    BY DEF setCommand, PacketValue
  <2>3. QED
    BY <2>1, <2>2
<1>3. CASE cmd.command = "PING"
  <2>1. r = Answer(setData(setCommand(rsp, "PING"), cmd.len))
    BY <1>3 DEF Handle, handlePing
  <2>2. cmd.len \in Nat /\ cmd.len <= RspCap
    BY Bounds DEF PacketValue
  <2>3. QED
    BY <2>1, <2>2 DEF Answer, setData, setCommand, PacketValue, Command, Core
<1>4. CASE cmd.command = "DEBUG"
  <2>1. PICK flag \in BOOLEAN : r = setDebug(Answer(append(setCommand(rsp, "DEBUG"), w)), flag)
    BY <1>1, <1>4 DEF Handle, handleDebug
  <2>2. r.rsp = append(setCommand(rsp, "DEBUG"), w) /\ r.debug = flag
    BY <2>1 DEF Answer, setDebug
  <2>3. "DEBUG" \in Command
    BY DEF Command, Core
  <2>4. QED
    BY <1>1, <1>2, <2>2, <2>3
<1>5. CASE cmd.command = "STACK_INFO"
  <2>1. r = Answer(append(setCommand(rsp, "STACK_INFO"), w3))
    BY <1>1, <1>5 DEF Handle, handleStackInfo
  <2>2. r.rsp = append(setCommand(rsp, "STACK_INFO"), w3) /\ r.debug = debug
    BY <2>1 DEF Answer
  <2>3. "STACK_INFO" \in Command
    BY DEF Command, Core
  <2>4. QED
    BY <1>1, <1>2, <2>2, <2>3
<1>6. CASE cmd.command = "HEAP_INFO"
  <2>1. r = Answer(append(setCommand(rsp, "HEAP_INFO"), w5))
    BY <1>1, <1>6 DEF Handle, handleHeapInfo
  <2>2. r.rsp = append(setCommand(rsp, "HEAP_INFO"), w5) /\ r.debug = debug
    BY <2>1 DEF Answer
  <2>3. "HEAP_INFO" \in Command
    BY DEF Command, Core
  <2>4. QED
    BY <1>1, <1>2, <2>2, <2>3
<1>7. CASE cmd.command \notin Core
  <2>1. r \in handleOther(cmd, rsp)
    BY <1>7 DEF Handle, Core
  <2>2. /\ r.rsp \in {append(setCommand(rsp, "OTHER"), w), rsp, append(rsp, w)}
        /\ r.debug = debug
    BY <1>1, <2>1 DEF handleOther, Answer
  <2>3. "OTHER" \in Command /\ rsp.len <= RspCap
    BY Bounds DEF Command
  <2>4. QED
    BY <1>1, <1>2, <2>2, <2>3
<1>8. QED
  BY <1>3, <1>4, <1>5, <1>6, <1>7 DEF Core

\* The stack, and what it becomes.
LEMMA StackFacts ==
  ASSUME calls \in Seq(Call), calls # <<>>
  PROVE  /\ Len(calls) \in Nat \ {0}
         /\ Top = calls[Len(calls)] /\ Top \in Call
         /\ Caller \in Seq(Call) /\ Len(Caller) = Len(calls) - 1
         /\ \A i \in 1..(Len(calls) - 1) : Caller[i] = calls[i]
<1>1. Len(calls) \in Nat \ {0}
  BY EmptySeq
<1>2. \A i \in 1..Len(calls) : calls[i] \in Call
  BY ElementOfSeq
<1>3. Top = calls[Len(calls)] /\ Top \in Call
  BY <1>1, <1>2 DEF Top
<1>4. Len(calls) - 1 \in Int /\ 1 \in Int /\ \A i \in 1..(Len(calls) - 1) : calls[i] \in Call
  BY <1>1, <1>2
<1>5. /\ Caller \in Seq(Call)
      /\ Len(Caller) = IF 1 <= Len(calls) - 1 THEN Len(calls) - 1 - 1 + 1 ELSE 0
      /\ \A i \in 1..(Len(calls) - 1 - 1 + 1) : Caller[i] = calls[1 + i - 1]
  BY <1>4, SubSeqProperties DEF Caller
<1>6. Len(Caller) = Len(calls) - 1
  <2>1. PICK len \in Nat \ {0} : len = Len(calls)
    BY <1>1
  <2>2. Len(Caller) = IF 1 <= len - 1 THEN len - 1 - 1 + 1 ELSE 0
    BY Zenon, <1>5, <2>1
  <2>3. QED
    BY <2>1, <2>2
<1>7. \A i \in 1..(Len(calls) - 1) : Caller[i] = calls[i]
  BY <1>1, <1>5
<1>8. QED
  BY <1>1, <1>3, <1>5, <1>6, <1>7

\* The innermost call is replaced.
LEMMA Replaced ==
  ASSUME calls \in Seq(Call), calls # <<>>, NEW c \in Call
  PROVE  /\ Append(Caller, c) \in Seq(Call)
         /\ Len(Append(Caller, c)) = Len(calls)
         /\ Append(Caller, c)[Len(calls)] = c
         /\ \A i \in 1..(Len(calls) - 1) : Append(Caller, c)[i] = calls[i]
<1>1. /\ Append(Caller, c) \in Seq(Call)
      /\ Len(Append(Caller, c)) = Len(Caller) + 1
      /\ \A i \in 1..Len(Caller) : Append(Caller, c)[i] = Caller[i]
      /\ Append(Caller, c)[Len(Caller) + 1] = c
  BY StackFacts, AppendProperties
<1>2. /\ Len(calls) \in Nat \ {0} /\ Len(Caller) = Len(calls) - 1
      /\ \A i \in 1..(Len(calls) - 1) : Caller[i] = calls[i]
  BY StackFacts
<1>3. QED
  BY <1>1, <1>2

\* ... and another is above it.
LEMMA Nested ==
  ASSUME calls \in Seq(Call), calls # <<>>, NEW c \in Call, NEW d \in Call
  PROVE  /\ Caller \o <<c, d>> \in Seq(Call)
         /\ Len(Caller \o <<c, d>>) = Len(calls) + 1
         /\ (Caller \o <<c, d>>)[Len(calls)] = c
         /\ (Caller \o <<c, d>>)[Len(calls) + 1] = d
         /\ \A i \in 1..(Len(calls) - 1) : (Caller \o <<c, d>>)[i] = calls[i]
<1>1. <<c, d>> \in Seq(Call) /\ Len(<<c, d>>) = 2 /\ <<c, d>>[1] = c /\ <<c, d>>[2] = d
  OBVIOUS
<1>2. /\ Caller \o <<c, d>> \in Seq(Call)
      /\ Len(Caller \o <<c, d>>) = Len(Caller) + 2
      /\ \A i \in 1..(Len(Caller) + 2) :
           (Caller \o <<c, d>>)[i] = IF i <= Len(Caller) THEN Caller[i] ELSE <<c, d>>[i - Len(Caller)]
  BY <1>1, StackFacts, ConcatProperties
<1>3. /\ Len(calls) \in Nat \ {0} /\ Len(Caller) = Len(calls) - 1
      /\ \A i \in 1..(Len(calls) - 1) : Caller[i] = calls[i]
  BY StackFacts
<1> DEFINE new == Caller \o <<c, d>>
<1> DEFINE len == Len(calls)
<1> HIDE DEF new, len
<1>4. len \in Nat \ {0} /\ Len(Caller) = len - 1
  BY <1>3 DEF len
<1>5. Len(new) = len + 1
  BY <1>2, <1>4 DEF new
<1>6. new[len] = c
  <2>1. len \in 1..(Len(Caller) + 2) /\ ~(len <= Len(Caller)) /\ len - Len(Caller) = 1
    BY <1>4
  <2>2. QED
    BY <1>1, <1>2, <2>1 DEF new
<1>7. new[len + 1] = d
  <2>1. len + 1 \in 1..(Len(Caller) + 2) /\ ~(len + 1 <= Len(Caller)) /\ (len + 1) - Len(Caller) = 2
    BY <1>4
  <2>2. QED
    BY <1>1, <1>2, <2>1 DEF new
<1>8. ASSUME NEW i \in 1..(len - 1) PROVE new[i] = calls[i]
  <2>1. i \in 1..(Len(Caller) + 2) /\ i <= Len(Caller)
    BY <1>4
  <2>2. QED
    BY <1>2, <1>3, <2>1 DEF new, len
<1>9. QED
  BY <1>2, <1>5, <1>6, <1>7, <1>8 DEF new, len

\* What the main loop calls.
Fresh(s) ==
  /\ s \in Seq(Call)
  /\ Len(s) \in 0..2
  /\ \A i \in 1..Len(s) : s[i].op \in {"log", "start"}

\* The stacks that the main loop starts with.
LEMMA FreshFacts ==
  /\ Fresh(<<>>)
  /\ \A level \in {"error", "info"} : Fresh(<<LogCall(level)>>)
  /\ \A which \in {"rsp", "log", "evt"} : Fresh(<<WriteCall(which)>>)
  /\ Fresh(<<LogCall("info"), LogCall("error")>>)
<1>1. /\ \A level \in {"error", "info"} : LogCall(level) \in Call /\ LogCall(level).op = "log"
      /\ \A which \in {"rsp", "log", "evt"} : WriteCall(which) \in Call /\ WriteCall(which).op = "start"
  BY DEF LogCall, WriteCall, Call
<1>2. ASSUME NEW c \in Call, c.op \in {"log", "start"} PROVE Fresh(<<c>>)
  <2>1. <<c>> \in Seq(Call) /\ Len(<<c>>) = 1 /\ <<c>>[1] = c
    OBVIOUS
  <2>2. QED
    BY <1>2, <2>1 DEF Fresh
<1>3. ASSUME NEW c \in Call, NEW d \in Call, c.op = "log", d.op = "log" PROVE Fresh(<<c, d>>)
  <2>1. <<c, d>> \in Seq(Call) /\ Len(<<c, d>>) = 2 /\ <<c, d>>[1] = c /\ <<c, d>>[2] = d
    OBVIOUS
  <2>2. QED
    BY <1>3, <2>1 DEF Fresh
<1>4. Fresh(<<>>)
  BY EmptySeq DEF Fresh
<1>5. QED
  BY <1>1, <1>2, <1>3, <1>4

\* What a step of the main loop leaves alone, and what it calls.
LEMMA MainFacts ==
  ASSUME ReceiveCommand \/ ReceiveDamaged \/ Notice \/ Handling
  PROVE  /\ calls = <<>> /\ Fresh(calls')
         /\ main # "overflow" /\ main' \in {"idle", "received"}
         /\ UNCHANGED <<m_handlers, logging, m_packet, phase, out, frames, writes>>
<1>1. CASE ReceiveCommand
  <2>1. calls' = <<LogCall("info")>> \/ calls' = <<>>
    BY <1>1 DEF ReceiveCommand
  <2>2. QED
    BY <1>1, <2>1, FreshFacts DEF ReceiveCommand, Quiet, setup, encoderVars
<1>2. CASE ReceiveDamaged
  <2>1. calls' = <<LogCall("info"), LogCall("error")>> \/ calls' = <<LogCall("error")>>
    BY <1>2 DEF ReceiveDamaged
  <2>2. QED
    BY <1>2, <2>1, FreshFacts DEF ReceiveDamaged, Quiet, setup, encoderVars
<1>3. CASE Notice
  <2>1. (\E level \in {"error", "info"} : calls' = <<LogCall(level)>>) \/ calls' = <<WriteCall("evt")>>
    BY <1>3 DEF Notice
  <2>2. QED
    BY <1>3, <2>1, FreshFacts DEF Notice, Quiet, setup, encoderVars
<1>4. CASE HandlePacket
  <2>1. calls' = <<WriteCall("rsp")>> \/ calls' = <<LogCall("error")>> \/ calls' = <<>>
    BY <1>4 DEF HandlePacket
  <2>2. QED
    BY <1>4, <2>1, FreshFacts DEF HandlePacket, setup, encoderVars
<1>5. CASE HandleNothing
  BY <1>5, FreshFacts DEF HandleNothing, setup, encoderVars
<1>6. QED
  BY <1>1, <1>2, <1>3, <1>4, <1>5 DEF Handling

\* What the setup and the USB callback leave alone.
LEMMA SetupFacts ==
  ASSUME Setup \/ LineState \/ Backlog
  PROVE  /\ UNCHANGED <<debug, logging, calls, packets, m_packet, phase, out, frames, writes>>
         /\ main' # "overflow"
<1>1. CASE Start
  BY <1>1 DEF Start, setup, encoderVars
<1>2. CASE \E handler \in {"core", "app"} : add(handler)
  BY <1>2 DEF add, encoderVars
<1>3. CASE LineState
  BY <1>3 DEF LineState, setup, encoderVars
<1>4. CASE Backlog
  BY <1>4 DEF Backlog, setup, encoderVars
<1>5. QED
  BY <1>1, <1>2, <1>3, <1>4 DEF Setup

\* The types of what the main loop changes.
LEMMA TypesMain ==
  ASSUME TypeInv, ReceiveCommand \/ ReceiveDamaged \/ Notice \/ Handling
  PROVE  TypeInv'
<1>1. /\ calls = <<>> /\ Fresh(calls')
      /\ main' \in {"idle", "received"}
      /\ UNCHANGED <<m_handlers, logging, m_packet, phase, out, frames, writes>>
  BY MainFacts
<1>2. Chosen'
  BY <1>1 DEF Chosen, Fresh
<1>3. calls' \in Seq(Call) /\ Len(calls') <= MaxDepth
  BY <1>1, Bounds DEF Fresh
<1>4. /\ packets \in [{"cmd", "rsp", "log", "evt"} -> PacketValue]
      /\ count \in [{"command", "notice", "toggle"} -> Nat]
  BY DEF TypeInv, Types
<1>5. count' \in [{"command", "notice", "toggle"} -> Nat]
  BY <1>4 DEF ReceiveCommand, ReceiveDamaged, Notice, Handling, HandlePacket, HandleNothing, Count
<1>6. Flags' /\ packets' \in [{"cmd", "rsp", "log", "evt"} -> PacketValue] /\ Room'
  <2>1. CASE ReceiveCommand
    <3>0. PICK command \in Core \cup {"OTHER"} :
            \E len \in DataLengths(command) :
              packets' = [packets EXCEPT !["cmd"] = Packet(command, len, count'["command"], 0)]
      BY <2>1 DEF ReceiveCommand
    <3>1. PICK len \in DataLengths(command) :
            packets' = [packets EXCEPT !["cmd"] = Packet(command, len, count'["command"], 0)]
      BY <3>0
    <3>2. len \in Nat /\ len <= CmdCap - 1
      BY Bounds DEF DataLengths
    <3>3. /\ Packet(command, len, count'["command"], 0) \in PacketValue
          /\ Packet(command, len, count'["command"], 0).len = len
      BY <1>5, <3>2 DEF Packet, PacketValue, Command
    <3>4. Room'
      BY <1>4, <3>1, <3>2, <3>3 DEF TypeInv, Room
    <3>5. Flags'
      BY Zenon, <2>1 DEF TypeInv, Flags, ReceiveCommand
    <3>6. QED
      BY <1>4, <3>1, <3>3, <3>4, <3>5
  <2>2. CASE ReceiveDamaged
    <3>1. Flags'
      BY Zenon, <2>2 DEF TypeInv, Flags, ReceiveDamaged
    <3>2. QED
      BY <1>4, <2>2, <3>1 DEF TypeInv, Room, ReceiveDamaged
  <2>3. CASE Notice
    <3>1. Flags'
      BY Zenon, <2>3 DEF TypeInv, Flags, Notice
    <3>2. CASE packets' = packets
      BY <1>4, <3>1, <3>2 DEF TypeInv, Room
    <3>3. CASE packets' = [packets EXCEPT !["evt"] = Packet("EVENT", 0, 0, 0)]
      <4>1. Packet("EVENT", 0, 0, 0) \in PacketValue
        BY DEF Packet, PacketValue, Command
      <4>2. QED
        BY <1>4, <3>1, <3>3, <4>1 DEF TypeInv, Room
    <3>4. QED
      BY <2>3, <3>2, <3>3 DEF Notice
  <2>4. CASE HandlePacket
    <3> DEFINE cmd == packets["cmd"]
    <3> DEFINE rsp == [clear(packets["rsp"]) EXCEPT !.n = cmd.n]
    <3>1. PICK r \in Handle(cmd, rsp) :
            packets' = [packets EXCEPT !["rsp"] = r.rsp] /\ debug' = r.debug
      BY <2>4 DEF HandlePacket
    <3>2. cmd \in PacketValue /\ cmd.len <= CmdCap - 1
      BY <1>4 DEF TypeInv, Room
    <3>3. rsp \in PacketValue /\ rsp.len = 0
      BY <1>4 DEF clear, setData, setCommand, PacketValue, Command
    <3> HIDE DEF cmd, rsp
    <3>4. r.rsp \in PacketValue /\ r.rsp.len <= RspCap /\ r.debug \in BOOLEAN
      BY <3>2, <3>3, HandleFacts DEF TypeInv, Flags
    <3>5. Flags'
      <4>1. connected' \in BOOLEAN
        BY Zenon, <2>4 DEF TypeInv, Flags, HandlePacket
      <4>2. room' \in BOOLEAN
        BY Zenon, <2>4 DEF TypeInv, Flags, HandlePacket
      <4>3. debug' \in BOOLEAN
        BY Zenon, <3>1, <3>4
      <4>4. QED
        BY <4>1, <4>2, <4>3 DEF Flags
    <3>6. Room'
      BY <1>4, <3>1, <3>4 DEF TypeInv, Room
    <3>7. QED
      BY <1>4, <3>1, <3>4, <3>5, <3>6
  <2>5. CASE HandleNothing
    <3> DEFINE rsp == [clear(packets["rsp"]) EXCEPT !.n = packets["cmd"].n]
    <3>1. packets' = [packets EXCEPT !["rsp"] = rsp]
      BY <2>5 DEF HandleNothing
    <3>2. rsp \in PacketValue /\ rsp.len = 0
      BY <1>4 DEF clear, setData, setCommand, PacketValue, Command
    <3> HIDE DEF rsp
    <3>3. Flags'
      BY Zenon, <2>5 DEF TypeInv, Flags, HandleNothing
    <3>4. Room'
      BY <1>4, <3>1, <3>2, Bounds DEF TypeInv, Room
    <3>5. QED
      BY <1>4, <3>1, <3>2, <3>3, <3>4
  <2>6. QED
    BY <2>1, <2>2, <2>3, <2>4, <2>5 DEF Handling
<1>7. QED
  BY <1>1, <1>2, <1>3, <1>5, <1>6 DEF TypeInv, Types

\* The setup and the USB callback.
LEMMA TypesSetup ==
  ASSUME TypeInv, Setup \/ LineState \/ Backlog
  PROVE  TypeInv'
<1>1. UNCHANGED <<debug, logging, calls, packets, m_packet, phase, out, frames, writes>>
  BY SetupFacts
<1>2. /\ main' \in {"starting", "idle", "received", "overflow"}
      /\ m_handlers' \subseteq {"core", "app"}
      /\ count' \in [{"command", "notice", "toggle"} -> Nat]
  <2>1. CASE Start
    BY <2>1 DEF Start, setup, TypeInv, Types
  <2>2. CASE \E handler \in {"core", "app"} : add(handler)
    BY <2>2 DEF add, TypeInv, Types
  <2>3. CASE LineState
    BY <2>3 DEF LineState, Count, setup, TypeInv, Types
  <2>4. CASE Backlog
    BY <2>4 DEF Backlog, Count, setup, TypeInv, Types
  <2>5. QED
    BY <2>1, <2>2, <2>3, <2>4 DEF Setup
<1>3. connected' \in BOOLEAN /\ room' \in BOOLEAN
  <2>1. connected' = connected \/ connected' = ~connected
    BY Zenon DEF Setup, Start, add, LineState, Backlog
  <2>2. room' = room \/ room' = ~room
    BY Zenon DEF Setup, Start, add, LineState, Backlog
  <2>3. QED
    BY <2>1, <2>2 DEF TypeInv, Flags
<1>4. debug' \in BOOLEAN
  BY Zenon, <1>1 DEF TypeInv, Flags
<1>5. Types'
  BY <1>1, <1>2 DEF TypeInv, Types
<1>6. Chosen' /\ Room'
  BY <1>1 DEF TypeInv, Chosen, Room
<1>7. QED
  BY <1>3, <1>4, <1>5, <1>6 DEF TypeInv, Flags

\* Logging and writing.
LEMMA TypesLogging ==
  ASSUME TypeInv, Logging
  PROVE  TypeInv'
<1>1. /\ calls \in Seq(Call) /\ calls # <<>>
      /\ Len(calls) \in Nat \ {0} /\ Top = calls[Len(calls)] /\ Top \in Call
      /\ Caller \in Seq(Call) /\ Len(Caller) = Len(calls) - 1
      /\ \A i \in 1..(Len(calls) - 1) : Caller[i] = calls[i]
  <2>1. calls \in Seq(Call) /\ calls # <<>>
    BY DEF TypeInv, Types, Logging, DoLog, EncodeStart, EncodeReset, WriteByte, Running
  <2>2. QED
    BY <2>1, StackFacts
<1>2. Types
  BY DEF TypeInv
<1>3. Flags'
  BY Zenon DEF TypeInv, Flags, Logging, DoLog, EncodeStart, EncodeReset, WriteByte
<1>4. \A i \in 1..(Len(calls) - 1) : calls[i].op \in {"dumped", "loop"} => m_packet # "none"
  <2>1. \A i \in 1..(Len(calls) - 1) : i \in 1..Len(calls)
    BY <1>1
  <2>2. QED
    BY <2>1 DEF TypeInv, Chosen
<1>5. CASE DoLog
  <2>1. CASE Passes(Top.arg)
    <3>1. PICK k \in 0..MaxText : packets' = [packets EXCEPT !["log"] = Logged(k)]
      BY <1>5, <2>1 DEF DoLog
    <3>2. /\ Logged(k) \in PacketValue /\ Logged(k).len <= LogCap
          /\ Logged(k).str = Logged(k).len - 2
      <4>1. k \in Nat
        BY Bounds
      <4>2. QED
        BY <4>1, LoggedFacts
    <3>3. WriteCall("log") \in Call /\ WriteCall("log").op = "start"
      BY DEF WriteCall, Call
    <3>4. calls' = Append(Caller, WriteCall("log"))
      BY <1>5, <2>1 DEF DoLog
    <3>5. /\ calls' \in Seq(Call) /\ Len(calls') = Len(calls)
          /\ calls'[Len(calls)].op = "start"
          /\ \A i \in 1..(Len(calls) - 1) : calls'[i] = calls[i]
      BY <1>1, <3>3, <3>4, Replaced
    <3>6. \A i \in 1..Len(calls') : i = Len(calls) \/ i \in 1..(Len(calls) - 1)
      BY <1>1, <3>5
    <3>7. m_packet' = m_packet
      BY <1>5 DEF DoLog, encoderVars
    <3>8. Chosen'
      BY <1>4, <3>5, <3>6, <3>7 DEF Chosen
    <3>9. Room'
      BY <1>2, <3>1, <3>2 DEF TypeInv, Types, Room
    <3>10. Types'
      BY <1>2, <1>5, <3>1, <3>2, <3>5 DEF Types, DoLog, encoderVars, setup
    <3>11. QED
      BY <1>3, <3>8, <3>9, <3>10 DEF TypeInv
  <2>2. CASE ~Passes(Top.arg)
    <3>1. calls' = Caller /\ packets' = packets /\ m_packet' = m_packet
      BY <1>5, <2>2 DEF DoLog, encoderVars
    <3>2. Len(Caller) <= MaxDepth
      BY <1>1, <1>2, Bounds DEF Types
    <3>3. Types'
      BY <1>1, <1>2, <1>5, <3>1, <3>2 DEF Types, DoLog, encoderVars, setup
    <3>4. Chosen'
      BY <1>1, <1>4, <3>1 DEF Chosen
    <3>5. Room'
      BY <3>1 DEF TypeInv, Room
    <3>6. QED
      BY <1>3, <3>3, <3>4, <3>5 DEF TypeInv
  <2>3. QED
    BY <2>1, <2>2
<1>6. CASE EncodeStart
  <2>1. /\ Top.op = "start" /\ Top.arg \in {"rsp", "log", "evt"}
        /\ m_packet' = Top.arg /\ writes' = writes + 1 /\ packets' = packets
        /\ writes \in Nat
    BY <1>1, <1>2, <1>6 DEF EncodeStart, Running, Call, Types
  <2>2. Chosen'
    BY <2>1 DEF Chosen
  <2>3. Room'
    BY <2>1 DEF TypeInv, Room
  <2>4. InLoop(writes') \in Call /\ [op |-> "dumped", arg |-> Top.arg, w |-> writes'] \in Call
        /\ LogCall("info") \in Call
    BY <2>1 DEF InLoop, Call, LogCall
  <2>5. calls' \in Seq(Call) /\ Len(calls') <= MaxDepth
    <3>1. CASE ~debug
      <4>1. calls' = Append(Caller, InLoop(writes'))
        BY <1>6, <3>1 DEF EncodeStart
      <4>2. QED
        BY <1>1, <1>2, <2>4, <4>1, Replaced DEF Types
    <3>2. CASE debug /\ Len(calls) < MaxDepth
      <4>1. calls' = Caller \o <<[op |-> "dumped", arg |-> Top.arg, w |-> writes'], LogCall("info")>>
        BY <1>6, <3>2 DEF EncodeStart
      <4>2. calls' \in Seq(Call) /\ Len(calls') = Len(calls) + 1
        BY <1>1, <2>4, <4>1, Nested
      <4>3. QED
        BY <1>1, <3>2, <4>2, Bounds
    <3>3. CASE debug /\ ~(Len(calls) < MaxDepth)
      <4>1. calls' = calls
        BY <1>6, <3>3 DEF EncodeStart
      <4>2. QED
        BY <1>2, <4>1 DEF Types
    <3>4. QED
      BY <3>1, <3>2, <3>3
  <2>6. phase' \in 1..3
    BY <1>2, <1>6 DEF EncodeStart, Types
  <2>7. main' = main \/ main' = "overflow"
    BY <1>6 DEF EncodeStart
  <2>8. UNCHANGED <<m_handlers, logging, out, count>>
    BY <1>6 DEF EncodeStart, setup
  <2>9. Types'
    BY <1>2, <2>1, <2>5, <2>6, <2>7, <2>8 DEF Types
  <2>10. QED
    BY <1>3, <2>2, <2>3, <2>9 DEF TypeInv
<1>7. CASE EncodeReset
  <2>1. /\ phase' = 1 /\ calls' = Append(Caller, InLoop(Top.w))
        /\ Top.op = "dumped"
        /\ UNCHANGED <<m_handlers, logging, main, packets, m_packet, out, count, writes>>
    BY <1>7 DEF EncodeReset, Running, setup
  <2>2. InLoop(Top.w) \in Call
    BY <1>1, <2>1 DEF InLoop, Call
  <2>3. calls' \in Seq(Call) /\ Len(calls') = Len(calls)
    BY <1>1, <2>1, <2>2, Replaced
  <2>4. m_packet # "none"
    BY <1>1, <2>1 DEF TypeInv, Chosen
  <2>5. Chosen' /\ Room'
    BY <2>1, <2>4 DEF TypeInv, Chosen, Room
  <2>6. Types'
    BY <1>2, <2>1, <2>3 DEF Types
  <2>7. QED
    BY <1>3, <2>5, <2>6 DEF TypeInv
<1>8. CASE WriteByte
  <2>1. /\ Top.op = "loop"
        /\ UNCHANGED <<m_handlers, logging, main, packets, m_packet, count, writes>>
        /\ phase' = 1 \/ (phase # 3 /\ phase' = phase + 1)
        /\ calls' = Caller \/ calls' = calls
    BY <1>8 DEF WriteByte, Return, Running, setup
  <2>2. m_packet \in {"rsp", "log", "evt"}
    BY <1>1, <1>2, <2>1 DEF TypeInv, Chosen, Types
  <2>3. out' \in Seq(PieceValue)
    <3>1. PICK extent \in {"whole", "part"} : out' = out \/ out' = Append(out, Piece(extent))
      BY <1>8 DEF WriteByte, PieceWritten
    <3>2. Piece(extent) \in PieceValue
      BY <1>1, <1>2, <2>1, <2>2 DEF Piece, PieceValue, Call, Types
    <3>3. out \in Seq(PieceValue)
      BY <1>2 DEF Types
    <3>4. QED
      BY <3>1, <3>2, <3>3, AppendProperties
  <2>4. phase' \in 1..3
    BY <1>2, <2>1 DEF Types
  <2>5. calls' \in Seq(Call) /\ Len(calls') <= MaxDepth
    BY <1>1, <1>2, <2>1, Bounds DEF Types
  <2>6. Chosen' /\ Room'
    BY <2>1, <2>2 DEF TypeInv, Chosen, Room
  <2>7. Types'
    BY <1>2, <2>1, <2>3, <2>4, <2>5 DEF Types
  <2>8. QED
    BY <1>3, <2>6, <2>7 DEF TypeInv
<1>9. QED
  BY <1>5, <1>6, <1>7, <1>8 DEF Logging

\* The inductive step: one action after another.
LEMMA TypeStep == TypeInv /\ [Next]_vars => TypeInv'
<1> SUFFICES ASSUME TypeInv, [Next]_vars PROVE TypeInv'
  OBVIOUS
<1>1. CASE UNCHANGED vars
  <2>1. Flags'
    BY Zenon, <1>1 DEF TypeInv, Flags, vars
  <2>2. QED
    BY <1>1, <2>1 DEF TypeInv, Types, Chosen, Room, vars
<1>2. QED
  BY <1>1, TypesMain, TypesSetup, TypesLogging DEF Next

\* Types, the kinds of calls, and what each packet has room for.
LEMMA TypeInvariant == Spec => []TypeInv
<1>1. Init => TypeInv
  <2> SUFFICES ASSUME Init PROVE TypeInv
    OBVIOUS
  <2>1. Flags
    BY DEF Init, Flags
  <2>2. Blank \in PacketValue /\ Blank.len = 0
    BY DEF Blank, Packet, PacketValue, Command
  <2>3. packets \in [{"cmd", "rsp", "log", "evt"} -> PacketValue] /\ packets["log"] = Blank
    BY <2>2 DEF Init
  <2>4. Room
    BY <2>2, <2>3, Bounds DEF Init, Room
  <2>5. Chosen
    BY EmptySeq DEF Init, Chosen
  <2>6. calls \in Seq(Call) /\ Len(calls) <= MaxDepth /\ out \in Seq(PieceValue)
    BY EmptySeq, Bounds DEF Init
  <2>7. Types
    BY <2>3, <2>6 DEF Init, Types
  <2>8. QED
    BY <2>1, <2>4, <2>5, <2>7 DEF TypeInv
<1>2. QED
  BY <1>1, TypeStep, PTL DEF Spec

\* The variables have their types; in particular the stack never grows past its depth.
THEOREM TypeCorrect == Spec => []TypeOK
<1>1. TypeInv => TypeOK
  <2> SUFFICES ASSUME TypeInv PROVE TypeOK
    OBVIOUS
  <2>1. \A i \in 1..Len(calls) : calls[i] \in Call
    BY ElementOfSeq DEF TypeInv, Types
  <2>2. \A i \in 1..Len(calls) : calls[i].op \in {"log", "start", "dumped", "loop"}
    BY <2>1 DEF Call
  <2>3. connected \in BOOLEAN /\ room \in BOOLEAN /\ debug \in BOOLEAN
    BY DEF TypeInv, Flags
  <2>4. QED
    BY <2>2, <2>3 DEF TypeInv, Types, TypeOK
<1>2. QED
  BY <1>1, TypeInvariant, PTL

\* No handler, whatever data its command comes with, and no log message, however long, writes
\* past the packet: what the asserts of Packet::appendByte and appendData check holds.
THEOREM Fits == Spec => []InCapacity
<1>1. TypeInv => InCapacity
  BY DEF TypeInv, Room, InCapacity
<1>2. QED
  BY <1>1, TypeInvariant, PTL

\* The length byte of a log message is right: the text that fits the packet fits a byte.
THEOREM LengthByteExact == Spec => []StrLenExact
<1>1. TypeInv => StrLenExact
  BY DEF TypeInv, Room, StrLenExact
<1>2. QED
  BY <1>1, TypeInvariant, PTL
-----------------------------------------------------------------------------
(***************************************************************************)
(* The depth of calls.                                                     *)
(***************************************************************************)

\* The innermost call of a dump that ends is one of the first two, or a line of the dump.
LEMMA TopShallow ==
  ASSUME TypeInv, Shallow, calls # <<>>, logging # "everything", Top # LogCall("info")
  PROVE  Len(calls) <= 2
<1>1. Len(calls) \in Nat \ {0} /\ Top = calls[Len(calls)]
  BY StackFacts DEF TypeInv, Types
<1>2. SUFFICES ASSUME ~(Len(calls) <= 2) PROVE FALSE
  OBVIOUS
<1>3. Len(calls) \in 3..Len(calls)
  BY <1>1, <1>2
<1>4. QED
  BY <1>1, <1>3 DEF Shallow

\* The steps that call and return keep the stack shallow, but where all is logged.
LEMMA DepthLogging ==
  ASSUME TypeInv, DepthInv, Logging
  PROVE  DepthInv'
<1>1. /\ calls \in Seq(Call) /\ calls # <<>> /\ main # "overflow"
      /\ logging' = logging
  BY DEF TypeInv, Types, Logging, DoLog, EncodeStart, EncodeReset, WriteByte, Running, setup
<1>2. /\ Len(calls) \in Nat \ {0} /\ Top = calls[Len(calls)] /\ Top \in Call
      /\ Caller \in Seq(Call) /\ Len(Caller) = Len(calls) - 1
      /\ \A i \in 1..(Len(calls) - 1) : Caller[i] = calls[i]
  BY <1>1, StackFacts
<1>3. debug' = debug
  BY Zenon DEF Logging, DoLog, EncodeStart, EncodeReset, WriteByte
<1>4. Shallow
  BY DEF DepthInv
<1>5. calls' = Caller \/ calls' = calls => Shallow'
  <2>1. CASE calls' = calls
    BY <1>1, <1>4, <2>1 DEF Shallow
  <2>2. CASE calls' = Caller
    <3>1. \A i \in 3..Len(Caller) : i \in 3..Len(calls) /\ Caller[i] = calls[i]
      BY <1>2
    <3>2. QED
      BY <1>1, <1>4, <2>2, <3>1 DEF Shallow
  <2>3. QED
    BY <2>1, <2>2
<1>6. CASE DoLog
  <2>1. main' = main
    BY <1>6 DEF DoLog
  <2>2. OverflowEndless'
    BY <1>1, <2>1 DEF OverflowEndless
  <2>3. CASE Passes(Top.arg)
    <3>1. Shallow'
      <4>1. SUFFICES ASSUME logging # "everything" PROVE Len(calls') <= 2
        BY <1>1 DEF Shallow
      <4>2. Top.arg = "error"
        BY <2>3, <4>1 DEF Passes
      <4>3. Top # LogCall("info")
        BY <4>2 DEF LogCall
      <4>4. calls' = Append(Caller, WriteCall("log")) /\ WriteCall("log") \in Call
        BY <1>6, <2>3 DEF DoLog, WriteCall, Call
      <4>5. Len(calls') = Len(calls)
        BY <1>1, <4>4, Replaced
      <4>6. QED
        BY <1>1, <1>4, <4>1, <4>3, <4>5, TopShallow
    <3>2. QED
      BY <2>2, <3>1 DEF DepthInv
  <2>4. CASE ~Passes(Top.arg)
    <3>1. calls' = Caller
      BY <1>6, <2>4 DEF DoLog
    <3>2. QED
      BY <1>5, <2>2, <3>1 DEF DepthInv
  <2>5. QED
    BY <2>3, <2>4
<1>7. CASE EncodeStart
  <2>1. Top.op = "start" /\ writes' = writes + 1
    BY <1>7 DEF EncodeStart, Running
  <2>2. logging # "everything" => Len(calls) <= 2
    <3>1. Top # LogCall("info")
      BY <2>1 DEF LogCall
    <3>2. QED
      BY <1>1, <1>4, <3>1, TopShallow
  <2>3. /\ InLoop(writes') \in Call /\ [op |-> "dumped", arg |-> Top.arg, w |-> writes'] \in Call
        /\ LogCall("info") \in Call
    BY <1>2, <2>1 DEF TypeInv, Types, InLoop, Call, LogCall
  <2>4. CASE ~debug
    <3>1. calls' = Append(Caller, InLoop(writes')) /\ main' = main
      BY <1>7, <2>4 DEF EncodeStart
    <3>2. Len(calls') = Len(calls)
      BY <1>1, <2>3, <3>1, Replaced
    <3>3. Shallow'
      BY <1>1, <1>2, <2>2, <3>2 DEF Shallow
    <3>4. OverflowEndless'
      BY <1>1, <3>1 DEF OverflowEndless
    <3>5. QED
      BY <3>3, <3>4 DEF DepthInv
  <2>5. CASE debug /\ Len(calls) < MaxDepth
    <3>1. /\ calls' = Caller \o <<[op |-> "dumped", arg |-> Top.arg, w |-> writes'], LogCall("info")>>
          /\ main' = main
      BY <1>7, <2>5 DEF EncodeStart
    <3>2. Len(calls') = Len(calls) + 1 /\ calls'[Len(calls) + 1] = LogCall("info")
      BY <1>1, <2>3, <3>1, Nested
    <3>3. Shallow'
      <4>1. SUFFICES ASSUME logging # "everything", NEW i \in 3..Len(calls')
                     PROVE  calls'[i] = LogCall("info")
        BY <1>1 DEF Shallow, LogCall
      <4>2. i = Len(calls) + 1
        BY <1>2, <2>2, <3>2, <4>1
      <4>3. QED
        BY <3>2, <4>2
    <3>4. OverflowEndless'
      BY <1>1, <3>1 DEF OverflowEndless
    <3>5. QED
      BY <3>3, <3>4 DEF DepthInv
  <2>6. CASE debug /\ ~(Len(calls) < MaxDepth)
    <3>1. calls' = calls
      BY <1>7, <2>6 DEF EncodeStart
    <3>2. logging = "everything"
      BY <1>2, <2>2, <2>6, Bounds
    <3>3. Endless'
      BY Zenon, <1>1, <1>3, <2>6, <3>2 DEF Endless
    <3>4. OverflowEndless'
      BY <3>3 DEF OverflowEndless
    <3>5. QED
      BY <1>5, <3>1, <3>4 DEF DepthInv
  <2>7. QED
    BY <2>4, <2>5, <2>6
<1>8. CASE EncodeReset
  <2>1. Top.op = "dumped" /\ calls' = Append(Caller, InLoop(Top.w)) /\ main' = main
    BY <1>8 DEF EncodeReset, Running
  <2>2. InLoop(Top.w) \in Call
    BY <1>2, <2>1 DEF InLoop, Call
  <2>3. Len(calls') = Len(calls)
    BY <1>1, <2>1, <2>2, Replaced
  <2>4. logging # "everything" => Len(calls) <= 2
    <3>1. Top # LogCall("info")
      BY <2>1 DEF LogCall
    <3>2. QED
      BY <1>1, <1>4, <3>1, TopShallow
  <2>5. Shallow'
    BY <1>1, <1>2, <2>3, <2>4 DEF Shallow
  <2>6. OverflowEndless'
    BY <1>1, <2>1 DEF OverflowEndless
  <2>7. QED
    BY <2>5, <2>6 DEF DepthInv
<1>9. CASE WriteByte
  <2>1. (calls' = Caller \/ calls' = calls) /\ main' = main
    BY <1>9 DEF WriteByte, Return
  <2>2. OverflowEndless'
    BY <1>1, <2>1 DEF OverflowEndless
  <2>3. QED
    BY <1>5, <2>1, <2>2 DEF DepthInv
<1>10. QED
  BY <1>6, <1>7, <1>8, <1>9 DEF Logging

\* So do the others, which find the stack empty.
LEMMA DepthStep ==
  ASSUME TypeInv, DepthInv, [Next]_vars
  PROVE  DepthInv'
<1>1. CASE ReceiveCommand \/ ReceiveDamaged \/ Notice \/ Handling
  <2>1. Fresh(calls') /\ main' # "overflow"
    BY <1>1, MainFacts
  <2>2. QED
    BY <2>1 DEF Fresh, DepthInv, Shallow, OverflowEndless
<1>2. CASE Setup \/ LineState \/ Backlog
  <2>1. calls' = calls /\ logging' = logging /\ main' # "overflow"
    BY <1>2, SetupFacts
  <2>2. QED
    BY <2>1 DEF DepthInv, Shallow, OverflowEndless
<1>3. CASE Logging
  BY <1>3, DepthLogging
<1>4. CASE UNCHANGED vars
  <2>1. Endless => Endless'
    BY Zenon, <1>4 DEF vars, Endless
  <2>2. QED
    BY <1>4, <2>1 DEF vars, DepthInv, Shallow, OverflowEndless
<1>5. QED
  BY <1>1, <1>2, <1>3, <1>4 DEF Next

\* The stack overflows only where logging never ends.
LEMMA DepthInvariant == Spec => []DepthInv
<1>1. Init => DepthInv
  BY EmptySeq DEF Init, DepthInv, Shallow, OverflowEndless
<1>2. QED
  BY <1>1, DepthStep, TypeInvariant, PTL DEF Spec

\* The stack overflows for no other reason than dumps that go to the bus they report about:
\* however messages and packets come, writePacket does not re-enter itself otherwise.
THEOREM OverflowExplained == Spec => []OverflowOnlyByDebug
<1>1. DepthInv => OverflowOnlyByDebug
  BY DEF DepthInv, OverflowEndless, Endless, OverflowOnlyByDebug
<1>2. QED
  BY <1>1, DepthInvariant, PTL
-----------------------------------------------------------------------------
(***************************************************************************)
(* The frames on the wire.                                                 *)
(***************************************************************************)

\* No loop is below the innermost call; a writePacket that is about to begin its own is, only
\* if a line of its dump is on top.
LEMMA Below ==
  ASSUME TypeInv, Encoding, calls # <<>>
  PROVE  /\ \A i \in 1..(Len(calls) - 1) :
              /\ calls[i].op # "loop"
              /\ calls[i].op = "dumped" =>
                   /\ debug
                   /\ \/ Endless
                      \/ /\ ~Endless /\ Top = LogCall("info")
                         /\ calls[i].w = writes /\ i + 1 = Len(calls)
                         /\ \A j \in 1..Len(out) : out[j].w < writes
         /\ Top.op = "loop" => Top.w = writes /\ ~Endless
         /\ Top.op = "dumped" =>
              ~Endless /\ Top.w = writes /\ \A j \in 1..Len(out) : out[j].w < writes
<1>1. Len(calls) \in Nat \ {0} /\ Top = calls[Len(calls)]
  BY StackFacts DEF TypeInv, Types
<1>2. ASSUME NEW i \in 1..(Len(calls) - 1)
      PROVE  /\ calls[i].op # "loop"
             /\ calls[i].op = "dumped" =>
                  /\ debug
                  /\ \/ Endless
                     \/ /\ ~Endless /\ Top = LogCall("info")
                        /\ calls[i].w = writes /\ i + 1 = Len(calls)
                        /\ \A j \in 1..Len(out) : out[j].w < writes
  <2>1. i \in 1..Len(calls) /\ i # Len(calls)
    BY <1>1
  <2>2. calls[i].op # "loop"
    BY <2>1 DEF Encoding
  <2>3. SUFFICES ASSUME calls[i].op = "dumped"
                 PROVE  /\ debug
                        /\ \/ Endless
                           \/ /\ ~Endless /\ Top = LogCall("info")
                              /\ calls[i].w = writes /\ i + 1 = Len(calls)
                              /\ \A j \in 1..Len(out) : out[j].w < writes
    BY <2>2
  <2>4. debug
    BY Zenon, <2>1, <2>3 DEF Encoding
  <2>5. \/ Endless
        \/ /\ ~Endless /\ calls[i].w = writes
           /\ i + 1 = Len(calls) /\ calls[i + 1] = LogCall("info")
           /\ \A j \in 1..Len(out) : out[j].w < writes
    BY Zenon, <2>1, <2>3 DEF Encoding
  <2>6. i + 1 = Len(calls) => Top = calls[i + 1]
    BY <1>1
  <2>7. QED
    BY Zenon, <2>4, <2>5, <2>6
<1>3. Len(calls) \in 1..Len(calls)
  BY <1>1
<1>4. Top.op = "loop" => Top.w = writes /\ ~Endless
  BY Zenon, <1>1, <1>3 DEF Encoding
<1>5. Top.op = "dumped" =>
        ~Endless /\ Top.w = writes /\ \A j \in 1..Len(out) : out[j].w < writes
  <2>1. ~(Len(calls) < Len(calls))
    BY <1>1
  <2>2. QED
    BY Zenon, <1>1, <1>3, <2>1 DEF Encoding
<1>6. QED
  BY Zenon, <1>2, <1>4, <1>5

\* A stack with neither a loop nor a writePacket about to begin one, but those that never do.
Idle(s, endless) ==
  \A i \in 1..Len(s) :
    /\ s[i].op # "loop"
    /\ s[i].op = "dumped" => endless /\ i < Len(s)

\* With such a stack nothing is asked of the encoder.
LEMMA IdleKeeps ==
  ASSUME TypeInv', Idle(calls', Endless'),
         \A j \in 1..Len(out') : out'[j].w <= writes'
  PROVE  Encoding' /\ Latest'
<1>1. Encoding'
  <2>1. \A i \in 1..Len(calls') :
          /\ calls'[i].op # "loop"
          /\ calls'[i].op = "dumped" => Endless' /\ debug' /\ i < Len(calls')
    BY Zenon DEF Idle, Endless
  <2>2. QED
    BY Zenon, <2>1 DEF Encoding
<1>2. Latest'
  <2>1. calls' # <<>> => Len(calls') \in 1..Len(calls')
    <3>1. calls' \in Seq(Call)
      BY DEF TypeInv, Types
    <3>2. QED
      BY <3>1, EmptySeq
  <2>2. calls' # <<>> => calls'[Len(calls')].op # "loop"
    BY <2>1 DEF Idle
  <2>3. QED
    BY <2>2 DEF Latest
<1>3. QED
  BY <1>1, <1>2

\* do_log fills the log packet before it is written, and no other.
LEMMA WireDoLog ==
  ASSUME TypeInv, TypeInv', WireInv, DoLog
  PROVE  WireInv'
<1>1. /\ calls \in Seq(Call) /\ calls # <<>> /\ Top.op = "log"
      /\ UNCHANGED <<out, writes, logging>>
  BY DEF TypeInv, Types, DoLog, Running, encoderVars, setup
<1>2. debug' = debug
  BY Zenon DEF DoLog
<1>3. Endless' <=> Endless
  BY Zenon, <1>1, <1>2 DEF Endless
<1>4. /\ Len(calls) \in Nat \ {0}
      /\ Len(Caller) = Len(calls) - 1
      /\ \A i \in 1..(Len(calls) - 1) : Caller[i] = calls[i]
  BY <1>1, StackFacts
<1>5. Encoding
  BY DEF WireInv
<1>6. \A j \in 1..Len(out') : out'[j].w <= writes'
  BY <1>1 DEF WireInv, Latest
<1>7. NotMixed'
  BY <1>1 DEF WireInv, NotMixed
<1>8. CASE Passes(Top.arg)
  <2>1. calls' = Append(Caller, WriteCall("log")) /\ WriteCall("log") \in Call
    BY <1>8 DEF DoLog, WriteCall, Call
  <2>2. /\ Len(calls') = Len(calls) /\ calls'[Len(calls)] = WriteCall("log")
        /\ \A i \in 1..(Len(calls) - 1) : calls'[i] = calls[i]
    BY <1>1, <2>1, Replaced
  <2>3. ~Endless => ~(debug /\ Top = LogCall("info"))
    <3>1. SUFFICES ASSUME ~Endless, debug, Top = LogCall("info") PROVE FALSE
      OBVIOUS
    <3>2. Top.arg = "info"
      BY <3>1 DEF LogCall
    <3>3. logging = "everything"
      BY <1>8, <3>2 DEF Passes
    <3>4. QED
      BY Zenon, <3>1, <3>3 DEF Endless
  <2>4. \A i \in 1..(Len(calls) - 1) :
          calls[i].op # "loop" /\ (calls[i].op = "dumped" => Endless)
    BY Zenon, <1>1, <1>5, <2>3, Below
  <2>5. Idle(calls', Endless')
    <3>1. ASSUME NEW i \in 1..Len(calls')
          PROVE  calls'[i].op # "loop" /\ (calls'[i].op = "dumped" => Endless' /\ i < Len(calls'))
      <4>1. CASE i = Len(calls)
        BY <2>2, <4>1 DEF WriteCall
      <4>2. CASE i # Len(calls)
        <5>1. i \in 1..(Len(calls) - 1) /\ i < Len(calls')
          BY <1>4, <2>2, <4>2
        <5>2. QED
          BY Zenon, <1>3, <2>2, <2>4, <5>1
      <4>3. QED
        BY <4>1, <4>2
    <3>2. QED
      BY Zenon, <3>1 DEF Idle
  <2>6. QED
    BY <1>6, <1>7, <2>5, IdleKeeps DEF WireInv
<1>9. CASE ~Passes(Top.arg)
  <2>1. calls' = Caller
    BY <1>9 DEF DoLog
  <2>2. logging # "everything"
    BY <1>9 DEF Passes
  <2>3. ~Endless /\ ~Endless'
    BY Zenon, <1>3, <2>2 DEF Endless
  <2>4. ASSUME NEW i \in 1..Len(calls')
        PROVE  /\ calls'[i].op # "loop"
               /\ calls'[i].op = "dumped" =>
                    /\ debug' /\ calls'[i].w = writes' /\ i = Len(calls')
                    /\ \A j \in 1..Len(out') : out'[j].w < writes'
    <3>1. i \in 1..(Len(calls) - 1) /\ calls'[i] = calls[i]
      BY <1>4, <2>1
    <3>2. /\ calls[i].op # "loop"
          /\ calls[i].op = "dumped" =>
               /\ debug /\ calls[i].w = writes /\ i + 1 = Len(calls)
               /\ \A j \in 1..Len(out) : out[j].w < writes
      BY Zenon, <1>1, <1>5, <2>3, <3>1, Below
    <3>3. i + 1 = Len(calls) => i = Len(calls')
      BY <1>4, <2>1, <3>1
    <3>4. out' = out /\ writes' = writes
      BY <1>1
    <3>5. (\A j \in 1..Len(out) : out[j].w < writes) => (\A j \in 1..Len(out') : out'[j].w < writes')
      BY <3>4
    <3>6. calls[i].op = "dumped" =>
            /\ debug /\ calls'[i].w = writes' /\ i = Len(calls')
            /\ \A j \in 1..Len(out') : out'[j].w < writes'
      BY Zenon, <3>1, <3>2, <3>3, <3>4, <3>5
    <3>7. debug => debug'
      BY Zenon, <1>2
    <3>8. QED
      BY Zenon, <3>1, <3>2, <3>6, <3>7
  <2>5. Encoding'
    BY Zenon, <2>3, <2>4 DEF Encoding
  <2>6. Latest'
    <3>1. calls' # <<>> => Len(calls') \in 1..Len(calls')
      <4>1. calls' \in Seq(Call)
        BY DEF TypeInv, Types
      <4>2. QED
        BY <4>1, EmptySeq
    <3>2. calls' # <<>> => calls'[Len(calls')].op # "loop"
      BY Zenon, <2>4, <3>1
    <3>3. QED
      BY <1>6, <3>2 DEF Latest
  <2>7. QED
    BY <1>7, <2>5, <2>6 DEF WireInv
<1>10. QED
  BY <1>8, <1>9

\* encodeStart takes the encoder from nobody whose frame is on the wire.
LEMMA WireEncodeStart ==
  ASSUME TypeInv, TypeInv', WireInv, EncodeStart
  PROVE  WireInv'
<1>1. /\ calls \in Seq(Call) /\ calls # <<>> /\ Top.op = "start"
      /\ UNCHANGED <<out, logging>> /\ writes \in Nat /\ writes' = writes + 1
  BY DEF TypeInv, Types, EncodeStart, Running, setup
<1>2. debug' = debug
  BY Zenon DEF EncodeStart
<1>3. Endless' <=> Endless
  BY Zenon, <1>1, <1>2 DEF Endless
<1>4. Len(calls) \in Nat \ {0} /\ Top = calls[Len(calls)] /\ Top \in Call
  BY <1>1, StackFacts
<1>5. Encoding
  BY DEF WireInv
<1>6. \A j \in 1..Len(out) : out[j].w \in Nat /\ out[j].w <= writes
  <2>1. out \in Seq(PieceValue)
    BY DEF TypeInv, Types
  <2>2. \A j \in 1..Len(out) : out[j] \in PieceValue
    BY <2>1, ElementOfSeq
  <2>3. QED
    BY <2>2 DEF PieceValue, WireInv, Latest
<1>7. \A j \in 1..Len(out') : out'[j].w <= writes' /\ out'[j].w < writes' /\ out'[j].w # writes'
  BY <1>1, <1>6
<1>8. NotMixed'
  BY <1>1 DEF WireInv, NotMixed
<1>9. \A i \in 1..(Len(calls) - 1) :
        calls[i].op # "loop" /\ (calls[i].op = "dumped" => Endless)
  <2>1. Top # LogCall("info")
    BY <1>1 DEF LogCall
  <2>2. QED
    BY Zenon, <1>1, <1>5, <2>1, Below
<1>10. /\ InLoop(writes') \in Call /\ [op |-> "dumped", arg |-> Top.arg, w |-> writes'] \in Call
       /\ LogCall("info") \in Call
  BY <1>1, <1>4 DEF InLoop, Call, LogCall
<1>11. CASE ~debug
  <2>1. calls' = Append(Caller, InLoop(writes'))
    BY <1>11 DEF EncodeStart
  <2>2. /\ Len(calls') = Len(calls) /\ calls'[Len(calls)] = InLoop(writes')
        /\ \A i \in 1..(Len(calls) - 1) : calls'[i] = calls[i]
    BY <1>1, <1>10, <2>1, Replaced
  <2>3. ~Endless /\ ~Endless'
    BY Zenon, <1>3, <1>11 DEF Endless
  <2>4. ASSUME NEW i \in 1..Len(calls')
        PROVE  /\ calls'[i].op = "loop" => i = Len(calls') /\ calls'[i].w = writes'
               /\ calls'[i].op # "dumped"
    <3>1. CASE i = Len(calls)
      BY <2>2, <3>1 DEF InLoop
    <3>2. CASE i # Len(calls)
      <4>1. i \in 1..(Len(calls) - 1)
        BY <1>4, <2>2, <3>2
      <4>2. QED
        BY Zenon, <1>9, <2>2, <2>3, <4>1
    <3>3. QED
      BY <3>1, <3>2
  <2>5. Encoding'
    BY Zenon, <2>3, <2>4 DEF Encoding
  <2>6. Latest'
    BY Zenon, <1>7 DEF Latest
  <2>7. QED
    BY <1>8, <2>5, <2>6 DEF WireInv
<1>12. CASE debug /\ Len(calls) < MaxDepth
  <2>1. calls' = Caller \o <<[op |-> "dumped", arg |-> Top.arg, w |-> writes'], LogCall("info")>>
    BY <1>12 DEF EncodeStart
  <2>2. /\ Len(calls') = Len(calls) + 1
        /\ calls'[Len(calls)] = [op |-> "dumped", arg |-> Top.arg, w |-> writes']
        /\ calls'[Len(calls) + 1] = LogCall("info")
        /\ \A i \in 1..(Len(calls) - 1) : calls'[i] = calls[i]
    BY <1>1, <1>10, <2>1, Nested
  <2>3. ASSUME NEW i \in 1..Len(calls')
        PROVE  /\ calls'[i].op # "loop"
               /\ calls'[i].op = "dumped" =>
                    /\ i < Len(calls')
                    /\ \/ Endless'
                       \/ calls'[i].w = writes' /\ i + 1 = Len(calls')
                          /\ calls'[i + 1] = LogCall("info")
    <3>1. CASE i = Len(calls)
      <4>1. /\ calls'[i].op # "loop" /\ calls'[i].w = writes'
            /\ i < Len(calls') /\ i + 1 = Len(calls') /\ calls'[i + 1] = LogCall("info")
        BY <1>4, <2>2, <3>1
      <4>2. QED
        BY Zenon, <4>1
    <3>2. CASE i = Len(calls) + 1
      BY <2>2, <3>2 DEF LogCall
    <3>3. CASE i \in 1..(Len(calls) - 1)
      <4>1. i < Len(calls')
        BY <1>4, <2>2, <3>3
      <4>2. QED
        BY Zenon, <1>3, <1>9, <2>2, <3>3, <4>1
    <3>4. QED
      BY <1>4, <2>2, <3>1, <3>2, <3>3
  <2>4. \A j \in 1..Len(out') : out'[j].w < writes'
    BY Zenon, <1>7
  <2>5. debug'
    BY Zenon, <1>2, <1>12
  <2>6. Encoding'
    BY Zenon, <2>3, <2>4, <2>5 DEF Encoding
  <2>7. Latest'
    BY Zenon, <1>7 DEF Latest
  <2>8. QED
    BY <1>8, <2>6, <2>7 DEF WireInv
<1>13. CASE debug /\ ~(Len(calls) < MaxDepth)
  <2>1. calls' = calls
    BY <1>13 DEF EncodeStart
  <2>2. Idle(calls', Endless')
    <3>1. ASSUME NEW i \in 1..Len(calls')
          PROVE  calls'[i].op # "loop" /\ (calls'[i].op = "dumped" => Endless' /\ i < Len(calls'))
      <4>1. CASE i = Len(calls)
        BY <1>1, <1>4, <2>1, <4>1
      <4>2. CASE i # Len(calls)
        <5>1. i \in 1..(Len(calls) - 1) /\ i < Len(calls')
          BY <1>4, <2>1, <4>2
        <5>2. QED
          BY Zenon, <1>3, <1>9, <2>1, <5>1
      <4>3. QED
        BY <4>1, <4>2
    <3>2. QED
      BY Zenon, <3>1 DEF Idle
  <2>3. \A j \in 1..Len(out') : out'[j].w <= writes'
    BY Zenon, <1>7
  <2>4. QED
    BY <1>8, <2>2, <2>3, IdleKeeps DEF WireInv
<1>14. QED
  BY <1>11, <1>12, <1>13

\* The reset after a dump finds the encoder as the dump left it.
LEMMA WireEncodeReset ==
  ASSUME TypeInv, TypeInv', WireInv, EncodeReset
  PROVE  WireInv'
<1>1. /\ calls \in Seq(Call) /\ calls # <<>> /\ Top.op = "dumped"
      /\ calls' = Append(Caller, InLoop(Top.w))
      /\ UNCHANGED <<out, logging, writes>>
  BY DEF TypeInv, Types, EncodeReset, Running, setup
<1>2. debug' = debug
  BY Zenon DEF EncodeReset
<1>3. Endless' <=> Endless
  BY Zenon, <1>1, <1>2 DEF Endless
<1>4. Len(calls) \in Nat \ {0} /\ Top = calls[Len(calls)] /\ Top \in Call
  BY <1>1, StackFacts
<1>5. ~Endless /\ Top.w = writes /\ \A j \in 1..Len(out) : out[j].w < writes
  BY Zenon, <1>1, Below DEF WireInv
<1>6. \A i \in 1..(Len(calls) - 1) : calls[i].op # "loop" /\ calls[i].op # "dumped"
  <2>1. Top # LogCall("info")
    BY <1>1 DEF LogCall
  <2>2. QED
    BY Zenon, <1>1, <1>5, <2>1, Below DEF WireInv
<1>7. InLoop(Top.w) \in Call
  BY <1>1, <1>4 DEF InLoop, Call
<1>8. /\ Len(calls') = Len(calls) /\ calls'[Len(calls)] = InLoop(Top.w)
      /\ \A i \in 1..(Len(calls) - 1) : calls'[i] = calls[i]
  BY <1>1, <1>7, Replaced
<1>9. ASSUME NEW i \in 1..Len(calls')
      PROVE  /\ calls'[i].op = "loop" => i = Len(calls') /\ calls'[i].w = writes'
             /\ calls'[i].op # "dumped"
  <2>1. CASE i = Len(calls)
    BY <1>1, <1>5, <1>8, <2>1 DEF InLoop
  <2>2. CASE i # Len(calls)
    <3>1. i \in 1..(Len(calls) - 1)
      BY <1>4, <1>8, <2>2
    <3>2. QED
      BY Zenon, <1>6, <1>8, <3>1
  <2>3. QED
    BY <2>1, <2>2
<1>10. Encoding'
  BY Zenon, <1>3, <1>5, <1>9 DEF Encoding
<1>11. \A j \in 1..Len(out') : out'[j].w <= writes' /\ out'[j].w # writes'
  <2>1. out \in Seq(PieceValue) /\ writes \in Nat
    BY DEF TypeInv, Types
  <2>2. \A j \in 1..Len(out) : out[j] \in PieceValue
    BY <2>1, ElementOfSeq
  <2>3. QED
    BY <1>1, <1>5, <2>1, <2>2 DEF PieceValue
<1>12. Latest'
  BY Zenon, <1>11 DEF Latest
<1>13. NotMixed'
  BY <1>1 DEF WireInv, NotMixed
<1>14. QED
  BY <1>10, <1>12, <1>13 DEF WireInv

\* A piece on the wire continues the latest frame, or begins the next.
LEMMA WireWriteByte ==
  ASSUME TypeInv, TypeInv', WireInv, WriteByte
  PROVE  WireInv'
<1>1. /\ calls \in Seq(Call) /\ calls # <<>> /\ Top.op = "loop"
      /\ UNCHANGED <<logging, writes, packets, m_packet>>
      /\ (calls' = Caller /\ phase' = 1) \/ (calls' = calls /\ phase' = phase + 1)
  BY DEF TypeInv, Types, WriteByte, Return, Running, setup
<1>2. debug' = debug
  BY Zenon DEF WriteByte
<1>3. Endless' <=> Endless
  BY Zenon, <1>1, <1>2 DEF Endless
<1>4. /\ Len(calls) \in Nat \ {0} /\ Top = calls[Len(calls)]
      /\ Len(Caller) = Len(calls) - 1
      /\ \A i \in 1..(Len(calls) - 1) : Caller[i] = calls[i]
  BY <1>1, StackFacts
<1>5. Top.w = writes /\ ~Endless
  BY Zenon, <1>1, Below DEF WireInv
<1>6. \A i \in 1..(Len(calls) - 1) : calls[i].op # "loop" /\ calls[i].op # "dumped"
  <2>1. Top # LogCall("info")
    BY <1>1 DEF LogCall
  <2>2. QED
    BY Zenon, <1>1, <1>5, <2>1, Below DEF WireInv
<1>7. out \in Seq(PieceValue) /\ Len(out) \in Nat /\ writes \in Nat /\ phase \in 1..3
  BY LenProperties DEF TypeInv, Types
<1>8. \A j \in 1..Len(out) :
        /\ out[j].w \in Nat /\ out[j].piece \in 1..3 /\ out[j].w <= writes
        /\ out[j].w = writes => out[j].piece < phase /\ out[j].pkt = packets[m_packet]
  <2>1. \A j \in 1..Len(out) : out[j] \in PieceValue
    BY <1>7, ElementOfSeq
  <2>2. \A j \in 1..Len(out) : out[j].w \in Nat /\ out[j].piece \in 1..3
    BY <2>1 DEF PieceValue
  <2>3. \A j \in 1..Len(out) :
          /\ out[j].w <= writes
          /\ out[j].w = writes => out[j].piece < phase /\ out[j].pkt = packets[m_packet]
    BY Zenon, <1>1, <1>4 DEF WireInv, Latest
  <2>4. QED
    BY <2>2, <2>3
<1>0. PICK extent \in {"whole", "part"} : out' = out \/ out' = Append(out, Piece(extent))
  BY DEF WriteByte, PieceWritten
<1> DEFINE piece == Piece(extent)
<1>9. piece.w = writes /\ piece.piece = phase /\ piece.pkt = packets[m_packet]
  BY <1>5 DEF Piece
<1>10. out' = out \/ out' = Append(out, piece)
  BY <1>0
<1> HIDE DEF piece
<1>11. /\ \A j \in 1..Len(out') :
            /\ out'[j].w <= writes
            /\ out'[j].w = writes => out'[j].piece < phase + 1 /\ out'[j].pkt = packets[m_packet]
       /\ NotMixed'
  <2>1. NotMixed
    BY DEF WireInv
  <2>2. CASE out' = out
    <3>1. NotMixed'
      BY <2>1, <2>2 DEF NotMixed
    <3>2. \A j \in 1..Len(out) : out[j].piece < phase => out[j].piece < phase + 1
      BY <1>7, <1>8
    <3>3. \A j \in 1..Len(out) :
            /\ out[j].w <= writes
            /\ out[j].w = writes =>
                 out[j].piece < phase + 1 /\ out[j].pkt = packets[m_packet]
      BY Zenon, <1>8, <3>2
    <3>4. QED
      BY <2>2, <3>1, <3>3
  <2>3. CASE out' = Append(out, piece)
    <3>1. PICK len \in Nat : len = Len(out)
      BY <1>7
    <3>2. Len(out') = len + 1 /\ out'[len + 1] = piece /\ \A j \in 1..len : out'[j] = out[j]
      <4>1. out \in Seq(PieceValue \cup {piece})
        BY <1>7, SeqMonotonic
      <4>2. QED
        BY <2>3, <3>1, <4>1, AppendProperties
    <3>3. ASSUME NEW j \in 1..Len(out')
          PROVE  /\ out'[j].w <= writes
                 /\ out'[j].w = writes =>
                      out'[j].piece < phase + 1 /\ out'[j].pkt = packets[m_packet]
      <4>1. CASE j \in 1..len
        BY <1>7, <1>8, <3>1, <3>2, <4>1
      <4>2. CASE j = len + 1
        BY <1>7, <1>9, <3>2, <4>2
      <4>3. QED
        BY <3>2, <4>1, <4>2
    <3>4. ASSUME NEW i \in 1..(Len(out') - 1)
          PROVE  \/ out'[i].w < out'[i + 1].w
                 \/ /\ out'[i].w = out'[i + 1].w
                    /\ out'[i].piece < out'[i + 1].piece
                    /\ out'[i].pkt = out'[i + 1].pkt
      <4>1. CASE i \in 1..(len - 1)
        <5>1. i + 1 \in 1..len /\ i \in 1..len /\ i \in 1..(Len(out) - 1)
          BY <3>1, <4>1
        <5>2. out'[i] = out[i] /\ out'[i + 1] = out[i + 1]
          BY <3>2, <5>1
        <5>3. QED
          BY <2>1, <5>1, <5>2 DEF NotMixed
      <4>2. CASE i = len
        <5>1. out'[i + 1] = piece /\ i \in 1..Len(out) /\ out'[i] = out[i]
          BY <3>1, <3>2, <3>4, <4>2
        <5>2. \/ out[i].w < writes
              \/ out[i].w = writes /\ out[i].piece < phase /\ out[i].pkt = packets[m_packet]
          BY <1>7, <1>8, <5>1
        <5>3. QED
          BY <1>9, <5>1, <5>2
      <4>3. QED
        BY <3>2, <3>4, <4>1, <4>2
    <3>5. QED
      BY <3>3, <3>4 DEF NotMixed
  <2>4. QED
    BY <1>10, <2>2, <2>3
<1>12. CASE calls' = Caller
  <2>1. Idle(calls', Endless')
    BY <1>4, <1>6, <1>12 DEF Idle
  <2>2. \A j \in 1..Len(out') : out'[j].w <= writes'
    BY <1>1, <1>11
  <2>3. QED
    BY <1>11, <2>1, <2>2, IdleKeeps DEF WireInv
<1>13. CASE calls' = calls /\ phase' = phase + 1
  <2>1. ASSUME NEW i \in 1..Len(calls')
        PROVE  /\ calls'[i].op = "loop" => i = Len(calls') /\ calls'[i].w = writes'
               /\ calls'[i].op # "dumped"
    <3>1. CASE i = Len(calls)
      BY <1>1, <1>4, <1>5, <1>13, <3>1
    <3>2. CASE i # Len(calls)
      <4>1. i \in 1..(Len(calls) - 1)
        BY <1>4, <1>13, <3>2
      <4>2. QED
        BY Zenon, <1>6, <1>13, <4>1
    <3>3. QED
      BY <3>1, <3>2
  <2>2. Encoding'
    BY Zenon, <1>3, <1>5, <2>1 DEF Encoding
  <2>3. Latest'
    BY <1>1, <1>11, <1>13 DEF Latest
  <2>4. QED
    BY <1>11, <2>2, <2>3 DEF WireInv
<1>14. QED
  BY <1>1, <1>12, <1>13

\* The inductive step; other actions do not write.
LEMMA WireStep ==
  ASSUME TypeInv, WireInv, [Next]_vars
  PROVE  WireInv'
<1>1. TypeInv'
  BY TypeStep
<1>2. CASE ReceiveCommand \/ ReceiveDamaged \/ Notice \/ Handling
  <2>1. Fresh(calls') /\ UNCHANGED <<out, writes>>
    BY <1>2, MainFacts
  <2>2. Idle(calls', Endless')
    BY <2>1 DEF Fresh, Idle
  <2>3. \A j \in 1..Len(out') : out'[j].w <= writes'
    BY <2>1 DEF WireInv, Latest
  <2>4. NotMixed'
    BY <2>1 DEF WireInv, NotMixed
  <2>5. QED
    BY <1>1, <2>2, <2>3, <2>4, IdleKeeps DEF WireInv
<1>3. CASE Setup \/ LineState \/ Backlog \/ UNCHANGED vars
  <2>1. UNCHANGED <<debug, logging, calls, packets, m_packet, phase, out, frames, writes>>
    BY <1>3, SetupFacts DEF vars
  <2>2. debug' = debug
    BY Zenon, <2>1
  <2>3. Endless' <=> Endless
    <3>1. logging' = logging
      BY <2>1
    <3>2. QED
      BY Zenon, <2>2, <3>1 DEF Endless
  <2>4. Encoding'
    <3>1. Encoding
      BY DEF WireInv
    <3>2. calls' = calls /\ writes' = writes /\ out' = out
      BY <2>1
    <3>3. QED
      BY Zenon, <2>2, <2>3, <3>1, <3>2 DEF Encoding
  <2>5. Latest' /\ NotMixed'
    BY <2>1 DEF WireInv, Latest, NotMixed
  <2>6. QED
    BY <2>4, <2>5 DEF WireInv
<1>4. CASE Logging
  BY <1>1, <1>4, WireDoLog, WireEncodeStart, WireEncodeReset, WireWriteByte DEF Logging
<1>5. QED
  BY <1>2, <1>3, <1>4 DEF Next

\* WireInv is invariant.
LEMMA WireInvariant == Spec => []WireInv
<1>1. Init => WireInv
  <2> SUFFICES ASSUME Init PROVE WireInv
    OBVIOUS
  <2>1. Len(calls) = 0 /\ Len(out) = 0
    BY EmptySeq DEF Init
  <2>2. QED
    BY <2>1 DEF Init, WireInv, Encoding, Latest, NotMixed
<1>2. QED
  BY <1>1, WireStep, TypeInvariant, PTL DEF Spec

\* Whatever is logged while a packet is written, and whenever the host opens and closes its
\* port and the buffer is full, the frames of the bus's one encoder come out whole or cut, and never mixed.
THEOREM FramesKeptApart == Spec => []NotMixed
<1>1. WireInv => NotMixed
  BY DEF WireInv
<1>2. QED
  BY <1>1, WireInvariant, PTL
-----------------------------------------------------------------------------
(***************************************************************************)
(* The promise to the host.                                                *)
(***************************************************************************)

\* What a packet whose frame is whole says to the host.
Says(pkt) ==
  IF pkt.command \in {"LOG", "EVENT"} THEN Message(pkt.command)
  ELSE IF pkt \in ToSet(due) THEN Response(pkt.n) ELSE Cut

Frame == {Cut} \cup [kind : Command \cup {"RSP"}, n : Nat, codes : {<<"NONE">>}]

\* The packet that the i-th call writes: the answer to the latest command, written whole and
\* before anything else the device does, or a message.
Filled(i, which) ==
  /\ which = "rsp" => /\ i = 1
                      /\ Handled = count["command"]
                      /\ packets["rsp"] \in ToSet(due)
                      /\ packets["rsp"].command \notin {"LOG", "EVENT"}
  /\ which = "log" => packets["log"].command = "LOG"
  /\ which = "evt" => packets["evt"].command = "EVENT"

\* The encoder has the packet that the i-th call's loop writes.
Encoded(i) ==
  calls[i].op = "loop" \/ (calls[i].op = "dumped" /\ ~Endless) => m_packet = calls[i].arg

Contents == \A i \in 1..Len(calls) : Filled(i, calls[i].arg) /\ Encoded(i)

\* One command is handled at a time.
InTurn ==
  /\ main = "received" => /\ packets["cmd"].n = count["command"]
                          /\ packets["cmd"].command \in Core \cup {"OTHER"}
                          /\ Handled + 1 = count["command"]
  /\ main \in {"starting", "idle"} => Handled = count["command"]
  /\ packets["rsp"].str = 0

\* A piece of which nothing is missing.
Whole(w, j, pkt) == [w |-> w, piece |-> j, pkt |-> pkt, extent |-> "whole"]

\* The end of the wire is the beginning of the frame being written.
Continued(pieces, k, w, pkt) ==
  /\ Len(pieces) >= k
  /\ \A j \in 1..k : pieces[Len(pieces) - k + j] = Whole(w, j, pkt)
  /\ \A j \in 1..(Len(pieces) - k) : pieces[j].w # w

\* While the port has been open, with room in its buffer, no piece is missing.
Complete ==
  Steady /\ calls # <<>> /\ calls[Len(calls)].op = "loop" =>
    Continued(out, phase - 1, writes, packets[m_packet])

Histories == frames \in Seq(Frame) /\ due \in Seq(PacketValue)

Promise == Contents /\ InTurn /\ Complete /\ Histories

\* The lowest of some numbers is one of them.
LEMMA Least ==
  ASSUME NEW S, S \subseteq Nat, S # {}
  PROVE  Min(S) \in S /\ \A y \in S : Min(S) <= y
<1>1. PICK x \in S : \A y \in S : ~(<<y, x>> \in OpToRel(<, Nat))
  BY NatLessThanWellFounded, WFMin
<1>2. ASSUME NEW y \in S PROVE x <= y
  <2>1. <<y, x>> \in Nat \X Nat /\ <<y, x>>[1] = y /\ <<y, x>>[2] = x
    OBVIOUS
  <2>2. ~(y < x)
    BY <1>1, <2>1 DEF OpToRel
  <2>3. QED
    BY <2>2
<1>3. QED
  BY <1>2 DEF Min

\* Whatever pieces of a packet's frame were written, the host sees nothing, a cut frame, or
\* what the packet says; and the last if none is missing.
LEMMA FrameFacts ==
  ASSUME NEW pieces \in Seq(PieceValue), NEW w \in Nat, NEW pkt,
         \A j \in 1..Len(pieces) : pieces[j].w = w => pieces[j].pkt = pkt
  PROVE  /\ FrameOf(w, pieces) \in {<<>>, <<Cut>>, <<Says(pkt)>>}
         /\ Continued(pieces, 3, w, pkt) => FrameOf(w, pieces) = <<Says(pkt)>>
<1> DEFINE mine  == {j \in DOMAIN pieces : pieces[j].w = w}
           i     == Min(mine)
           whole == i + 2 <= Len(pieces) /\ \A j \in 0..2 : /\ pieces[i + j].w = w
                                                            /\ pieces[i + j].piece = j + 1
                                                            /\ pieces[i + j].pkt = pieces[i].pkt
                                                            /\ pieces[i + j].extent = "whole"
<1>1. FrameOf(w, pieces) =
        IF mine = {} THEN <<>>
        ELSE IF ~whole THEN <<Cut>>
        ELSE IF pieces[i].pkt.command \in {"LOG", "EVENT"} THEN <<Message(pieces[i].pkt.command)>>
        ELSE IF pieces[i].pkt \in ToSet(due) THEN <<Response(pieces[i].pkt.n)>>
        ELSE <<Cut>>
  BY DEF FrameOf
<1>2. /\ DOMAIN pieces = 1..Len(pieces) /\ Len(pieces) \in Nat
      /\ mine \subseteq Nat
  BY LenProperties
<1>3. mine # {} => i \in mine /\ \A y \in mine : i <= y
  BY <1>2, Least
<1>4. mine # {} => pieces[i].pkt = pkt
  BY <1>2, <1>3
<1> HIDE DEF i
<1>5. FrameOf(w, pieces) = IF mine = {} THEN <<>> ELSE IF ~whole THEN <<Cut>> ELSE <<Says(pkt)>>
  <2>1. CASE mine = {} \/ ~whole
    BY <1>1, <2>1
  <2>2. CASE mine # {} /\ whole
    <3> HIDE DEF mine, whole
    <3>1. QED
      BY <1>1, <1>4, <2>2 DEF Says
  <2>3. QED
    BY <2>1, <2>2
<1>6. ASSUME Continued(pieces, 3, w, pkt)
      PROVE  mine # {} /\ whole
  <2>0. Len(pieces) >= 3
    BY <1>6 DEF Continued
  <2>1. PICK l \in Nat : l = Len(pieces) - 3
    <3>1. Len(pieces) \in Nat
      BY <1>2
    <3>2. QED
      BY <2>0, <3>1
  <2>2. /\ Len(pieces) = l + 3
        /\ \A j \in 1..3 : pieces[l + j] = Whole(w, j, pkt)
        /\ \A j \in 1..l : pieces[j].w # w
    BY <1>2, <1>6, <2>1 DEF Continued
  <2>3. pieces[l + 1].w = w /\ l + 1 \in 1..Len(pieces)
    BY <2>2 DEF Whole
  <2>4. l + 1 \in mine
    BY <1>2, <2>3
  <2>5. i \in mine /\ i <= l + 1
    BY <1>3, <2>4
  <2>6. i = l + 1
    BY <1>2, <2>2, <2>5
  <2>7. ASSUME NEW j \in 0..2
        PROVE  pieces[i + j] = Whole(w, j + 1, pkt)
    <3>1. j + 1 \in 1..3 /\ i + j = l + (j + 1)
      BY <2>6
    <3>2. QED
      BY <2>2, <3>1
  <2>8. i + 2 <= Len(pieces) /\ pieces[i].pkt = pkt
    BY <1>4, <2>2, <2>4, <2>6
  <2>9. QED
    BY <2>4, <2>7, <2>8 DEF Whole
<1>7. QED
  BY <1>5, <1>6

\* A handler answers with what the command calls for, or not at all.
LEMMA HandleAnswers ==
  ASSUME NEW cmd \in PacketValue, cmd.command \in Core \cup {"OTHER"},
         NEW rsp \in PacketValue, rsp.len = 0, rsp.str = 0, rsp.command = "NONE", rsp.n = cmd.n,
         NEW r \in Handle(cmd, rsp)
  PROVE  /\ r.rsp.n = cmd.n /\ r.rsp.str = 0
         /\ \/ r.answers = TRUE /\ r.rsp = AnswerTo(cmd)
               /\ r.rsp.command \in Core \cup {"OTHER"}
            \/ r.answers = FALSE /\ r.rsp.command = "NONE"
<1>1. PICK w \in Nat, w3 \in Nat, w5 \in Nat :
        w = WordLen /\ w3 = 3 * WordLen /\ w5 = 5 * WordLen
  BY Bounds
<1>2. ASSUME NEW command \in Core \cup {"OTHER"}, NEW len \in Nat
      PROVE  /\ append(setCommand(rsp, command), len) = Packet(command, len, cmd.n, 0)
             /\ setData(setCommand(rsp, command), len) = Packet(command, len, cmd.n, 0)
  <2>1. rsp = [command |-> "NONE", len |-> 0, n |-> cmd.n, str |-> 0]
    BY DEF PacketValue
  <2>2. setCommand(rsp, command) = [command |-> command, len |-> 0, n |-> cmd.n, str |-> 0]
    BY <2>1 DEF setCommand
  <2>3. setData(setCommand(rsp, command), len) = Packet(command, len, cmd.n, 0)
    BY <2>2 DEF setData, Packet
  <2>4. append(setCommand(rsp, command), len) = Packet(command, 0 + len, cmd.n, 0)
    BY <2>2 DEF append, Packet
  <2>5. QED
    BY <2>3, <2>4
<1>3. AnswerTo(cmd) = Packet(cmd.command,
        IF cmd.command = "PING" THEN cmd.len
        ELSE IF cmd.command = "STACK_INFO" THEN w3
        ELSE IF cmd.command = "HEAP_INFO" THEN w5 ELSE w, cmd.n, 0)
  BY <1>1 DEF AnswerTo
<1>4. ASSUME NEW pkt, NEW command \in Core \cup {"OTHER"}, NEW len,
             pkt = Packet(command, len, cmd.n, 0)
      PROVE  pkt.command = command /\ pkt.n = cmd.n /\ pkt.str = 0
  BY <1>4 DEF Packet
<1>5. CASE cmd.command = "PING"
  <2>1. r = Answer(setData(setCommand(rsp, "PING"), cmd.len))
    BY <1>5 DEF Handle, handlePing
  <2>2. r.rsp = setData(setCommand(rsp, "PING"), cmd.len) /\ r.answers = TRUE
    BY <2>1 DEF Answer
  <2>3. "PING" \in Core /\ cmd.len \in Nat
    BY DEF Core, PacketValue
  <2>4. r.rsp = Packet("PING", cmd.len, cmd.n, 0)
    BY <1>2, <2>2, <2>3
  <2>5. QED
    BY <1>3, <1>4, <1>5, <2>2, <2>3, <2>4
<1>6. CASE cmd.command = "DEBUG"
  <2>1. PICK flag \in BOOLEAN : r = setDebug(Answer(append(setCommand(rsp, "DEBUG"), w)), flag)
    BY <1>1, <1>6 DEF Handle, handleDebug
  <2>2. r.rsp = append(setCommand(rsp, "DEBUG"), w) /\ r.answers = TRUE
    BY <2>1 DEF Answer, setDebug
  <2>3. "DEBUG" \in Core
    BY DEF Core
  <2>4. r.rsp = Packet("DEBUG", w, cmd.n, 0)
    BY <1>2, <2>2, <2>3
  <2>5. QED
    BY <1>3, <1>4, <1>6, <2>2, <2>3, <2>4
<1>7. CASE cmd.command = "STACK_INFO"
  <2>1. r = Answer(append(setCommand(rsp, "STACK_INFO"), w3))
    BY <1>1, <1>7 DEF Handle, handleStackInfo
  <2>2. r.rsp = append(setCommand(rsp, "STACK_INFO"), w3) /\ r.answers = TRUE
    BY <2>1 DEF Answer
  <2>3. "STACK_INFO" \in Core
    BY DEF Core
  <2>4. r.rsp = Packet("STACK_INFO", w3, cmd.n, 0)
    BY <1>2, <2>2, <2>3
  <2>5. QED
    BY <1>3, <1>4, <1>7, <2>2, <2>3, <2>4
<1>8. CASE cmd.command = "HEAP_INFO"
  <2>1. r = Answer(append(setCommand(rsp, "HEAP_INFO"), w5))
    BY <1>1, <1>8 DEF Handle, handleHeapInfo
  <2>2. r.rsp = append(setCommand(rsp, "HEAP_INFO"), w5) /\ r.answers = TRUE
    BY <2>1 DEF Answer
  <2>3. "HEAP_INFO" \in Core
    BY DEF Core
  <2>4. r.rsp = Packet("HEAP_INFO", w5, cmd.n, 0)
    BY <1>2, <2>2, <2>3
  <2>5. QED
    BY <1>3, <1>4, <1>8, <2>2, <2>3, <2>4
<1>9. CASE cmd.command = "OTHER"
  <2>1. r \in handleOther(cmd, rsp)
    BY <1>9 DEF Handle
  <2>2. CASE r = Answer(append(setCommand(rsp, "OTHER"), w))
    <3>1. r.rsp = append(setCommand(rsp, "OTHER"), w) /\ r.answers = TRUE
      BY <2>2 DEF Answer
    <3>2. r.rsp = Packet("OTHER", w, cmd.n, 0)
      BY <1>2, <3>1
    <3>3. AnswerTo(cmd) = Packet("OTHER", w, cmd.n, 0)
      BY <1>3, <1>9
    <3>4. r.rsp.command = "OTHER" /\ r.rsp.n = cmd.n /\ r.rsp.str = 0
      BY <3>2 DEF Packet
    <3>5. QED
      BY <3>1, <3>2, <3>3, <3>4
  <2>3. CASE r = [Answer(rsp) EXCEPT !.answers = FALSE]
    <3>1. r.rsp = rsp /\ r.answers = FALSE
      BY <2>3 DEF Answer
    <3>2. QED
      BY <3>1
  <2>4. CASE r = [Answer(append(rsp, w)) EXCEPT !.answers = FALSE]
    <3>1. r.rsp = append(rsp, w) /\ r.answers = FALSE
      BY <2>4 DEF Answer
    <3>2. r.rsp.command = "NONE" /\ r.rsp.n = cmd.n /\ r.rsp.str = 0
      BY <3>1 DEF append, PacketValue
    <3>3. QED
      BY <3>1, <3>2
  <2>5. QED
    BY <1>1, <2>1, <2>2, <2>3, <2>4 DEF handleOther
<1>10. QED
  BY <1>5, <1>6, <1>7, <1>8, <1>9 DEF Core

\* Nothing is promised of what has not begun.
LEMMA PromiseInit == Init => Promise /\ D!Init
<1> SUFFICES ASSUME Init PROVE Promise /\ D!Init
  OBVIOUS
<1>1. /\ packets["rsp"] = Blank /\ Blank.n = 0 /\ Blank.str = 0
      /\ count["command"] = 0 /\ calls = <<>> /\ Len(calls) = 0 /\ main = "starting"
      /\ due = <<>> /\ Len(due) = 0 /\ frames = <<>>
  BY EmptySeq DEF Init, Blank, Packet
<1>2. Handled = 0
  BY <1>1 DEF Handled
<1>3. Contents /\ Complete /\ Histories
  BY <1>1, EmptySeq DEF Contents, Filled, Encoded, Complete, Histories
<1>4. InTurn
  BY <1>1, <1>2 DEF InTurn
<1>5. ~Owed
  BY <1>1, <1>2 DEF Owed
<1>6. Pending = <<>> /\ Ignored = 0
  <2>1. Pending = <<>>
    BY Zenon, <1>5 DEF Pending
  <2>2. Ignored = 0 - 0
    BY Zenon, <1>1, <1>2 DEF Ignored
  <2>3. QED
    BY <2>1, <2>2
<1>7. Steady \in BOOLEAN
  BY DEF Steady, Init
<1>8. D!Init
  BY <1>1, <1>6, <1>7 DEF D!Init
<1>9. QED
  BY <1>3, <1>4, <1>8 DEF Promise

\* What the host does not see.
LEMMA Unseen ==
  ASSUME count'["command"] = count["command"], Handled' = Handled, due' = due,
         frames' = frames, Owed' <=> Owed, Steady' <=> Steady
  PROVE  UNCHANGED D!vars
<1>1. Pending' = Pending
  BY DEF Pending
<1>2. Ignored' = Ignored
  BY DEF Ignored
<1>3. Steady' = Steady
  BY Zenon DEF Steady
<1>4. QED
  BY <1>1, <1>2, <1>3 DEF D!vars

\* Nothing but messages to log.
Plain(s) == \A i \in 1..Len(s) : s[i].op = "log" /\ s[i].arg \in {"error", "info"}

\* It is so of no calls, of one message, and of the two after a damaged frame.
LEMMA PlainFacts ==
  /\ Plain(<<>>)
  /\ \A level \in {"error", "info"} : Plain(<<LogCall(level)>>)
  /\ Plain(<<LogCall("info"), LogCall("error")>>)
<1>1. \A level \in {"error", "info"} : LogCall(level).op = "log" /\ LogCall(level).arg = level
  BY DEF LogCall
<1>2. ASSUME NEW level \in {"error", "info"} PROVE Plain(<<LogCall(level)>>)
  <2>1. Len(<<LogCall(level)>>) = 1 /\ <<LogCall(level)>>[1] = LogCall(level)
    OBVIOUS
  <2>2. QED
    BY <1>1, <2>1 DEF Plain
<1>3. Plain(<<LogCall("info"), LogCall("error")>>)
  <2> DEFINE s == <<LogCall("info"), LogCall("error")>>
  <2>1. Len(s) = 2 /\ s[1] = LogCall("info") /\ s[2] = LogCall("error")
    OBVIOUS
  <2>2. QED
    BY <1>1, <2>1 DEF Plain
<1>4. QED
  BY <1>2, <1>3, EmptySeq DEF Plain

\* The main loop begins no loop of writePacket, and with a message to log no answer.
LEMMA PromiseFresh ==
  ASSUME TypeInv', Fresh(calls')
  PROVE  /\ Complete'
         /\ Plain(calls') => Contents' /\ ~(\E k \in DOMAIN calls' : calls'[k].arg = "rsp")
<1>1. calls' \in Seq(Call) /\ DOMAIN calls' = 1..Len(calls')
  BY LenProperties DEF Fresh
<1>2. calls' # <<>> => calls'[Len(calls')].op # "loop"
  <2>1. calls' # <<>> => Len(calls') \in 1..Len(calls')
    BY <1>1, EmptySeq
  <2>2. QED
    BY <2>1 DEF Fresh
<1>3. Complete'
  BY <1>2 DEF Complete
<1>4. Plain(calls') => Contents' /\ ~(\E k \in DOMAIN calls' : calls'[k].arg = "rsp")
  <2>1. SUFFICES ASSUME Plain(calls')
                 PROVE  Contents' /\ ~(\E k \in DOMAIN calls' : calls'[k].arg = "rsp")
    OBVIOUS
  <2>2. \A i \in 1..Len(calls') :
          /\ calls'[i].arg # "rsp" /\ calls'[i].arg # "log" /\ calls'[i].arg # "evt"
          /\ calls'[i].op # "loop" /\ calls'[i].op # "dumped"
    BY <2>1 DEF Plain
  <2>3. Contents'
    BY Zenon, <2>2 DEF Contents, Filled, Encoded
  <2>4. QED
    BY <1>1, <2>2, <2>3
<1>5. QED
  BY <1>3, <1>4

\* With nothing on the stack.
LEMMA Unoccupied ==
  ASSUME calls = <<>>, Promise, TypeInv
  PROVE  /\ Owed <=> Handled < count["command"]
         /\ Handled \in Nat /\ count["command"] \in Nat /\ count["toggle"] \in Nat
         /\ main \in {"starting", "idle"} => Handled = count["command"] /\ ~Owed /\ Pending = <<>>
<1>1. ~(\E k \in DOMAIN calls : calls[k].arg = "rsp")
  OBVIOUS
<1>2. Owed <=> Handled < count["command"]
  BY <1>1 DEF Owed
<1>3. Handled \in Nat /\ count["command"] \in Nat /\ count["toggle"] \in Nat
  BY DEF TypeInv, Types, PacketValue, Handled
<1>4. main \in {"starting", "idle"} => Handled = count["command"]
  BY DEF Promise, InTurn
<1>5. QED
  BY <1>2, <1>3, <1>4 DEF Pending

\* A command comes.
LEMMA PromiseReceive ==
  ASSUME TypeInv, TypeInv', Promise, ReceiveCommand
  PROVE  Promise' /\ D!Receive
<1>1. /\ calls = <<>> /\ main = "idle" /\ Fresh(calls')
      /\ UNCHANGED <<frames, due, connected, room>>
  <2>1. Fresh(calls') /\ calls = <<>> /\ UNCHANGED frames
    BY MainFacts
  <2>2. UNCHANGED due /\ main = "idle"
    BY DEF ReceiveCommand, Quiet
  <2>3. UNCHANGED connected /\ UNCHANGED room
    BY Zenon DEF ReceiveCommand
  <2>4. QED
    BY Zenon, <2>1, <2>2, <2>3
<1>2. Handled = count["command"] /\ ~Owed /\ Pending = <<>> /\ Handled \in Nat
  BY <1>1, Unoccupied
<1>3. /\ count'["command"] = count["command"] + 1
      /\ count'["toggle"] = count["toggle"]
  BY DEF ReceiveCommand, Count, TypeInv, Types
<1>4. /\ packets'["rsp"] = packets["rsp"]
      /\ packets'["cmd"].n = count'["command"]
      /\ packets'["cmd"].command \in Core \cup {"OTHER"}
  <2>0. PICK command \in Core \cup {"OTHER"} :
          \E len \in DataLengths(command) :
            packets' = [packets EXCEPT !["cmd"] = Packet(command, len, count'["command"], 0)]
    BY DEF ReceiveCommand
  <2>1. PICK len \in DataLengths(command) :
          packets' = [packets EXCEPT !["cmd"] = Packet(command, len, count'["command"], 0)]
    BY <2>0
  <2>2. packets \in [{"cmd", "rsp", "log", "evt"} -> PacketValue]
    BY DEF TypeInv, Types
  <2>3. packets'["cmd"] = Packet(command, len, count'["command"], 0)
    BY <2>1, <2>2
  <2>4. QED
    BY <2>1, <2>2, <2>3 DEF Packet
<1>5. Handled' = Handled
  BY <1>4 DEF Handled
<1>6. Plain(calls')
  <2>1. calls' = <<LogCall("info")>> \/ calls' = <<>>
    BY DEF ReceiveCommand
  <2>2. QED
    BY <2>1, PlainFacts
<1>7. Contents' /\ Complete'
  BY <1>1, <1>6, PromiseFresh
<1>8. InTurn'
  <2>1. main' = "received"
    BY DEF ReceiveCommand
  <2>2. QED
    BY <1>2, <1>3, <1>4, <1>5, <2>1 DEF InTurn, Promise
<1>9. Histories'
  BY <1>1 DEF Promise, Histories
<1>10. Pending' = <<count'["command"]>>
  <2>1. Owed'
    BY <1>2, <1>3, <1>5 DEF Owed
  <2>2. QED
    BY <2>1 DEF Pending
<1>11. Pending' = Append(Pending, count'["command"])
  BY <1>2, <1>10
<1>12. Ignored' = Ignored
  BY <1>1, <1>5 DEF Ignored
<1>13. Steady' = Steady
  BY Zenon, <1>1, <1>3 DEF Steady
<1>14. D!Receive
  BY <1>1, <1>3, <1>11, <1>12, <1>13 DEF D!Receive
<1>15. QED
  BY <1>7, <1>8, <1>9, <1>14 DEF Promise

\* A damaged frame, a message of the application, or an event.
LEMMA PromiseNotice ==
  ASSUME TypeInv, TypeInv', Promise, ReceiveDamaged \/ Notice
  PROVE  Promise' /\ UNCHANGED D!vars
<1>1. /\ calls = <<>> /\ main = "idle" /\ main' = main /\ Fresh(calls')
      /\ UNCHANGED <<frames, due, connected, room>>
  <2>1. Fresh(calls') /\ calls = <<>> /\ UNCHANGED frames
    BY MainFacts
  <2>2. UNCHANGED due /\ main = "idle" /\ main' = main
    BY DEF ReceiveDamaged, Notice, Quiet
  <2>3. UNCHANGED connected /\ UNCHANGED room
    BY Zenon DEF ReceiveDamaged, Notice
  <2>4. QED
    BY Zenon, <2>1, <2>2, <2>3
<1>2. Handled = count["command"] /\ ~Owed /\ Handled \in Nat
  BY <1>1, Unoccupied
<1>3. count'["command"] = count["command"] /\ count'["toggle"] = count["toggle"]
  BY DEF ReceiveDamaged, Notice, Count, TypeInv, Types
<1>4. packets'["rsp"] = packets["rsp"]
  BY DEF ReceiveDamaged, Notice, TypeInv, Types
<1>5. Handled' = Handled
  BY <1>4 DEF Handled
<1>6. \/ Plain(calls')
      \/ calls' = <<WriteCall("evt")>> /\ packets'["evt"].command = "EVENT"
  <2>1. CASE ReceiveDamaged
    <3>1. calls' = <<LogCall("info"), LogCall("error")>> \/ calls' = <<LogCall("error")>>
      BY <2>1 DEF ReceiveDamaged
    <3>2. QED
      BY <3>1, PlainFacts
  <2>2. CASE Notice
    <3>1. CASE \E level \in {"error", "info"} : calls' = <<LogCall(level)>>
      BY <3>1, PlainFacts
    <3>2. CASE /\ calls' = <<WriteCall("evt")>>
               /\ packets' = [packets EXCEPT !["evt"] = Packet("EVENT", 0, 0, 0)]
      <4>1. packets'["evt"] = Packet("EVENT", 0, 0, 0)
        BY <3>2 DEF TypeInv, Types
      <4>2. QED
        BY <3>2, <4>1 DEF Packet
    <3>3. QED
      BY <2>2, <3>1, <3>2 DEF Notice
  <2>3. QED
    BY <2>1, <2>2
<1>7. Complete'
  BY <1>1, PromiseFresh
<1>8. Contents' /\ ~(\E k \in DOMAIN calls' : calls'[k].arg = "rsp")
  <2>1. CASE Plain(calls')
    BY <1>1, <2>1, PromiseFresh
  <2>2. CASE calls' = <<WriteCall("evt")>> /\ packets'["evt"].command = "EVENT"
    <3>1. /\ Len(calls') = 1 /\ DOMAIN calls' = {1} /\ calls'[1] = WriteCall("evt")
          /\ calls'[1].arg = "evt" /\ calls'[1].op = "start"
      BY <2>2 DEF WriteCall
    <3>2. \A i \in 1..Len(calls') : i = 1
      BY <3>1
    <3>3. Contents'
      BY <2>2, <3>1, <3>2 DEF Contents, Filled, Encoded
    <3>4. QED
      BY <3>1, <3>3
  <2>3. QED
    BY <1>6, <2>1, <2>2
<1>9. InTurn'
  BY <1>1, <1>2, <1>3, <1>4, <1>5 DEF InTurn, Promise
<1>10. Histories'
  BY <1>1 DEF Promise, Histories
<1>11. ~Owed'
  BY <1>2, <1>3, <1>5, <1>8 DEF Owed
<1>12. Steady' <=> Steady
  BY Zenon, <1>1, <1>3 DEF Steady
<1>13. UNCHANGED D!vars
  BY <1>1, <1>2, <1>3, <1>5, <1>11, <1>12, Unseen
<1>14. QED
  BY <1>7, <1>8, <1>9, <1>10, <1>13 DEF Promise

\* The setup and the USB callback.
LEMMA PromiseSetup ==
  ASSUME TypeInv, Promise, Setup \/ LineState \/ Backlog \/ UNCHANGED vars
  PROVE  Promise' /\ (D!Unplug \/ UNCHANGED D!vars)
<1>1. /\ UNCHANGED <<debug, logging, calls, packets, m_packet, phase, out, frames, writes>>
      /\ UNCHANGED due /\ count'["command"] = count["command"]
      /\ main' = main \/ (main' \in {"starting", "idle"} /\ main = "starting")
  <2>1. CASE UNCHANGED vars
    BY <2>1 DEF vars
  <2>2. CASE Setup \/ LineState \/ Backlog
    <3>1. UNCHANGED <<debug, logging, calls, packets, m_packet, phase, out, frames, writes>>
      BY <2>2, SetupFacts
    <3>2. /\ UNCHANGED due /\ count'["command"] = count["command"]
          /\ main' = main \/ (main' \in {"starting", "idle"} /\ main = "starting")
      BY <2>2 DEF Setup, Start, add, LineState, Backlog, Count, TypeInv, Types
    <3>3. QED
      BY <3>1, <3>2
  <2>3. QED
    BY <2>1, <2>2
<1>2. debug' = debug
  BY Zenon, <1>1
<1>3. Endless' <=> Endless
  <2>1. logging' = logging
    BY <1>1
  <2>2. QED
    BY Zenon, <1>2, <2>1 DEF Endless
<1>4. Handled' = Handled /\ (Owed' <=> Owed)
  BY <1>1 DEF Handled, Owed
<1>5. Contents'
  <2>1. /\ calls' = calls /\ packets' = packets /\ due' = due /\ m_packet' = m_packet
        /\ count'["command"] = count["command"]
    BY <1>1
  <2>2. QED
    BY Zenon, <1>3, <1>4, <2>1 DEF Promise, Contents, Filled, Encoded
<1>6. InTurn'
  BY <1>1, <1>4 DEF InTurn, Promise
<1>7. Histories'
  BY <1>1 DEF Promise, Histories
<1>8. (Steady' <=> Steady) \/ ((LineState \/ Backlog) /\ ~Steady')
  <2>1. CASE LineState \/ Backlog
    <3>1. count'["toggle"] = count["toggle"] + 1 /\ count["toggle"] \in Nat
      BY <2>1 DEF LineState, Backlog, Count, TypeInv, Types
    <3>2. count'["toggle"] # 0
      BY <3>1
    <3>3. QED
      BY Zenon, <2>1, <3>2 DEF Steady
  <2>2. CASE Setup \/ UNCHANGED vars
    <3>1. connected' = connected /\ room' = room
      BY Zenon, <2>2 DEF Setup, Start, add, vars
    <3>2. count' = count
      BY <2>2 DEF Setup, Start, add, vars
    <3>3. QED
      BY Zenon, <3>1, <3>2 DEF Steady
  <2>3. QED
    BY <2>1, <2>2
<1>9. Complete'
  <2>1. Steady' => Steady
    BY Zenon, <1>8
  <2>2. QED
    BY <1>1, <2>1 DEF Promise, Complete
<1>10. CASE Steady' <=> Steady
  BY <1>1, <1>4, <1>5, <1>6, <1>7, <1>9, <1>10, Unseen DEF Promise
<1>11. CASE ~Steady'
  <2>1. Steady' = FALSE
    <3>1. Steady' \in BOOLEAN
      BY Zenon DEF Steady
    <3>2. QED
      BY Zenon, <1>11, <3>1
  <2>2. Pending' = Pending /\ Ignored' = Ignored
    BY <1>1, <1>4 DEF Pending, Ignored
  <2>3. D!Unplug
    BY <1>1, <2>1, <2>2 DEF D!Unplug
  <2>4. QED
    BY <1>5, <1>6, <1>7, <1>9, <2>3 DEF Promise
<1>12. QED
  BY Zenon, <1>8, <1>10, <1>11

\* The command that came last is dealt with: a response to write, or nothing to answer.
LEMMA Handles ==
  ASSUME TypeInv, Promise, Handling
  PROVE  /\ packets'["rsp"].n = packets["cmd"].n /\ packets'["rsp"].str = 0
         /\ \/ /\ packets'["rsp"] = AnswerTo(packets["cmd"])
               /\ packets'["rsp"].command \in Core \cup {"OTHER"}
               /\ calls' = <<WriteCall("rsp")>>
               /\ due' = Append(due, AnswerTo(packets["cmd"]))
            \/ Plain(calls') /\ due' = due
<1> DEFINE cmd == packets["cmd"]
           rsp == [clear(packets["rsp"]) EXCEPT !.n = cmd.n]
<1>1. packets \in [{"cmd", "rsp", "log", "evt"} -> PacketValue]
  BY DEF TypeInv, Types
<1>2. /\ cmd \in PacketValue /\ cmd.command \in Core \cup {"OTHER"}
      /\ packets["rsp"] \in PacketValue /\ packets["rsp"].str = 0
  BY <1>1 DEF Promise, InTurn, Handling, HandlePacket, HandleNothing
<1>3. /\ rsp \in PacketValue
      /\ rsp.len = 0 /\ rsp.str = 0 /\ rsp.command = "NONE" /\ rsp.n = cmd.n
  BY <1>2 DEF clear, setData, setCommand, PacketValue, Command
<1>4. CASE HandlePacket
  <2>1. PICK r \in Handle(cmd, rsp) :
          /\ packets' = [packets EXCEPT !["rsp"] = r.rsp]
          /\ calls' = IF r.rsp.command # "NONE" THEN <<WriteCall("rsp")>>
                      ELSE IF r.rsp.len > 0 THEN <<LogCall("error")>>
                      ELSE <<>>
          /\ due' = IF r.answers THEN Append(due, AnswerTo(cmd)) ELSE due
    BY <1>4 DEF HandlePacket
  <2> HIDE DEF cmd, rsp
  <2>2. packets'["rsp"] = r.rsp
    BY <1>1, <2>1
  <2>3. /\ r.rsp.n = cmd.n /\ r.rsp.str = 0
        /\ \/ r.answers = TRUE /\ r.rsp = AnswerTo(cmd)
              /\ r.rsp.command \in Core \cup {"OTHER"}
           \/ r.answers = FALSE /\ r.rsp.command = "NONE"
    BY <1>2, <1>3, HandleAnswers
  <2>4. CASE /\ r.answers = TRUE /\ r.rsp = AnswerTo(cmd)
             /\ r.rsp.command \in Core \cup {"OTHER"}
    <3>1. r.rsp.command # "NONE"
      BY <2>4 DEF Core
    <3>2. calls' = <<WriteCall("rsp")>> /\ due' = Append(due, AnswerTo(cmd))
      BY <2>1, <2>4, <3>1
    <3>3. QED
      BY <2>2, <2>3, <2>4, <3>2 DEF cmd
  <2>5. CASE r.answers = FALSE /\ r.rsp.command = "NONE"
    <3>1. calls' = <<LogCall("error")>> \/ calls' = <<>>
      BY <2>1, <2>5
    <3>2. due' = due
      BY <2>1, <2>5
    <3>3. QED
      BY <2>2, <2>3, <3>1, <3>2, PlainFacts DEF cmd
  <2>6. QED
    BY <2>3, <2>4, <2>5
<1>5. CASE HandleNothing
  <2>1. packets' = [packets EXCEPT !["rsp"] = [clear(@) EXCEPT !.n = packets["cmd"].n]]
    BY <1>5 DEF HandleNothing
  <2>2. packets'["rsp"] = rsp
    BY <1>1, <2>1
  <2>3. Plain(calls') /\ due' = due
    BY <1>5, PlainFacts DEF HandleNothing
  <2>4. QED
    BY <1>3, <2>2, <2>3
<1>6. QED
  BY <1>4, <1>5 DEF Handling

\* An answer is written before the next command is looked at, and one that calls for none is
\* done with.
LEMMA PromiseHandle ==
  ASSUME TypeInv, TypeInv', Promise, Handling
  PROVE  Promise' /\ (D!Ignore \/ UNCHANGED D!vars)
<1>1. /\ calls = <<>> /\ main = "received" /\ main' = "idle" /\ Fresh(calls')
      /\ UNCHANGED <<frames, count>>
  <2>1. Fresh(calls') /\ calls = <<>> /\ UNCHANGED frames
    BY MainFacts
  <2>2. main = "received" /\ main' = "idle" /\ UNCHANGED count
    BY DEF Handling, HandlePacket, HandleNothing
  <2>3. QED
    BY <2>1, <2>2
<1>2. Steady' <=> Steady
  <2>1. connected' = connected /\ room' = room
    BY Zenon DEF Handling, HandlePacket, HandleNothing
  <2>2. QED
    BY Zenon, <1>1, <2>1 DEF Steady
<1>3. /\ packets["cmd"].n = count["command"] /\ Handled + 1 = count["command"]
      /\ Handled \in Nat /\ count["command"] \in Nat
  <2>1. Handled \in Nat /\ count["command"] \in Nat
    BY <1>1, Unoccupied
  <2>2. QED
    BY <1>1, <2>1 DEF Promise, InTurn
<1>4. Handled' = count["command"] /\ packets'["rsp"].str = 0
  BY <1>3, Handles DEF Handled
<1>5. InTurn'
  BY <1>1, <1>4 DEF InTurn
<1>6. Complete'
  BY <1>1, PromiseFresh
<1>7. Owed /\ Pending = <<count["command"]>>
  <2>1. Owed
    BY <1>1, <1>3, Unoccupied
  <2>2. QED
    BY <2>1 DEF Pending
<1>8. due \in Seq(PacketValue) /\ Len(due) \in Nat /\ frames \in Seq(Frame)
  BY LenProperties DEF Promise, Histories
<1>9. CASE /\ packets'["rsp"] = AnswerTo(packets["cmd"])
           /\ packets'["rsp"].command \in Core \cup {"OTHER"}
           /\ calls' = <<WriteCall("rsp")>>
           /\ due' = Append(due, AnswerTo(packets["cmd"]))
  <2>1. AnswerTo(packets["cmd"]) \in PacketValue
    BY <1>9 DEF TypeInv, Types
  <2>2. /\ due' \in Seq(PacketValue) /\ Len(due') = Len(due) + 1
        /\ due'[Len(due) + 1] = AnswerTo(packets["cmd"])
    BY <1>8, <1>9, <2>1, AppendProperties
  <2>3. packets'["rsp"] \in ToSet(due')
    <3>1. DOMAIN due' = 1..Len(due') /\ Len(due) + 1 \in 1..Len(due')
      BY <1>8, <2>2, LenProperties
    <3>2. QED
      BY <1>9, <2>2, <3>1 DEF ToSet
  <2>4. /\ Len(calls') = 1 /\ DOMAIN calls' = {1}
        /\ calls'[1].arg = "rsp" /\ calls'[1].op = "start"
    BY <1>9 DEF WriteCall
  <2>5. Contents'
    <3>1. \A i \in 1..Len(calls') : i = 1
      BY <2>4
    <3>2. packets'["rsp"].command \notin {"LOG", "EVENT"}
      BY <1>9 DEF Core
    <3>3. count'["command"] = count["command"]
      BY <1>1
    <3>4. QED
      BY <1>4, <2>3, <2>4, <3>1, <3>2, <3>3 DEF Contents, Filled, Encoded
  <2>6. Owed'
    BY <2>4 DEF Owed
  <2>7. Pending' = Pending
    BY <1>1, <1>7, <2>6 DEF Pending
  <2>8. Ignored' = Ignored
    <3>1. Ignored' = Handled' - Len(due') /\ Ignored = Handled - Len(due)
      BY DEF Ignored
    <3>2. QED
      BY <1>3, <1>4, <1>8, <2>2, <3>1
  <2>9. Steady' = Steady
    BY Zenon, <1>2 DEF Steady
  <2>10. UNCHANGED D!vars
    BY <1>1, <2>7, <2>8, <2>9 DEF D!vars
  <2>11. Histories'
    BY <1>1, <1>8, <2>2 DEF Histories
  <2>12. QED
    BY <1>5, <1>6, <2>5, <2>10, <2>11 DEF Promise
<1>10. CASE Plain(calls') /\ due' = due
  <2>1. Contents' /\ ~(\E k \in DOMAIN calls' : calls'[k].arg = "rsp")
    BY <1>1, <1>10, PromiseFresh
  <2>2. Pending' = <<>>
    <3>1. ~(Handled' < count'["command"])
      BY <1>1, <1>3, <1>4
    <3>2. ~Owed'
      BY Zenon, <2>1, <3>1 DEF Owed
    <3>3. QED
      BY Zenon, <3>2 DEF Pending
  <2>3. Ignored' = Ignored + 1
    <3>1. Ignored' = Handled' - Len(due') /\ Ignored = Handled - Len(due)
      BY DEF Ignored
    <3>2. QED
      BY <1>3, <1>4, <1>8, <1>10, <3>1
  <2>4. Steady' = Steady
    BY Zenon, <1>2 DEF Steady
  <2>5. D!Ignore
    <3>1. Pending # <<>> /\ Pending' = Tail(Pending)
      BY <1>7, <2>2
    <3>2. QED
      BY <1>1, <2>3, <2>4, <3>1 DEF D!Ignore, D!Done
  <2>6. Histories'
    BY <1>1, <1>8, <1>10 DEF Histories
  <2>7. QED
    BY <1>5, <1>6, <2>1, <2>5, <2>6 DEF Promise
<1>11. QED
  BY <1>9, <1>10, Handles

\* What a step leaves alone while something is written or logged.
LEMMA Aside ==
  ASSUME TypeInv, Promise, UNCHANGED <<due, count>>, connected' <=> connected, room' <=> room,
         packets'["rsp"] = packets["rsp"], packets'["cmd"] = packets["cmd"],
         main' \in {main, "overflow"}
  PROVE  InTurn' /\ Handled' = Handled /\ (Steady' <=> Steady)
<1>1. Handled' = Handled /\ count' = count /\ due' = due
  BY DEF Handled
<1>2. InTurn'
  BY <1>1 DEF Promise, InTurn
<1>3. Steady' <=> Steady
  BY Zenon, <1>1 DEF Steady
<1>4. QED
  BY Zenon, <1>1, <1>2, <1>3

\* ... of which the host sees nothing, as long as the same answer is written.
LEMMA Stutters ==
  ASSUME TypeInv, Promise, UNCHANGED <<due, count, frames>>, connected' <=> connected,
         room' <=> room,
         packets'["rsp"] = packets["rsp"], packets'["cmd"] = packets["cmd"],
         main' \in {main, "overflow"},
         (\E k \in DOMAIN calls' : calls'[k].arg = "rsp") <=> \E k \in DOMAIN calls : calls[k].arg = "rsp"
  PROVE  Histories' /\ UNCHANGED D!vars
<1>1. Handled' = Handled /\ (Steady' <=> Steady)
  BY Zenon, Aside
<1>2. count' = count /\ due' = due /\ frames' = frames
  OBVIOUS
<1>3. Owed' <=> Owed
  BY Zenon, <1>1, <1>2 DEF Owed
<1>4. Histories'
  BY <1>2 DEF Promise, Histories
<1>5. QED
  BY <1>1, <1>2, <1>3, <1>4, Unseen

\* What the calls in progress write stays what it is; do_log refills its own packet.
LEMMA StaysFilled ==
  ASSUME UNCHANGED <<due, count>>, packets'["rsp"] = packets["rsp"],
         packets'["evt"] = packets["evt"],
         packets'["log"] = packets["log"] \/ packets'["log"].command = "LOG",
         NEW i, NEW which, Filled(i, which)
  PROVE  Filled(i, which)'
<1>1. Handled' = Handled /\ count' = count /\ due' = due
  BY DEF Handled
<1>2. packets["log"].command = "LOG" => packets'["log"].command = "LOG"
  OBVIOUS
<1>3. QED
  BY <1>1, <1>2 DEF Filled

\* A step that changes the innermost call, the (n+1)-th, and may add one.
LEMMA Contained ==
  ASSUME UNCHANGED <<due, count>>, packets'["rsp"] = packets["rsp"],
         packets'["evt"] = packets["evt"],
         packets'["log"] = packets["log"] \/ packets'["log"].command = "LOG",
         Contents, Endless' <=> Endless,
         NEW n \in Nat, Len(calls) = n + 1, Len(calls') \in Nat,
         \A i \in 1..n : calls'[i] = calls[i],
         \A i \in 1..n : m_packet' = m_packet \/
                         ~(calls[i].op = "loop" \/ (calls[i].op = "dumped" /\ ~Endless)),
         \A i \in (n + 1)..Len(calls') : Filled(i, calls[i].arg)' /\ Encoded(i)'
  PROVE  Contents'
<1>1. ASSUME NEW i \in 1..n PROVE Filled(i, calls[i].arg)' /\ Encoded(i)'
  <2>1. PICK which : which = calls[i].arg
    OBVIOUS
  <2>2. i \in 1..Len(calls) /\ calls'[i] = calls[i] /\ calls'[i].arg = which
    BY <2>1
  <2>3. Filled(i, which) /\ Encoded(i)
    BY Zenon, <2>1, <2>2 DEF Contents
  <2>4. Filled(i, which)'
    BY <2>3, StaysFilled
  <2>5. Filled(i, calls[i].arg)'
    BY <2>2, <2>4 DEF Filled
  <2>6. Encoded(i)'
    BY Zenon, <2>2, <2>3 DEF Encoded
  <2>7. QED
    BY <2>5, <2>6
<1>2. ASSUME NEW i \in 1..Len(calls') PROVE Filled(i, calls[i].arg)' /\ Encoded(i)'
  <2>1. i \in 1..n \/ i \in (n + 1)..Len(calls')
    OBVIOUS
  <2>2. QED
    BY Zenon, <1>1, <2>1
<1>3. QED
  BY Zenon, <1>2 DEF Contents

\* ... and answers what was answered before.
LEMMA AnswersSame ==
  ASSUME calls \in Seq(Call), calls' \in Seq(Call),
         NEW n \in Nat, Len(calls) = n + 1, Len(calls') >= n,
         \A i \in 1..n : calls'[i] = calls[i],
         (\E i \in (n + 1)..Len(calls') : calls'[i].arg = "rsp") <=> calls[n + 1].arg = "rsp"
  PROVE  (\E k \in DOMAIN calls' : calls'[k].arg = "rsp") <=> \E k \in DOMAIN calls : calls[k].arg = "rsp"
<1>1. DOMAIN calls = 1..(n + 1) /\ DOMAIN calls' = 1..Len(calls') /\ Len(calls') \in Nat
  BY LenProperties
<1>2. ASSUME NEW k \in DOMAIN calls, calls[k].arg = "rsp"
      PROVE  \E i \in DOMAIN calls' : calls'[i].arg = "rsp"
  <2>1. CASE k \in 1..n
    BY <1>1, <1>2, <2>1
  <2>2. CASE k = n + 1
    <3>1. PICK i \in (n + 1)..Len(calls') : calls'[i].arg = "rsp"
      BY <1>2, <2>2
    <3>2. QED
      BY <1>1, <3>1
  <2>3. QED
    BY <1>1, <2>1, <2>2
<1>3. ASSUME NEW k \in DOMAIN calls', calls'[k].arg = "rsp"
      PROVE  \E i \in DOMAIN calls : calls[i].arg = "rsp"
  <2>1. CASE k \in 1..n
    BY <1>1, <1>3, <2>1
  <2>2. CASE k \in (n + 1)..Len(calls')
    <3>1. calls[n + 1].arg = "rsp"
      BY <1>3, <2>2
    <3>2. QED
      BY <1>1, <3>1
  <2>3. QED
    BY <1>1, <2>1, <2>2
<1>4. QED
  BY <1>2, <1>3

\* do_log fills the log packet, while no loop of writePacket is below it.
LEMMA PromiseDoLog ==
  ASSUME TypeInv, TypeInv', WireInv, Promise, DoLog
  PROVE  Promise' /\ UNCHANGED D!vars
<1>1. /\ calls \in Seq(Call) /\ calls # <<>> /\ Top.op = "log"
      /\ UNCHANGED <<frames, due, count, logging, m_packet>> /\ main' \in {main, "overflow"}
      /\ UNCHANGED <<due, count>> /\ UNCHANGED <<due, count, frames>>
  BY DEF TypeInv, Types, DoLog, Running, encoderVars, setup
<1>2. (connected' <=> connected) /\ (room' <=> room) /\ (debug' <=> debug)
  BY Zenon DEF DoLog
<1>3. Endless' <=> Endless
  <2>1. logging' = logging
    BY <1>1
  <2>2. QED
    BY Zenon, <1>2, <2>1 DEF Endless
<1>4. PICK n \in Nat : Len(calls) = n + 1
  <2>1. Len(calls) \in Nat \ {0}
    BY <1>1, StackFacts
  <2>2. Len(calls) - 1 \in Nat /\ Len(calls) = (Len(calls) - 1) + 1
    BY <2>1
  <2>3. QED
    BY <2>2
<1>5. Len(calls) - 1 = n
  BY <1>4
<1>6. /\ calls[n + 1] = Top /\ Top.arg # "rsp"
      /\ Len(Caller) = n /\ \A i \in 1..n : Caller[i] = calls[i]
  <2>1. /\ calls[n + 1] = Top /\ Top \in Call
        /\ Len(Caller) = n /\ \A i \in 1..n : Caller[i] = calls[i]
    BY <1>1, <1>4, <1>5, StackFacts
  <2>2. QED
    BY <1>1, <2>1 DEF Call
<1>7. \A i \in 1..n : calls[i].op # "loop"
  BY Zenon, <1>1, <1>5, Below DEF WireInv
<1>8. calls' \in Seq(Call)
  BY DEF TypeInv, Types
<1>9. packets \in [{"cmd", "rsp", "log", "evt"} -> PacketValue]
  BY DEF TypeInv, Types
<1>10. m_packet' = m_packet /\ Contents
  BY <1>1 DEF Promise
<1>11. CASE Passes(Top.arg)
  <2>1. calls' = Append(Caller, WriteCall("log")) /\ WriteCall("log") \in Call
    BY <1>11 DEF DoLog, WriteCall, Call
  <2>2. /\ Len(calls') = n + 1 /\ calls'[n + 1] = WriteCall("log")
        /\ \A i \in 1..n : calls'[i] = calls[i]
    BY <1>1, <1>4, <1>5, <2>1, Replaced
  <2>3. calls'[n + 1].op = "start" /\ calls'[n + 1].arg = "log"
    BY <2>2 DEF WriteCall
  <2>4. PICK k \in 0..MaxText : packets' = [packets EXCEPT !["log"] = Logged(k)]
    BY <1>11 DEF DoLog
  <2>5. /\ packets'["rsp"] = packets["rsp"] /\ packets'["cmd"] = packets["cmd"]
        /\ packets'["evt"] = packets["evt"] /\ packets'["log"] = Logged(k)
    BY <1>9, <2>4
  <2>6. packets'["log"].command = "LOG"
    BY <2>5 DEF Logged, Packet
  <2>7. Contents'
    <3>1. ASSUME NEW i \in (n + 1)..Len(calls')
          PROVE  Filled(i, calls[i].arg)' /\ Encoded(i)'
      <4>1. calls'[i].op = "start" /\ calls'[i].arg = "log"
        BY <2>2, <2>3
      <4>2. QED
        BY <2>6, <4>1 DEF Filled, Encoded
    <3>2. QED
      BY <1>1, <1>3, <1>4, <1>10, <2>2, <2>5, <2>6, <3>1, Contained
  <2>8. Complete'
    BY <2>2, <2>3 DEF Complete
  <2>9. ~\E i \in (n + 1)..Len(calls') : calls'[i].arg = "rsp"
    BY <2>2, <2>3
  <2>10. InTurn' /\ Histories' /\ UNCHANGED D!vars
    <3>1. (\E k1 \in DOMAIN calls' : calls'[k1].arg = "rsp") <=> \E k1 \in DOMAIN calls : calls[k1].arg = "rsp"
      BY <1>1, <1>4, <1>6, <1>8, <2>2, <2>9, AnswersSame
    <3>2. QED
      BY Zenon, <1>1, <1>2, <2>5, <3>1, Aside, Stutters
  <2>11. QED
    BY <2>7, <2>8, <2>10 DEF Promise
<1>12. CASE ~Passes(Top.arg)
  <2>1. calls' = Caller /\ packets' = packets
    BY <1>12 DEF DoLog
  <2>2. Len(calls') = n /\ \A i \in 1..n : calls'[i] = calls[i]
    BY <1>6, <2>1
  <2>3. (n + 1)..Len(calls') = {}
    BY <2>2
  <2>4. Contents'
    BY <1>1, <1>3, <1>4, <1>10, <2>1, <2>2, <2>3, Contained
  <2>5. Complete'
    <3>1. calls' # <<>> => n \in 1..n
      BY <1>8, <2>2, EmptySeq
    <3>2. QED
      BY <1>7, <2>2, <3>1 DEF Complete
  <2>6. InTurn' /\ Histories' /\ UNCHANGED D!vars
    <3>1. (\E k1 \in DOMAIN calls' : calls'[k1].arg = "rsp") <=> \E k1 \in DOMAIN calls : calls[k1].arg = "rsp"
      BY <1>1, <1>4, <1>6, <1>8, <2>2, <2>3, AnswersSame
    <3>2. packets'["rsp"] = packets["rsp"] /\ packets'["cmd"] = packets["cmd"]
      BY <2>1
    <3>3. QED
      BY Zenon, <1>1, <1>2, <3>1, <3>2, Aside, Stutters
  <2>7. QED
    BY <2>4, <2>5, <2>6 DEF Promise
<1>13. QED
  BY <1>11, <1>12

\* encodeStart takes the encoder for the call's packet, and nobody below needs it.
LEMMA PromiseEncodeStart ==
  ASSUME TypeInv, TypeInv', WireInv, Promise, EncodeStart
  PROVE  Promise' /\ UNCHANGED D!vars
<1>1. /\ calls \in Seq(Call) /\ calls # <<>> /\ Top.op = "start"
      /\ UNCHANGED <<logging, packets, out>>
      /\ m_packet' = Top.arg /\ writes' = writes + 1 /\ main' \in {main, "overflow"}
      /\ UNCHANGED <<due, count>> /\ UNCHANGED <<due, count, frames>>
  BY DEF TypeInv, Types, EncodeStart, Running, setup
<1>2. (connected' <=> connected) /\ (room' <=> room) /\ (debug' <=> debug)
  BY Zenon DEF EncodeStart
<1>3. Endless' <=> Endless
  <2>1. logging' = logging
    BY <1>1
  <2>2. QED
    BY Zenon, <1>2, <2>1 DEF Endless
<1>4. PICK n \in Nat : Len(calls) = n + 1
  <2>1. Len(calls) \in Nat \ {0}
    BY <1>1, StackFacts
  <2>2. Len(calls) - 1 \in Nat /\ Len(calls) = (Len(calls) - 1) + 1
    BY <2>1
  <2>3. QED
    BY <2>2
<1>5. Len(calls) - 1 = n
  BY <1>4
<1>6. calls[n + 1] = Top /\ Top \in Call
  BY <1>1, <1>4, StackFacts
<1>7. \A i \in 1..n : ~(calls[i].op = "loop" \/ (calls[i].op = "dumped" /\ ~Endless))
  <2>1. Top # LogCall("info")
    BY <1>1 DEF LogCall
  <2>2. QED
    BY Zenon, <1>1, <1>5, <2>1, Below DEF WireInv
<1>8. calls' \in Seq(Call) /\ Len(calls') \in Nat
  BY LenProperties DEF TypeInv, Types
<1>9. /\ packets'["rsp"] = packets["rsp"] /\ packets'["cmd"] = packets["cmd"]
      /\ packets'["evt"] = packets["evt"] /\ packets'["log"] = packets["log"]
  BY <1>1
<1>10. Contents
  BY DEF Promise
<1>11. PICK which : which = Top.arg
  OBVIOUS
<1>12. Filled(n + 1, which)'
  <2>1. n + 1 \in 1..Len(calls)
    BY <1>4
  <2>2. Filled(n + 1, which)
    BY Zenon, <1>6, <1>10, <1>11, <2>1 DEF Contents
  <2>3. QED
    BY <1>1, <1>9, <2>2, StaysFilled
<1>13. ASSUME Len(calls') >= n, \A i \in 1..n : calls'[i] = calls[i],
              \A i \in (n + 1)..Len(calls') : Filled(i, calls[i].arg)' /\ Encoded(i)',
              (\E i \in (n + 1)..Len(calls') : calls'[i].arg = "rsp") <=> calls[n + 1].arg = "rsp"
       PROVE  Contents' /\ InTurn' /\ Histories' /\ UNCHANGED D!vars
  <2>1. Contents'
    BY <1>1, <1>3, <1>4, <1>7, <1>8, <1>9, <1>10, <1>13, Contained
  <2>2. (\E k \in DOMAIN calls' : calls'[k].arg = "rsp") <=> \E k \in DOMAIN calls : calls[k].arg = "rsp"
    BY <1>1, <1>4, <1>8, <1>13, AnswersSame
  <2>3. QED
    BY Zenon, <1>1, <1>2, <1>9, <2>1, <2>2, Aside, Stutters
<1>14. /\ InLoop(writes') = [op |-> "loop", arg |-> which, w |-> writes']
       /\ InLoop(writes') \in Call /\ [op |-> "dumped", arg |-> which, w |-> writes'] \in Call
       /\ LogCall("info") = [op |-> "log", arg |-> "info", w |-> 0] /\ LogCall("info") \in Call
  <2>1. writes' \in Nat
    BY DEF TypeInv, Types
  <2>2. QED
    BY <1>1, <1>6, <1>11, <2>1 DEF InLoop, Call, LogCall
<1>15. CASE ~debug
  <2>1. calls' = Append(Caller, InLoop(writes')) /\ phase' = 1
    BY <1>15 DEF EncodeStart
  <2>2. /\ Len(calls') = n + 1 /\ calls'[n + 1] = InLoop(writes')
        /\ \A i \in 1..n : calls'[i] = calls[i]
    BY <1>1, <1>4, <1>5, <1>14, <2>1, Replaced
  <2>3. calls'[n + 1].op = "loop" /\ calls'[n + 1].arg = which
    BY <1>14, <2>2
  <2>4. ASSUME NEW i \in (n + 1)..Len(calls')
        PROVE  Filled(i, calls[i].arg)' /\ Encoded(i)' /\ calls'[i].arg = which
    <3>1. i = n + 1
      BY <2>2
    <3>2. Encoded(i)'
      BY <1>1, <1>11, <2>3, <3>1 DEF Encoded
    <3>3. QED
      BY <1>12, <2>3, <3>1, <3>2 DEF Filled
  <2>5. n + 1 \in (n + 1)..Len(calls') /\ Len(calls') >= n
    BY <2>2
  <2>6. Complete'
    <3>1. \A j \in 1..Len(out') : out'[j].w # writes'
      <4>1. \A j \in 1..Len(out) : out[j].w \in Nat /\ out[j].w <= writes
        <5>1. out \in Seq(PieceValue)
          BY DEF TypeInv, Types
        <5>2. \A j \in 1..Len(out) : out[j] \in PieceValue
          BY <5>1, ElementOfSeq
        <5>3. QED
          BY <5>2 DEF PieceValue, WireInv, Latest
      <4>2. writes \in Nat
        BY DEF TypeInv, Types
      <4>3. QED
        BY <1>1, <4>1, <4>2
    <3>2. phase' - 1 = 0 /\ Len(out') \in Nat
      <4>1. out' \in Seq(PieceValue)
        BY DEF TypeInv, Types
      <4>2. QED
        BY <2>1, <4>1, LenProperties
    <3>3. Continued(out', 0, writes', packets'[m_packet'])
      BY <3>1, <3>2 DEF Continued
    <3>4. QED
      BY <3>2, <3>3 DEF Complete
  <2>7. Contents' /\ InTurn' /\ Histories' /\ UNCHANGED D!vars
    BY <1>6, <1>11, <1>13, <2>2, <2>4, <2>5
  <2>8. QED
    BY <2>6, <2>7 DEF Promise
<1>16. CASE debug /\ Len(calls) < MaxDepth
  <2>1. calls' = Caller \o <<[op |-> "dumped", arg |-> which, w |-> writes'], LogCall("info")>>
    BY <1>11, <1>16 DEF EncodeStart
  <2>2. /\ Len(calls') = (n + 1) + 1
        /\ calls'[n + 1] = [op |-> "dumped", arg |-> which, w |-> writes']
        /\ calls'[(n + 1) + 1] = LogCall("info")
        /\ \A i \in 1..n : calls'[i] = calls[i]
    BY <1>1, <1>4, <1>5, <1>14, <2>1, Nested
  <2>3. /\ calls'[n + 1].op = "dumped" /\ calls'[n + 1].arg = which
        /\ calls'[(n + 1) + 1].op = "log" /\ calls'[(n + 1) + 1].arg = "info"
    BY <1>14, <2>2
  <2>4. ASSUME NEW i \in (n + 1)..Len(calls')
        PROVE  Filled(i, calls[i].arg)' /\ Encoded(i)' /\ calls'[i].arg \in {which, "info"}
    <3>1. CASE i = n + 1
      <4>1. Encoded(i)'
        BY <1>1, <1>11, <2>3, <3>1 DEF Encoded
      <4>2. QED
        BY <1>12, <2>3, <3>1, <4>1 DEF Filled
    <3>2. CASE i = (n + 1) + 1
      BY <2>3, <3>2 DEF Filled, Encoded
    <3>3. QED
      BY <2>2, <3>1, <3>2
  <2>5. n + 1 \in (n + 1)..Len(calls') /\ Len(calls') >= n
    BY <2>2
  <2>6. Complete'
    BY <2>2, <2>3 DEF Complete
  <2>7. Contents' /\ InTurn' /\ Histories' /\ UNCHANGED D!vars
    BY <1>6, <1>11, <1>13, <2>2, <2>3, <2>4, <2>5
  <2>8. QED
    BY <2>6, <2>7 DEF Promise
<1>17. CASE debug /\ ~(Len(calls) < MaxDepth)
  <2>1. calls' = calls
    BY <1>17 DEF EncodeStart
  <2>2. ASSUME NEW i \in (n + 1)..Len(calls')
        PROVE  Filled(i, calls[i].arg)' /\ Encoded(i)' /\ i = n + 1
    <3>1. i = n + 1 /\ calls'[i].arg = which /\ calls'[i].op = "start"
      BY <1>1, <1>4, <1>6, <1>11, <2>1
    <3>2. QED
      BY <1>12, <3>1 DEF Filled, Encoded
  <2>3. n + 1 \in (n + 1)..Len(calls') /\ Len(calls') >= n /\ Len(calls') = n + 1
    BY <1>4, <2>1
  <2>4. Complete'
    <3>1. calls'[Len(calls')].op = "start"
      BY <1>1, <1>6, <2>1, <2>3
    <3>2. QED
      BY <3>1 DEF Complete
  <2>5. Contents' /\ InTurn' /\ Histories' /\ UNCHANGED D!vars
    BY <1>13, <2>1, <2>2, <2>3
  <2>6. QED
    BY <2>4, <2>5 DEF Promise
<1>18. QED
  BY <1>15, <1>16, <1>17

\* The reset after the dump finds the packet that encodeStart was given.
LEMMA PromiseEncodeReset ==
  ASSUME TypeInv, TypeInv', WireInv, Promise, EncodeReset
  PROVE  Promise' /\ UNCHANGED D!vars
<1>1. /\ calls \in Seq(Call) /\ calls # <<>> /\ Top.op = "dumped"
      /\ UNCHANGED <<logging, packets, out, m_packet, writes>>
      /\ phase' = 1 /\ main' \in {main, "overflow"}
      /\ UNCHANGED <<due, count>> /\ UNCHANGED <<due, count, frames>>
  BY DEF TypeInv, Types, EncodeReset, Running, setup
<1>2. (connected' <=> connected) /\ (room' <=> room) /\ (debug' <=> debug)
  BY Zenon DEF EncodeReset
<1>3. Endless' <=> Endless
  <2>1. logging' = logging
    BY <1>1
  <2>2. QED
    BY Zenon, <1>2, <2>1 DEF Endless
<1>4. PICK n \in Nat : Len(calls) = n + 1
  <2>1. Len(calls) \in Nat \ {0}
    BY <1>1, StackFacts
  <2>2. Len(calls) - 1 \in Nat /\ Len(calls) = (Len(calls) - 1) + 1
    BY <2>1
  <2>3. QED
    BY <2>2
<1>5. Len(calls) - 1 = n
  BY <1>4
<1>6. calls[n + 1] = Top /\ Top \in Call
  BY <1>1, <1>4, StackFacts
<1>7. calls' \in Seq(Call) /\ Len(calls') \in Nat
  BY LenProperties DEF TypeInv, Types
<1>8. /\ packets'["rsp"] = packets["rsp"] /\ packets'["cmd"] = packets["cmd"]
      /\ packets'["evt"] = packets["evt"] /\ packets'["log"] = packets["log"]
      /\ m_packet' = m_packet
  BY <1>1
<1>9. ~Endless /\ Top.w = writes /\ \A j \in 1..Len(out) : out[j].w < writes
  BY Zenon, <1>1, Below DEF WireInv
<1>10. Contents
  BY DEF Promise
<1>11. PICK which : which = Top.arg
  OBVIOUS
<1>12. Filled(n + 1, which)' /\ m_packet = which
  <2>1. n + 1 \in 1..Len(calls)
    BY <1>4
  <2>2. Filled(n + 1, which) /\ Encoded(n + 1)
    BY Zenon, <1>6, <1>10, <1>11, <2>1 DEF Contents
  <2>3. m_packet = which
    BY Zenon, <1>1, <1>6, <1>9, <1>11, <2>2 DEF Encoded
  <2>4. QED
    BY <1>1, <1>8, <2>2, <2>3, StaysFilled
<1>13. InLoop(Top.w) = [op |-> "loop", arg |-> which, w |-> Top.w] /\ InLoop(Top.w) \in Call
  BY <1>1, <1>6, <1>11 DEF InLoop, Call
<1>14. /\ Len(calls') = n + 1 /\ calls'[n + 1] = InLoop(Top.w)
       /\ \A i \in 1..n : calls'[i] = calls[i]
  <2>1. calls' = Append(Caller, InLoop(Top.w))
    BY DEF EncodeReset
  <2>2. QED
    BY <1>1, <1>4, <1>5, <1>13, <2>1, Replaced
<1>15. calls'[n + 1].op = "loop" /\ calls'[n + 1].arg = which
  BY <1>13, <1>14
<1>16. ASSUME NEW i \in (n + 1)..Len(calls')
       PROVE  Filled(i, calls[i].arg)' /\ Encoded(i)' /\ calls'[i].arg = which
  <2>1. i = n + 1
    BY <1>14
  <2>2. Encoded(i)'
    BY <1>8, <1>12, <1>15, <2>1 DEF Encoded
  <2>3. QED
    BY <1>12, <1>15, <2>1, <2>2 DEF Filled
<1>17. n + 1 \in (n + 1)..Len(calls') /\ Len(calls') >= n
  BY <1>14
<1>18. Contents'
  BY <1>1, <1>3, <1>4, <1>7, <1>8, <1>10, <1>14, <1>16, Contained
<1>19. (\E k \in DOMAIN calls' : calls'[k].arg = "rsp") <=> \E k \in DOMAIN calls : calls[k].arg = "rsp"
  <2>1. (\E i \in (n + 1)..Len(calls') : calls'[i].arg = "rsp") <=> calls[n + 1].arg = "rsp"
    BY <1>6, <1>11, <1>16, <1>17
  <2>2. QED
    BY <1>1, <1>4, <1>7, <1>14, <1>17, <2>1, AnswersSame
<1>20. InTurn' /\ Histories' /\ UNCHANGED D!vars
  BY Zenon, <1>1, <1>2, <1>8, <1>19, Aside, Stutters
<1>21. Complete'
  <2>1. out \in Seq(PieceValue) /\ Len(out) \in Nat /\ writes \in Nat
    BY LenProperties DEF TypeInv, Types
  <2>2. \A j \in 1..Len(out) : out[j] \in PieceValue
    BY <2>1, ElementOfSeq
  <2>3. \A j \in 1..Len(out') : out'[j].w # writes'
    BY <1>1, <1>9, <2>1, <2>2 DEF PieceValue
  <2>4. phase' - 1 = 0 /\ Len(out') \in Nat
    BY <1>1, <2>1
  <2>5. Continued(out', 0, writes', packets'[m_packet'])
    BY <2>3, <2>4 DEF Continued
  <2>6. QED
    BY <2>4, <2>5 DEF Complete
<1>22. QED
  BY <1>18, <1>20, <1>21 DEF Promise

\* The next piece continues the frame.
LEMMA Continues ==
  ASSUME NEW pieces \in Seq(PieceValue), NEW k \in Nat, NEW w, NEW pkt, NEW piece \in PieceValue,
         piece = Whole(w, k + 1, pkt), Continued(pieces, k, w, pkt)
  PROVE  Continued(Append(pieces, piece), k + 1, w, pkt)
<1>1. Len(pieces) \in Nat /\ Len(pieces) >= k
  BY LenProperties DEF Continued
<1>2. PICK l \in Nat : l = Len(pieces) - k
  <2>1. PICK len \in Nat : len = Len(pieces)
    BY <1>1
  <2>2. len - k \in Nat
    BY <1>1, <2>1
  <2>3. QED
    BY <2>1, <2>2
<1>3. /\ Len(pieces) = l + k
      /\ \A j \in 1..k : pieces[l + j] = Whole(w, j, pkt)
      /\ \A j \in 1..l : pieces[j].w # w
  BY <1>1, <1>2 DEF Continued, Whole
<1> DEFINE new == Append(pieces, piece)
<1>4. /\ Len(new) = l + (k + 1) /\ new[l + (k + 1)] = piece
      /\ \A j \in 1..(l + k) : new[j] = pieces[j]
  BY <1>3, AppendProperties
<1> HIDE DEF new
<1>5. Len(new) - (k + 1) = l
  BY <1>4
<1>6. \A j \in 1..(k + 1) : new[l + j] = Whole(w, j, pkt)
  <2>1. ASSUME NEW j \in 1..k PROVE new[l + j] = Whole(w, j, pkt)
    BY <1>3, <1>4
  <2>2. QED
    BY <1>4, <2>1
<1>7. \A j \in 1..l : new[j].w # w
  BY <1>3, <1>4
<1>8. Len(new) >= k + 1
  BY <1>4
<1>9. Continued(new, k + 1, w, pkt)
  BY <1>5, <1>6, <1>7, <1>8 DEF Continued
<1>10. QED
  BY <1>9 DEF new

\* What the host gets of a frame when writePacket returns.
LEMMA Delivered ==
  ASSUME frames \in Seq(Frame), NEW f \in {<<>>, <<Cut>>, <<Response(count["command"])>>,
                                          <<Message("LOG")>>, <<Message("EVENT")>>},
         count["command"] \in Nat, frames' = frames \o f
  PROVE  /\ frames' \in Seq(Frame)
         /\ f = <<>> => frames' = frames
         /\ \A g \in Frame : f = <<g>> => frames' = Append(frames, g)
<1>1. /\ Cut \in Frame /\ Response(count["command"]) \in Frame
      /\ Message("LOG") \in Frame /\ Message("EVENT") \in Frame
  BY DEF Frame, Response, Message, Command
<1>2. f = <<>> => frames' = frames
  BY ConcatEmptySeq
<1>3. ASSUME NEW g \in Frame, f = <<g>>
      PROVE  frames' = Append(frames, g)
  BY <1>3, AppendIsConcat
<1>4. ASSUME NEW g \in Frame, f = <<g>>
      PROVE  frames' \in Seq(Frame)
  BY <1>3, <1>4, AppendProperties
<1>5. QED
  BY <1>1, <1>2, <1>3, <1>4

\* The loop writes what it was asked to: what its packet says, if none of it is missing.
LEMMA Writing ==
  ASSUME TypeInv, TypeInv', WireInv, Promise, WriteByte
  PROVE  /\ Top.op = "loop" /\ Top.arg = m_packet /\ m_packet \in {"rsp", "log", "evt"}
         /\ FrameOf(Top.w, out') \in {<<>>, <<Cut>>, <<Says(packets[m_packet])>>}
         /\ Steady => Continued(out', phase, writes, packets[m_packet])
         /\ Steady /\ phase = 3 => FrameOf(Top.w, out') = <<Says(packets[m_packet])>>
<1>1. /\ calls \in Seq(Call) /\ calls # <<>> /\ Top.op = "loop"
      /\ UNCHANGED <<packets, m_packet, writes>>
  BY DEF TypeInv, Types, WriteByte, Running
<1>2. /\ Len(calls) \in 1..Len(calls) /\ Top = calls[Len(calls)] /\ Top \in Call
  BY <1>1, StackFacts
<1>3. Encoded(Len(calls))
  BY Zenon, <1>2 DEF Promise, Contents
<1>4. Top.arg = m_packet /\ m_packet \in {"rsp", "log", "evt"}
  <2>1. Top.arg = m_packet
    BY Zenon, <1>1, <1>2, <1>3 DEF Encoded
  <2>2. QED
    BY <1>1, <1>2, <2>1 DEF Call
<1>5. Top.w = writes
  BY Zenon, <1>1, Below DEF WireInv
<1>6. /\ out \in Seq(PieceValue) /\ out' \in Seq(PieceValue) /\ writes \in Nat /\ phase \in 1..3
      /\ packets[m_packet] \in PacketValue /\ Len(out) \in Nat
  <2>1. out \in Seq(PieceValue) /\ out' \in Seq(PieceValue) /\ writes \in Nat /\ phase \in 1..3
    BY DEF TypeInv, Types
  <2>2. packets[m_packet] \in PacketValue
    BY <1>4 DEF TypeInv, Types
  <2>3. QED
    BY <2>1, <2>2, LenProperties
<1>7. PICK extent \in {"whole", "part"} :
        /\ out' = out \/ out' = Append(out, Piece(extent))
        /\ connected /\ room => extent = "whole" /\ out' = Append(out, Piece(extent))
  <2>1. CASE connected /\ room
    <3>1. out' = Append(out, Piece("whole"))
      BY <2>1 DEF WriteByte, PieceWritten
    <3>2. QED
      BY <3>1
  <2>2. CASE ~(connected /\ room)
    BY <2>2 DEF WriteByte, PieceWritten
  <2>3. QED
    BY Zenon, <2>1, <2>2
<1> DEFINE piece == Piece(extent)
<1>8. /\ piece \in PieceValue /\ piece.w = writes /\ piece.pkt = packets[m_packet]
      /\ extent = "whole" => piece = Whole(writes, phase, packets[m_packet])
  BY <1>5, <1>6 DEF Piece, PieceValue, Whole
<1>9. \A j \in 1..Len(out) : out[j].w = writes => out[j].pkt = packets[m_packet]
  BY Zenon, <1>1, <1>2 DEF WireInv, Latest
<1>10. Steady => Continued(out', phase, writes, packets[m_packet])
  <2>1. SUFFICES ASSUME Steady PROVE Continued(out', phase, writes, packets[m_packet])
    OBVIOUS
  <2>2. Continued(out, phase - 1, writes, packets[m_packet])
    BY Zenon, <1>1, <1>2, <2>1 DEF Promise, Complete
  <2>3. out' = Append(out, piece) /\ piece = Whole(writes, phase, packets[m_packet])
    BY Zenon, <1>7, <1>8, <2>1 DEF Steady
  <2>4. phase - 1 \in Nat /\ (phase - 1) + 1 = phase
    BY <1>6
  <2>5. QED
    BY <1>6, <1>8, <2>2, <2>3, <2>4, Continues
<1> HIDE DEF piece
<1>11. \A j \in 1..Len(out') : out'[j].w = writes => out'[j].pkt = packets[m_packet]
  <2>1. CASE out' = out
    BY <1>9, <2>1
  <2>2. CASE out' = Append(out, piece)
    <3>1. PICK len \in Nat : len = Len(out)
      BY <1>6
    <3>2. Len(out') = len + 1 /\ out'[len + 1] = piece /\ \A j \in 1..len : out'[j] = out[j]
      BY <1>6, <1>8, <2>2, <3>1, AppendProperties
    <3>3. ASSUME NEW j \in 1..Len(out'), out'[j].w = writes
          PROVE  out'[j].pkt = packets[m_packet]
      <4>1. CASE j \in 1..len
        BY <1>9, <3>1, <3>2, <3>3, <4>1
      <4>2. CASE j = len + 1
        <5>1. out'[j] = piece /\ piece.pkt = packets[m_packet]
          BY <1>8, <3>2, <4>2
        <5>2. QED
          BY <5>1
      <4>3. QED
        BY <3>2, <4>1, <4>2
    <3>4. QED
      BY <3>3
  <2>3. QED
    BY Zenon, <1>7, <2>1, <2>2 DEF piece
<1>12. /\ FrameOf(writes, out') \in {<<>>, <<Cut>>, <<Says(packets[m_packet])>>}
       /\ Continued(out', 3, writes, packets[m_packet]) =>
            FrameOf(writes, out') = <<Says(packets[m_packet])>>
  BY <1>6, <1>11, FrameFacts
<1>13. Steady /\ phase = 3 => FrameOf(writes, out') = <<Says(packets[m_packet])>>
  BY Zenon, <1>10, <1>12
<1>14. QED
  BY Zenon, <1>1, <1>4, <1>5, <1>10, <1>12, <1>13

\* A piece goes out, or is dropped; with the last, writePacket returns, and the host has the
\* answer it waits for, a message, or what a port that was not open all along, or a buffer that
\* was full, left of it.
LEMMA PromiseWriteByte ==
  ASSUME TypeInv, TypeInv', WireInv, Promise, WriteByte
  PROVE  /\ Promise'
         /\ \/ D!Answer \/ D!Lose \/ D!Truncate \/ UNCHANGED D!vars
            \/ \E kind \in {"LOG", "EVENT"} : D!Send(kind)
<1>1. /\ calls \in Seq(Call) /\ calls # <<>> /\ calls' \in Seq(Call)
      /\ UNCHANGED <<logging, packets, m_packet, writes>> /\ main' \in {main, "overflow"}
      /\ UNCHANGED <<due, count>>
  BY DEF TypeInv, Types, WriteByte, Running, setup
<1>2. (connected' <=> connected) /\ (room' <=> room) /\ (debug' <=> debug)
  BY Zenon DEF WriteByte
<1>3. Endless' <=> Endless
  <2>1. logging' = logging
    BY <1>1
  <2>2. QED
    BY Zenon, <1>2, <2>1 DEF Endless
<1>4. PICK n \in Nat : Len(calls) = n + 1
  <2>1. Len(calls) \in Nat \ {0}
    BY <1>1, StackFacts
  <2>2. Len(calls) - 1 \in Nat /\ Len(calls) = (Len(calls) - 1) + 1
    BY <2>1
  <2>3. QED
    BY <2>2
<1>5. Len(calls) - 1 = n
  BY <1>4
<1>6. /\ calls[n + 1] = Top
      /\ Len(Caller) = n /\ \A i \in 1..n : Caller[i] = calls[i]
  BY <1>1, <1>4, <1>5, StackFacts
<1>7. \A i \in 1..n : calls[i].op # "loop"
  BY Zenon, <1>1, <1>5, Below DEF WireInv
<1>8. /\ packets'["rsp"] = packets["rsp"] /\ packets'["cmd"] = packets["cmd"]
      /\ packets'["evt"] = packets["evt"] /\ packets'["log"] = packets["log"]
      /\ m_packet' = m_packet
  BY <1>1
<1>9. Contents
  BY DEF Promise
<1>10. PICK which \in {"rsp", "log", "evt"} : which = m_packet /\ which = Top.arg
  BY Writing
<1>11. Filled(n + 1, which)
  <2>1. n + 1 \in 1..Len(calls)
    BY <1>4
  <2>2. QED
    BY Zenon, <1>6, <1>9, <1>10, <2>1 DEF Contents
<1>12. InTurn' /\ Handled' = Handled /\ (Steady' <=> Steady)
  BY Zenon, <1>1, <1>2, <1>8, Aside
<1>13. CASE phase # 3
  <2>1. calls' = calls /\ frames' = frames /\ phase' = phase + 1
    BY <1>13 DEF WriteByte
  <2>2. Contents'
    <3>1. ASSUME NEW i \in (n + 1)..Len(calls')
          PROVE  Filled(i, calls[i].arg)' /\ Encoded(i)'
      <4>1. i = n + 1
        BY <1>4, <2>1
      <4>2. Filled(n + 1, which)'
        BY <1>1, <1>8, <1>11, StaysFilled
      <4>3. calls'[i].arg = which /\ m_packet' = which
        BY <1>6, <1>8, <1>10, <2>1, <4>1
      <4>4. QED
        BY <4>1, <4>2, <4>3 DEF Filled, Encoded
    <3>2. Len(calls') \in Nat
      BY <1>4, <2>1
    <3>3. QED
      BY <1>1, <1>3, <1>4, <1>8, <1>9, <2>1, <3>1, <3>2, Contained
  <2>3. Complete'
    <3>1. phase' - 1 = phase
      BY <2>1 DEF TypeInv, Types
    <3>2. Steady => Continued(out', phase, writes, packets[m_packet])
      BY Zenon, Writing
    <3>3. Steady' => Continued(out', phase' - 1, writes', packets'[m_packet'])
      BY Zenon, <1>1, <1>8, <1>12, <3>1, <3>2
    <3>4. QED
      BY Zenon, <3>3 DEF Complete
  <2>4. (\E k \in DOMAIN calls' : calls'[k].arg = "rsp") <=> \E k \in DOMAIN calls : calls[k].arg = "rsp"
    BY <2>1
  <2>5. UNCHANGED <<due, count, frames>>
    BY <1>1, <2>1
  <2>6. Histories' /\ UNCHANGED D!vars
    BY Zenon, <1>1, <1>2, <1>8, <2>4, <2>5, Stutters
  <2>7. QED
    BY <1>12, <2>2, <2>3, <2>6 DEF Promise
<1>14. CASE phase = 3
  <2>1. PICK f : f = FrameOf(Top.w, out')
    OBVIOUS
  <2>2. calls' = Caller /\ frames' = frames \o f
    BY <1>14, <2>1 DEF WriteByte, Return
  <2>3. Len(calls') = n /\ \A i \in 1..n : calls'[i] = calls[i]
    BY <1>6, <2>2
  <2>4. (n + 1)..Len(calls') = {}
    BY <2>3
  <2>5. Contents'
    BY <1>1, <1>3, <1>4, <1>8, <1>9, <2>3, <2>4, Contained
  <2>6. Complete'
    <3>1. calls' # <<>> => n \in 1..n
      BY <1>1, <2>3, EmptySeq
    <3>2. QED
      BY <1>7, <2>3, <3>1 DEF Complete
  <2>7. /\ f \in {<<>>, <<Cut>>, <<Says(packets[which])>>}
        /\ Steady => f = <<Says(packets[which])>>
    BY Zenon, <1>10, <1>14, <2>1, Writing
  <2>8. /\ frames \in Seq(Frame) /\ due \in Seq(PacketValue)
        /\ count["command"] \in Nat /\ Handled \in Nat
    BY DEF Promise, Histories, TypeInv, Types, PacketValue, Handled
  <2>9. Cut \in Frame /\ Response(count["command"]) \in Frame
    BY <2>8 DEF Frame, Response
  <2>10. Steady' = Steady
    BY Zenon, <1>12 DEF Steady
  <2>11. Ignored' = Ignored /\ count' = count
    BY <1>1, <1>12 DEF Ignored
  <2>12. CASE which = "rsp"
    <3>1. /\ n = 0 /\ Handled = count["command"] /\ packets["rsp"] \in ToSet(due)
          /\ packets["rsp"].command \notin {"LOG", "EVENT"}
      BY <1>11, <2>12 DEF Filled
    <3>2. Says(packets[which]) = Response(count["command"])
      BY <2>12, <3>1 DEF Says, Handled
    <3>3. f \in {<<>>, <<Cut>>, <<Response(count["command"])>>}
      BY <2>7, <3>2
    <3>4. /\ frames' \in Seq(Frame)
          /\ f = <<>> => frames' = frames
          /\ f = <<Cut>> => frames' = Append(frames, Cut)
          /\ f = <<Response(count["command"])>> => frames' = Append(frames, Response(count["command"]))
      BY <2>2, <2>8, <2>9, <3>3, Delivered
    <3>5. Pending = <<count["command"]>>
      <4>1. 1 \in DOMAIN calls /\ calls[1].arg = "rsp"
        <5>1. n + 1 = 1
          BY <3>1
        <5>2. DOMAIN calls = 1..Len(calls) /\ Len(calls) = 1
          BY <1>1, <1>4, <5>1, LenProperties
        <5>3. calls[1] = Top /\ Top.arg = "rsp"
          BY <1>6, <1>10, <2>12, <5>1
        <5>4. QED
          BY <5>2, <5>3
      <4>2. Owed
        BY <4>1 DEF Owed
      <4>3. QED
        BY Zenon, <4>2 DEF Pending
    <3>6. Pending' = <<>>
      <4>1. calls' = <<>>
        BY <1>1, <2>3, <3>1, EmptySeq
      <4>2. ~(\E k \in DOMAIN calls' : calls'[k].arg = "rsp")
        BY <4>1
      <4>3. ~(Handled' < count'["command"])
        BY <1>12, <2>8, <2>11, <3>1
      <4>4. ~Owed'
        BY Zenon, <4>2, <4>3 DEF Owed
      <4>5. QED
        BY Zenon, <4>4 DEF Pending
    <3>7. D!Done /\ Head(Pending) = count["command"]
      BY <3>5, <3>6 DEF D!Done
    <3>8. f = <<Response(count["command"])>> => D!Answer
      BY <2>10, <2>11, <3>4, <3>7 DEF D!Answer, D!Response, Response
    <3>9. Steady => f = <<Response(count["command"])>>
      BY Zenon, <2>7, <3>2
    <3>10. ~Steady /\ f = <<>> => D!Lose
      BY <2>10, <2>11, <3>4, <3>7 DEF D!Lose
    <3>11. ~Steady /\ f = <<Cut>> => D!Truncate
      BY <2>10, <2>11, <3>4, <3>7 DEF D!Truncate, D!Cut, Cut
    <3>12. D!Answer \/ D!Lose \/ D!Truncate
      BY Zenon, <3>3, <3>8, <3>9, <3>10, <3>11
    <3>13. Histories'
      BY <1>1, <2>8, <3>4 DEF Histories
    <3>14. QED
      BY Zenon, <1>12, <2>5, <2>6, <3>12, <3>13 DEF Promise
  <2>13. CASE which # "rsp"
    <3>1. PICK kind \in {"LOG", "EVENT"} : packets[which].command = kind
      BY <1>11, <2>13 DEF Filled
    <3>2. Says(packets[which]) = Message(kind)
      BY <3>1 DEF Says
    <3>3. f \in {<<>>, <<Cut>>, <<Message(kind)>>}
      BY <2>7, <3>2
    <3>4. Message(kind) \in Frame
      BY DEF Message, Frame, Command
    <3>5. /\ frames' \in Seq(Frame)
          /\ f = <<>> => frames' = frames
          /\ f = <<Cut>> => frames' = Append(frames, Cut)
          /\ f = <<Message(kind)>> => frames' = Append(frames, Message(kind))
      BY <2>2, <2>8, <2>9, <3>3, <3>4, Delivered
    <3>6. Pending' = Pending
      <4>1. calls[n + 1].arg # "rsp" /\ Len(calls') >= n
        BY <1>6, <1>10, <2>3, <2>13
      <4>2. (\E k \in DOMAIN calls' : calls'[k].arg = "rsp") <=> \E k \in DOMAIN calls : calls[k].arg = "rsp"
        BY <1>1, <1>4, <2>3, <2>4, <4>1, AnswersSame
      <4>3. Owed' <=> Owed
        BY Zenon, <1>12, <2>11, <4>2 DEF Owed
      <4>4. QED
        BY <2>11, <4>3 DEF Pending
    <3>7. f = <<Message(kind)>> => D!Send(kind)
      BY <2>10, <2>11, <3>5, <3>6 DEF D!Send, D!Message, Message
    <3>8. f = <<>> => UNCHANGED D!vars
      BY <2>10, <2>11, <3>5, <3>6 DEF D!vars
    <3>9. Steady => f = <<Message(kind)>>
      BY Zenon, <2>7, <3>2
    <3>10. ~Steady /\ f = <<Cut>> => D!Truncate
      BY <2>10, <2>11, <3>5, <3>6 DEF D!Truncate, D!Cut, Cut
    <3>11. D!Truncate \/ UNCHANGED D!vars \/ \E k \in {"LOG", "EVENT"} : D!Send(k)
      BY Zenon, <3>3, <3>7, <3>8, <3>9, <3>10
    <3>12. Histories'
      BY <1>1, <2>8, <3>5 DEF Histories
    <3>13. QED
      BY Zenon, <1>12, <2>5, <2>6, <3>11, <3>12 DEF Promise
  <2>14. QED
    BY <2>12, <2>13
<1>15. QED
  BY Zenon, <1>13, <1>14

\* Every step is one of the device's as the host sees it, or none.
LEMMA PromiseStep ==
  ASSUME TypeInv, WireInv, Promise, [Next]_vars
  PROVE  Promise' /\ [D!Next]_(D!vars)
<1>1. TypeInv'
  BY TypeStep
<1>2. CASE Setup \/ LineState \/ Backlog \/ UNCHANGED vars
  <2>1. Promise' /\ (D!Unplug \/ UNCHANGED D!vars)
    BY Zenon, <1>2, PromiseSetup
  <2>2. QED
    BY Zenon, <2>1 DEF D!Next
<1>3. CASE ReceiveCommand
  <2>1. Promise' /\ D!Receive
    BY Zenon, <1>1, <1>3, PromiseReceive
  <2>2. QED
    BY Zenon, <2>1 DEF D!Next
<1>4. CASE ReceiveDamaged \/ Notice
  <2>1. Promise' /\ UNCHANGED D!vars
    BY Zenon, <1>1, <1>4, PromiseNotice
  <2>2. QED
    BY Zenon, <2>1
<1>5. CASE Handling
  <2>1. Promise' /\ (D!Ignore \/ UNCHANGED D!vars)
    BY Zenon, <1>1, <1>5, PromiseHandle
  <2>2. QED
    BY Zenon, <2>1 DEF D!Next
<1>6. CASE DoLog \/ EncodeStart \/ EncodeReset
  <2>1. Promise' /\ UNCHANGED D!vars
    BY Zenon, <1>1, <1>6, PromiseDoLog, PromiseEncodeStart, PromiseEncodeReset
  <2>2. QED
    BY Zenon, <2>1
<1>7. CASE WriteByte
  <2>1. /\ Promise'
        /\ \/ D!Answer \/ D!Lose \/ D!Truncate \/ UNCHANGED D!vars
           \/ \E kind \in {"LOG", "EVENT"} : D!Send(kind)
    BY Zenon, <1>1, <1>7, PromiseWriteByte
  <2>2. QED
    BY Zenon, <2>1 DEF D!Next
<1>8. QED
  BY Zenon, <1>2, <1>3, <1>4, <1>5, <1>6, <1>7 DEF Next, Logging

\* The device keeps its promise, whatever it logs, whenever the host opens and closes its
\* port, and however its capacities are chosen within the assumptions: no command is answered
\* twice, out of its turn, or with anything but what it calls for, and no answer is given up
\* or cut as long as the port has been open, with room in TinyUSB's buffer, all along.
THEOREM DeviceKeepsPromise == Spec => ImplementsDevice
<1>1. Init => Promise /\ D!Init
  BY PromiseInit
<1>2. TypeInv /\ WireInv /\ Promise /\ [Next]_vars => Promise' /\ [D!Next]_(D!vars)
  BY Zenon, PromiseStep
<1>3. QED
  BY <1>1, <1>2, TypeInvariant, WireInvariant, PTL DEF Spec, ImplementsDevice, D!Spec
==============================================================================
