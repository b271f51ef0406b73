---------------------------- MODULE HostBusProofs ----------------------------
(***************************************************************************)
(* HostBus for any number of commands, opens and disturbances of whichever *)
(* kinds: the two threads, the port and the line.                          *)
(***************************************************************************)
EXTENDS HostBus, SequenceTheorems, TLAPS

\* Where the application is says what the port is, and a thread runs only on a port that
\* is or was open.
Control ==
  /\ app \in {"writing", "waiting", "got"} => serial = "open" /\ n > 0
  /\ app = "closing" => serial = "closed"
  /\ app = "joining" => serial = "none"
  /\ app = "idle" => serial # "closed"
  /\ app = "idle" /\ serial # "open" => reader = "none"

\* A frame that is being decoded is the oldest, and packet says what it says; but the rest
\* of a torn one is gone.
Halfway ==
  /\ torn => decoded > 0
  /\ decoded > 0 /\ ~torn =>
       /\ toHost # <<>>
       /\ decoded <= Len(toHost[1].codes)
       /\ packet.kind = toHost[1].kind /\ packet.n = toHost[1].n

TypeInv == TypeOK /\ Control /\ Halfway

\* Where nothing was damaged or torn, what is decoded is what the device sent.
WellFormed ==
  Free({"damaged", "torn"}) =>
    /\ ~torn
    /\ \A i \in 1..Len(toHost) :
         toHost[i].kind # "DAMAGED_LOG" /\ toHost[i].codes = <<"NONE">>
    /\ packet.kind # "DAMAGED_LOG"
    /\ reader = "process" => packet.err = "NONE"

\* The response to a command on its way back: with the device, on the line, in the
\* reader's hands, or queued.
OnLine(i) == toHost[i].kind = "RSP"

AtDevice  == toDevice # <<>>
OnTheLine == \E i \in 1..Len(toHost) : OnLine(i)
InHand    == reader = "process" /\ packet.kind = "RSP"
Queued    == recv_queue # <<>>

OneOnTheLine ==
  \E i \in 1..Len(toHost) :
    /\ OnLine(i) /\ toHost[i].n = n
    /\ \A j \in 1..Len(toHost) : OnLine(j) => j = i

\* Nowhere, or in one of the places.
NoneOnItsWay == ~AtDevice /\ ~OnTheLine /\ ~InHand /\ ~Queued
ByDevice     == toDevice = <<n>> /\ ~OnTheLine /\ ~InHand /\ ~Queued
ByLine       == ~AtDevice /\ OneOnTheLine /\ ~InHand /\ ~Queued
ByHand       == ~AtDevice /\ ~OnTheLine /\ InHand /\ packet.n = n /\ ~Queued
ByQueue      == /\ ~AtDevice /\ ~OnTheLine /\ ~InHand
                /\ recv_queue = <<[kind |-> "RSP", n |-> n, err |-> "NONE"]>>

\* An event would be queued, too, and so would a packet that nothing was decoded into.
NothingElse ==
  /\ \A i \in 1..Len(toHost) : toHost[i].kind # "EVENT"
  /\ packet.kind # "EVENT"
  /\ reader = "process" => packet.kind # "BLANK"

AtMostOne == NoneOnItsWay \/ (app = "waiting" /\ (ByDevice \/ ByLine \/ ByHand \/ ByQueue))

\* While every command is written and answered in time and nothing but responses can be queued,
\* at most one is on its way, to the command in progress, and only while its caller waits.
OneOnItsWay == Free({"timeout", "writeError", "EVENT", "damaged", "torn"}) => AtMostOne

\* The commands whose responses are in each of the places.
QueuedNumbers == {recv_queue[i].n : i \in 1..Len(recv_queue)}
HeldNumbers   == IF InHand THEN {packet.n} ELSE {}
LineNumbers   == {toHost[i].n : i \in {j \in 1..Len(toHost) : OnLine(j)}}
DeviceNumbers == {toDevice[i] : i \in 1..Len(toDevice)}
AllNumbers    == QueuedNumbers \cup HeldNumbers \cup LineNumbers \cup DeviceNumbers

Before(earlier, later) == \A a \in earlier, b \in later : a < b

QueueInOrder == \A i, j \in 1..Len(recv_queue) : i < j => recv_queue[i].n < recv_queue[j].n
LineInOrder ==
  \A i, j \in 1..Len(toHost) : OnLine(i) /\ OnLine(j) /\ i < j => toHost[i].n < toHost[j].n
DeviceInOrder == \A i, j \in 1..Len(toDevice) : i < j => toDevice[i] < toDevice[j]

\* However many responses are on their way, they are in the order of the commands, in each place
\* and from one to the next; a command that is being written is in none of them yet.
InOrder ==
  /\ QueueInOrder /\ LineInOrder /\ DeviceInOrder
  /\ Before(QueuedNumbers, HeldNumbers \cup LineNumbers \cup DeviceNumbers)
  /\ Before(HeldNumbers, LineNumbers \cup DeviceNumbers)
  /\ Before(LineNumbers, DeviceNumbers)
  /\ AllNumbers \subseteq 1..n
  /\ app = "writing" => Before(AllNumbers, {n})

\* What is queued are answers.
AllAnswers ==
  \A i \in 1..Len(recv_queue) :
    recv_queue[i] = [kind |-> "RSP", n |-> recv_queue[i].n, err |-> "NONE"]

\* ... while nothing but responses can be queued.
Orderly == Free({"EVENT", "damaged", "torn"}) => NothingElse /\ AllAnswers /\ InOrder

\* Nothing overwrites the packet between its being queued and its being looked at.
StillUntouched ==
  /\ \A i \in 1..Len(toHost) : OnLine(i)
  /\ reader = "process" => InHand
  /\ Queued \/ app = "got" => /\ packet = [kind |-> "RSP", n |-> n, err |-> "NONE"]
                             /\ toHost = <<>>
  /\ app = "got" => reader # "process" /\ ~AtDevice /\ ~Queued
  /\ AnswersCommand

\* ... if there are no log messages either.
Untouched == Free({"timeout", "writeError", "LOG", "EVENT", "damaged", "torn"}) => StillUntouched

\* How many entries of recv_queue there may be: one for each timeout, failed write, event, damaged
\* or torn frame and byte past MAX_DATA_LEN, and one while a call waits.
Errors  == count["timeout"] + count["writeError"] + count["EVENT"] + count["damaged"]
             + count["excess"] + count["torn"]
Waiting == IF app = "waiting" THEN 1 ELSE 0

\* How many there are, or will be: of what is not on the line, and of the i-th frame on it.
Log      == {"LOG", "DAMAGED_LOG"}
Rest     == IF torn THEN 1 ELSE 0
Holding  == IF reader = "process" /\ packet.kind \notin Log THEN 1 ELSE 0
Elsewhere == Len(recv_queue) + Len(toDevice) + Rest + Holding

Entries(i) == IF toHost[i].kind \in Log THEN 0 ELSE 1

\* left[i] is no less than what the frames from the i-th on will become.
Accounts(left) ==
  /\ \A i \in 1..Len(toHost) : left[i] >= left[i + 1] + Entries(i)
  /\ Elsewhere + left[1] <= Errors + Waiting

Drift == \E left \in [Nat -> Nat] : Accounts(left)
-----------------------------------------------------------------------------
(***************************************************************************)
(* The types, and the control of the two threads.                          *)
(***************************************************************************)

\* The bounds are numbers.
LEMMA Bounds ==
  MaxCommands \in Nat /\ MaxExcess \in Nat /\ MaxOpens \in Nat /\ MaxDisturbances \in Nat
BY BoundsAssumption

\* A code ends a frame, after one for each byte too many.
LEMMA CodesFacts ==
  ASSUME NEW codes \in Codes
  PROVE  /\ Len(codes) \in 1..(MaxExcess + 1)
         /\ \A i \in 1..Len(codes) : codes[i] \in {"NONE", "CRC", "TOO_SMALL", "TOO_MUCH_DATA"}
<1>1. CASE codes = <<"TOO_SMALL">>
  BY <1>1, Bounds
<1>2. ASSUME NEW excess \in 0..MaxExcess, NEW err \in {"NONE", "CRC"}, codes = Overlong(excess, err)
      PROVE  /\ Len(codes) \in 1..(MaxExcess + 1)
             /\ \A i \in 1..Len(codes) : codes[i] \in {"NONE", "CRC", "TOO_MUCH_DATA"}
  <2>1. codes = [i \in 1..(excess + 1) |-> IF i <= excess THEN "TOO_MUCH_DATA" ELSE err]
    BY <1>2 DEF Overlong
  <2>2. excess + 1 \in 1..(MaxExcess + 1) /\ excess + 1 \in Nat
    BY Bounds
  <2>3. Len(codes) = excess + 1
    BY <2>1, <2>2
  <2>4. \A i \in 1..(excess + 1) : codes[i] \in {"NONE", "CRC", "TOO_MUCH_DATA"}
    BY <2>1
  <2>5. QED
    BY <2>2, <2>3, <2>4
<1>3. QED
  BY <1>1, <1>2 DEF Codes

\* A sound frame has the one code NONE.
LEMMA SoundCodes == <<"NONE">> \in Codes
<1>1. Overlong(0, "NONE") = <<"NONE">>
  <2>1. Overlong(0, "NONE") = [i \in 1..1 |-> IF i <= 0 THEN "TOO_MUCH_DATA" ELSE "NONE"]
    BY DEF Overlong
  <2>2. [i \in 1..1 |-> IF i <= 0 THEN "TOO_MUCH_DATA" ELSE "NONE"] = [i \in 1..1 |-> "NONE"]
    OBVIOUS
  <2>3. <<"NONE">> = [i \in 1..1 |-> "NONE"]
    OBVIOUS
  <2>4. QED
    BY <2>1, <2>2, <2>3
<1>2. 0 \in 0..MaxExcess
  BY Bounds
<1>3. QED
  BY <1>1, <1>2 DEF Codes

\* Count and Disturb count one thing, and change no other count but that of all disturbances.
LEMMA Counting ==
  ASSUME count \in [Counted -> Nat],
         NEW what \in Counted \ {"all"},
         Count(what) \/ Disturb(what)
  PROVE  /\ count' \in [Counted -> Nat]
         /\ count'[what] = count[what] + 1
         /\ \A other \in Counted \ {what, "all"} : count'[other] = count[other]
BY DEF Count, Disturb, Counted, DisturbanceKind

\* ... so that what is free of a happening was free of it before.
LEMMA FreeBefore ==
  ASSUME count \in [Counted -> Nat],
         NEW what \in Counted \ {"all"},
         Count(what) \/ Disturb(what),
         NEW happenings, happenings \subseteq Counted \ {"all"}, Free(happenings)'
  PROVE  Free(happenings) /\ what \notin happenings
<1>1. \A h \in happenings : h \in Counted \ {"all"} /\ count'[h] = 0
  BY DEF Free
<1>2. \A h \in happenings : h # what
  <2>1. SUFFICES ASSUME what \in happenings PROVE FALSE
    OBVIOUS
  <2>2. count'[what] = count[what] + 1 /\ count'[what] = 0 /\ count[what] \in Nat
    BY <1>1, <2>1, Counting DEF Counted
  <2>3. QED
    BY <2>2
<1>3. \A h \in happenings : count[h] = 0
  BY <1>1, <1>2, Counting
<1>4. QED
  BY <1>2, <1>3 DEF Free

\* The types of all but torn.
Types ==
  /\ serial \in {"unopened", "open", "closed", "none"}
  /\ app \in {"idle", "writing", "waiting", "got", "closing", "joining"}
  /\ n \in 0..MaxCommands
  /\ reader \in {"none", "top", "poll", "available", "read", "process", "exited", "raised"}
  /\ decoded \in 0..(MaxExcess + 1)
  /\ packet \in PacketValue
  /\ recv_queue \in Seq(PacketValue)
  /\ toDevice \in Seq(1..MaxCommands)
  /\ toHost \in Seq(Frame)
  /\ count \in [Counted -> Nat]

\* TypeOK, with its only Boolean variable apart.
LEMMA TypesAndTorn == TypeOK <=> Types /\ torn \in BOOLEAN
BY Zenon DEF TypeOK, Types

\* The initial states.
LEMMA TypeInit == Init => TypeInv
<1> SUFFICES ASSUME Init PROVE TypeInv
  OBVIOUS
<1>2. ~torn /\ torn \in BOOLEAN
  BY Zenon DEF Init
<1>3. packet \in PacketValue
  BY Bounds DEF Init, PacketValue
<1>4. recv_queue \in Seq(PacketValue) /\ toDevice \in Seq(1..MaxCommands) /\ toHost \in Seq(Frame)
  BY EmptySeq DEF Init
<1>5. Types
  BY Bounds, <1>3, <1>4 DEF Init, Types
<1>6. Control
  BY DEF Init, Control
<1>7. Halfway
  <2>1. decoded = 0
    BY DEF Init
  <2>2. QED
    BY <1>2, <2>1 DEF Halfway
<1>8. QED
  BY <1>2, <1>5, <1>6, <1>7, TypesAndTorn DEF TypeInv

\* What is left of a frame is where it was, unless the decoder moves.
LEMMA HalfwayKept ==
  ASSUME Halfway, UNCHANGED decoderVars,
         decoded > 0 /\ ~torn => toHost' # <<>> /\ toHost'[1] = toHost[1]
  PROVE  Halfway'
<1>1. /\ torn' <=> torn
      /\ decoded' = decoded /\ packet' = packet
  BY Zenon DEF decoderVars
<1>2. QED
  BY <1>1 DEF Halfway

\* No step makes torn anything but a truth value.
LEMMA TornStep ==
  ASSUME torn \in BOOLEAN, [Next]_vars
  PROVE  torn' \in BOOLEAN
<1>1. UNCHANGED decoderVars \/ UNCHANGED torn \/ torn' \in BOOLEAN => torn' \in BOOLEAN
  BY Zenon DEF decoderVars
<1>2. CASE AppNext
  BY Zenon, <1>1, <1>2 DEF AppNext, Open, SendCommand, Written, WriteError, Get, Timeout, Use,
    ClosePort, ForgetPort, Join
<1>3. CASE ReaderNext
  BY Zenon, <1>1, <1>3 DEF ReaderNext, CheckOpen, Poll, PollError, IsDataAvailable, ReadNothing,
    DecodeFirst, DecodeNext, DecodeTorn, ProcessPacket, Goto
<1>4. CASE DeviceNext
  BY Zenon, <1>1, <1>4 DEF DeviceNext, Answer, Unsolicited, Damage
<1>5. CASE UNCHANGED vars
  BY Zenon, <1>1, <1>5 DEF vars
<1>6. QED
  BY <1>2, <1>3, <1>4, <1>5 DEF Next

\* The application: Halfway changes only if what has arrived is discarded.
LEMMA AppTypes ==
  ASSUME TypeInv, AppNext
  PROVE  Types' /\ Control' /\ Halfway'
<1> USE DEF TypeInv
<1>1. Types
  BY TypesAndTorn
<1>2. CASE Open
  <2>1. Types'
    BY <1>1, <1>2, Counting DEF Open, Types, appVars, decoderVars, Counted
  <2>2. Control'
    BY <1>2 DEF Open, Control, appVars
  <2>3. Halfway'
    BY <1>2, HalfwayKept DEF Open, Halfway
  <2>4. QED
    BY <2>1, <2>2, <2>3
<1>3. CASE SendCommand
  <2>1. Types'
    BY <1>1, <1>3, Bounds DEF SendCommand, Return, Types, decoderVars
  <2>2. Control'
    BY <1>1, <1>3 DEF SendCommand, Return, Control, is_open, Types
  <2>3. Halfway'
    BY <1>3, HalfwayKept DEF SendCommand, Halfway
  <2>4. QED
    BY <2>1, <2>2, <2>3
<1>4. CASE Written
  <2>1. n \in 1..MaxCommands
    BY <1>1, <1>4 DEF Types, Control, Written
  <2>2. Types'
    BY <1>1, <1>4, <2>1, AppendProperties DEF Written, Types, decoderVars
  <2>3. Control'
    BY <1>4 DEF Written, Control
  <2>4. Halfway'
    BY <1>4, HalfwayKept DEF Written, Halfway
  <2>5. QED
    BY <2>2, <2>3, <2>4
<1>5. CASE WriteError
  <2>1. toDevice' \in Seq(1..MaxCommands)
    <3>1. n \in 1..MaxCommands /\ toDevice \in Seq(1..MaxCommands)
      BY <1>1, <1>5 DEF Types, Control, WriteError
    <3>2. Append(toDevice, n) \in Seq(1..MaxCommands)
      BY <3>1, AppendProperties
    <3>3. toDevice' = toDevice \/ toDevice' = Append(toDevice, n)
      BY <1>5 DEF WriteError
    <3>4. QED
      BY <3>1, <3>2, <3>3
  <2>2. Types'
    BY <1>1, <1>5, <2>1, Counting DEF WriteError, Return, Types, decoderVars, Counted, DisturbanceKind
  <2>3. Control'
    BY <1>5 DEF WriteError, Return, Control
  <2>4. Halfway'
    BY <1>5, HalfwayKept DEF WriteError, Halfway
  <2>5. QED
    BY <2>2, <2>3, <2>4
<1>6. CASE Get
  <2>1. Types'
    BY <1>1, <1>6, HeadTailProperties DEF Get, Types, decoderVars
  <2>2. Control'
    BY <1>6 DEF Get, Control
  <2>3. Halfway'
    BY <1>6, HalfwayKept DEF Get, Halfway
  <2>4. QED
    BY <2>1, <2>2, <2>3
<1>7. CASE Timeout
  <2>1. Types'
    BY <1>1, <1>7, Counting DEF Timeout, Return, Types, decoderVars, Counted
  <2>2. Control'
    BY <1>7 DEF Timeout, Return, Control
  <2>3. Halfway'
    BY <1>7, HalfwayKept DEF Timeout, Halfway
  <2>4. QED
    BY <2>1, <2>2, <2>3
<1>8. CASE Use
  <2>1. Types'
    BY <1>1, <1>8 DEF Use, Types, decoderVars
  <2>2. Control'
    BY <1>8 DEF Use, Control
  <2>3. Halfway'
    BY <1>8, HalfwayKept DEF Use, Halfway
  <2>4. QED
    BY <2>1, <2>2, <2>3
<1>9. CASE ClosePort
  <2>1. count' \in [Counted -> Nat]
    BY <1>1, <1>9, Counting DEF ClosePort, Types, Counted
  <2>2. Types'
    BY <1>1, <1>9, <2>1, EmptySeq DEF ClosePort, Types
  <2>3. Control'
    BY <1>9 DEF ClosePort, Control
  <2>4. Halfway'
    <3>1. decoded' = decoded /\ decoded \in 0..(MaxExcess + 1)
      BY <1>1, <1>9 DEF ClosePort, Types
    <3>2. CASE decoded > 0
      <4>1. torn'
        BY Zenon, <1>9, <3>2 DEF ClosePort
      <4>2. QED
        BY <3>1, <3>2, <4>1 DEF Halfway
    <3>3. CASE ~(decoded > 0)
      <4>1. torn' <=> torn
        BY Zenon, <1>9, <3>3 DEF ClosePort
      <4>2. QED
        BY <3>1, <3>3, <4>1 DEF Halfway
    <3>4. QED
      BY <3>2, <3>3
  <2>5. QED
    BY <2>2, <2>3, <2>4
<1>10. CASE ForgetPort
  <2>1. Types'
    BY <1>1, <1>10 DEF ForgetPort, Types, decoderVars
  <2>2. Control'
    BY <1>10 DEF ForgetPort, Control
  <2>3. Halfway'
    BY <1>10, HalfwayKept DEF ForgetPort, Halfway
  <2>4. QED
    BY <2>1, <2>2, <2>3
<1>11. CASE Join
  <2>1. Types'
    BY <1>1, <1>11 DEF Join, Types, decoderVars
  <2>2. Control'
    BY <1>11 DEF Join, Control
  <2>3. Halfway'
    BY <1>11, HalfwayKept DEF Join, Halfway
  <2>4. QED
    BY <2>1, <2>2, <2>3
<1>12. QED
  BY <1>2, <1>3, <1>4, <1>5, <1>6, <1>7, <1>8, <1>9, <1>10, <1>11 DEF AppNext

\* A packet with another code is still one.
LEMMA PacketFacts ==
  ASSUME packet \in PacketValue, NEW frame \in Frame
  PROVE  /\ packet.kind \in Kind \cup {"BLANK"}
         /\ packet.n \in 0..MaxCommands
         /\ \A err \in {"NONE", "CRC", "TOO_SMALL", "TOO_MUCH_DATA"} :
              /\ [packet EXCEPT !.err = err] \in PacketValue
              /\ [packet EXCEPT !.err = err].kind = packet.kind
              /\ [packet EXCEPT !.err = err].n = packet.n
              /\ [packet EXCEPT !.err = err].err = err
              /\ [kind |-> Garbled(packet.kind), n |-> 0, err |-> err] \in PacketValue
         /\ [kind |-> frame.kind, n |-> frame.n, err |-> "NOT_DONE"] \in PacketValue
BY Bounds DEF PacketValue, Frame, Kind, Garbled

\* The frame at hand.
LEMMA AtHand ==
  ASSUME toHost \in Seq(Frame), toHost # <<>>
  PROVE  /\ Head(toHost) = toHost[1] /\ toHost[1] \in Frame
         /\ toHost[1].codes \in Codes
         /\ Tail(toHost) \in Seq(Frame)
<1>1. Len(toHost) \in Nat \ {0}
  BY EmptySeq
<1>2. 1 \in 1..Len(toHost)
  BY <1>1
<1>3. toHost[1] \in Frame
  BY <1>2, ElementOfSeq
<1>4. toHost[1].codes \in Codes
  BY <1>3 DEF Frame
<1>5. Head(toHost) = toHost[1]
  OBVIOUS
<1>6. QED
  BY <1>3, <1>4, <1>5, HeadTailProperties

\* The reader: it moves the decoder in three actions.
LEMMA ReaderTypes ==
  ASSUME TypeInv, ReaderNext
  PROVE  Types' /\ Control' /\ Halfway'
<1> USE DEF TypeInv
<1>1. Types
  BY TypesAndTorn
<1>2. CASE CheckOpen
  <2>1. Types'
    BY <1>1, <1>2 DEF CheckOpen, Goto, Types, appVars, decoderVars
  <2>2. Control'
    BY <1>2 DEF CheckOpen, Control, appVars
  <2>3. Halfway'
    BY <1>2, HalfwayKept DEF CheckOpen, Goto, Halfway
  <2>4. QED
    BY <2>1, <2>2, <2>3
<1>3. CASE Poll
  <2>1. Types'
    BY <1>1, <1>3 DEF Poll, Goto, Types, appVars, decoderVars
  <2>2. Control'
    BY <1>3 DEF Poll, Control, appVars
  <2>3. Halfway'
    BY <1>3, HalfwayKept DEF Poll, Goto, Halfway
  <2>4. QED
    BY <2>1, <2>2, <2>3
<1>4. CASE PollError
  <2>1. Types'
    BY <1>1, <1>4, Counting DEF PollError, Goto, Types, appVars, decoderVars, Counted, DisturbanceKind
  <2>2. Control'
    BY <1>4 DEF PollError, Control, appVars
  <2>3. Halfway'
    BY <1>4, HalfwayKept DEF PollError, Goto, Halfway
  <2>4. QED
    BY <2>1, <2>2, <2>3
<1>5. CASE IsDataAvailable
  <2>1. reader' \in {"top", "raised", "read"}
    BY <1>1, <1>5 DEF IsDataAvailable, Goto, Types
  <2>2. Types'
    BY <1>1, <1>5, <2>1 DEF IsDataAvailable, Goto, Types, appVars, decoderVars
  <2>3. Control'
    BY <1>5 DEF IsDataAvailable, Control, appVars
  <2>4. Halfway'
    BY <1>5, HalfwayKept DEF IsDataAvailable, Goto, Halfway
  <2>5. QED
    BY <2>2, <2>3, <2>4
<1>6. CASE ReadNothing
  <2>1. Types'
    BY <1>1, <1>6 DEF ReadNothing, Goto, Types, appVars, decoderVars
  <2>2. Control'
    BY <1>6 DEF ReadNothing, Control, appVars
  <2>3. Halfway'
    BY <1>6, HalfwayKept DEF ReadNothing, Goto, Halfway
  <2>4. QED
    BY <2>1, <2>2, <2>3
<1>7. CASE DecodeFirst
  <2>1. toHost \in Seq(Frame) /\ toHost # <<>>
    BY <1>1, <1>7 DEF DecodeFirst, Decoding, Types
  <2>2. packet' \in PacketValue /\ packet'.kind = toHost[1].kind /\ packet'.n = toHost[1].n
    BY <1>1, <1>7, <2>1, AtHand, PacketFacts DEF DecodeFirst, Types
  <2>3. Types'
    BY <1>1, <1>7, <2>2, Bounds DEF DecodeFirst, Types, appVars
  <2>4. Control'
    BY <1>7 DEF DecodeFirst, Decoding, Control, appVars
  <2>5. Halfway'
    <3>1. decoded' = 1 /\ toHost' = toHost
      BY <1>7 DEF DecodeFirst
    <3>2. Len(toHost[1].codes) \in 1..(MaxExcess + 1)
      BY <2>1, AtHand, CodesFacts
    <3>3. decoded' <= Len(toHost'[1].codes)
      BY <3>1, <3>2, Bounds
    <3>4. QED
      BY <2>1, <2>2, <3>1, <3>3 DEF Halfway
  <2>6. QED
    BY <2>3, <2>4, <2>5
<1>8. CASE DecodeNext
  <2>1. toHost \in Seq(Frame) /\ toHost # <<>> /\ decoded \in Nat /\ decoded > 0 /\ ~torn
    BY <1>1, <1>8 DEF DecodeNext, Decoding, Types
  <2>2. decoded <= Len(toHost[1].codes) /\ packet.kind = toHost[1].kind /\ packet.n = toHost[1].n
    BY <2>1 DEF Halfway
  <2>3. Len(toHost[1].codes) \in 1..(MaxExcess + 1)
    BY <2>1, AtHand, CodesFacts
  <2>4. toHost[1].codes[decoded] \in {"NONE", "CRC", "TOO_SMALL", "TOO_MUCH_DATA"}
    <3>1. decoded \in 1..Len(toHost[1].codes)
      BY <2>1, <2>2, <2>3
    <3>2. QED
      BY <2>1, <3>1, AtHand, CodesFacts
  <2>5. packet' = [packet EXCEPT !.err = toHost[1].codes[decoded]]
    BY <1>8, <2>1, AtHand DEF DecodeNext
  <2>6. packet' \in PacketValue /\ packet'.kind = packet.kind /\ packet'.n = packet.n
    BY <1>1, <2>1, <2>4, <2>5, AtHand, PacketFacts DEF Types
  <2>7. ~torn'
    BY Zenon, <1>8 DEF DecodeNext
  <2>8. \/ decoded' = 0 /\ toHost' = Tail(toHost) /\ UNCHANGED count
        \/ decoded < Len(toHost[1].codes) /\ decoded' = decoded + 1 /\ toHost' = toHost /\ Count("excess")
    <3>1. CASE decoded = Len(toHost[1].codes)
      BY <1>8, <2>1, <3>1, AtHand DEF DecodeNext
    <3>2. CASE decoded # Len(toHost[1].codes)
      <4>1. decoded < Len(toHost[1].codes)
        BY <2>1, <2>2, <2>3, <3>2
      <4>2. QED
        BY <1>8, <2>1, <3>2, <4>1, AtHand DEF DecodeNext
    <3>3. QED
      BY <3>1, <3>2
  <2>9. Types'
    <3>1. toHost' \in Seq(Frame)
      BY <2>1, <2>8, AtHand
    <3>4. count' \in [Counted -> Nat]
      BY <1>1, <2>8, Counting DEF Types, Counted
    <3>2. decoded' \in 0..(MaxExcess + 1)
      <4>1. decoded' = 0 \/ (decoded < Len(toHost[1].codes) /\ decoded' = decoded + 1)
        BY <2>8
      <4>2. decoded \in Nat
        BY <2>1
      <4> DEFINE len == Len(toHost[1].codes)
      <4>3. len \in 1..(MaxExcess + 1) /\ (decoded' = 0 \/ (decoded < len /\ decoded' = decoded + 1))
        BY <2>3, <4>1
      <4> HIDE DEF len
      <4>4. QED
        BY <4>2, <4>3, Bounds
    <3>3. QED
      BY <1>1, <1>8, <2>6, <3>1, <3>2, <3>4 DEF DecodeNext, Types, appVars
  <2>10. Control'
    BY <1>8 DEF DecodeNext, Decoding, Control, appVars
  <2>11. Halfway'
    BY <2>1, <2>2, <2>3, <2>6, <2>7, <2>8 DEF Halfway
  <2>12. QED
    BY <2>9, <2>10, <2>11
<1>9. CASE DecodeTorn
  <2>1. toHost \in Seq(Frame) /\ toHost # <<>>
    BY <1>1, <1>9 DEF DecodeTorn, Decoding, Types
  <2>2. packet' \in PacketValue
    BY <1>1, <1>9, <2>1, AtHand, PacketFacts DEF DecodeTorn, Types
  <2>3. toHost' \in Seq(Frame)
    BY <1>9, <2>1, AtHand DEF DecodeTorn
  <2>4. Types'
    BY <1>1, <1>9, <2>2, <2>3, Bounds DEF DecodeTorn, Types, appVars
  <2>5. Control'
    BY <1>9 DEF DecodeTorn, Decoding, Control, appVars
  <2>6. Halfway'
    <3>1. ~torn'
      BY Zenon, <1>9 DEF DecodeTorn
    <3>2. decoded' = 0
      BY <1>9 DEF DecodeTorn
    <3>3. QED
      BY <3>1, <3>2 DEF Halfway
  <2>7. QED
    BY <2>4, <2>5, <2>6
<1>10. CASE ProcessPacket
  <2>1. Types'
    <3>1. recv_queue' = recv_queue \/ recv_queue' = Append(recv_queue, packet)
      BY <1>10 DEF ProcessPacket
    <3>5. recv_queue' \in Seq(PacketValue)
      <4>1. packet \in PacketValue /\ recv_queue \in Seq(PacketValue)
        BY <1>1 DEF Types
      <4>2. Append(recv_queue, packet) \in Seq(PacketValue)
        BY <4>1, AppendProperties
      <4>3. QED
        BY <3>1, <4>1, <4>2
    <3>2. reader' \in {"top", "raised"}
      BY <1>10 DEF ProcessPacket, Goto
    <3>3. UNCHANGED <<serial, app, n, decoded, packet, toDevice, toHost>>
      BY <1>10 DEF ProcessPacket, Goto, appVars, decoderVars
    <3>6. count' \in [Counted -> Nat]
      <4>1. UNCHANGED count \/ Disturb("rawText")
        BY <1>10 DEF ProcessPacket
      <4>2. QED
        BY <1>1, <4>1, Counting DEF Types, Counted, DisturbanceKind
    <3>4. QED
      BY <1>1, <3>2, <3>3, <3>5, <3>6 DEF Types
  <2>2. Control'
    BY <1>10 DEF ProcessPacket, Goto, Control, appVars
  <2>3. Halfway'
    BY <1>10, HalfwayKept DEF ProcessPacket, Goto, Halfway
  <2>4. QED
    BY <2>1, <2>2, <2>3
<1>11. QED
  BY <1>2, <1>3, <1>4, <1>5, <1>6, <1>7, <1>8, <1>9, <1>10 DEF ReaderNext

\* The device deals with the oldest command, and answers that one or none.
LEMMA AnswerFacts ==
  ASSUME TypeInv, Answer
  PROVE  /\ toDevice # <<>> /\ toDevice' = Tail(toDevice)
         /\ Response(Head(toDevice)) \in Frame
         /\ toHost' = toHost \/ toHost' = Append(toHost, Response(Head(toDevice)))
<1>1. D!Lose \/ D!Answer
  BY DEF Answer
<1>2. toDevice # <<>> /\ toDevice' = Tail(toDevice)
  BY <1>1 DEF D!Lose, D!Answer, D!Done
<1>3. toHost' = toHost \/ toHost' = Append(toHost, Response(Head(toDevice)))
  BY <1>1 DEF D!Lose, D!Answer, D!Response, Response
<1>4. Head(toDevice) \in 1..MaxCommands
  BY <1>2, HeadTailProperties, TypesAndTorn DEF TypeInv, Types
<1>5. Response(Head(toDevice)) \in Frame
  BY <1>4, Bounds, SoundCodes DEF Response, Frame, Kind
<1>6. QED
  BY <1>2, <1>3, <1>5

\* A message is a well-formed frame that answers nothing.
LEMMA UnsolicitedFacts ==
  ASSUME Unsolicited
  PROVE  \E kind \in {"LOG", "EVENT"} :
           /\ Disturb(kind)
           /\ Message(kind) \in Frame
           /\ toHost' = Append(toHost, Message(kind))
           /\ toDevice' = toDevice
<1>1. PICK kind \in {"LOG", "EVENT"} : Disturb(kind) /\ D!Send(kind)
  BY DEF Unsolicited
<1>2. toHost' = Append(toHost, Message(kind)) /\ toDevice' = toDevice
  BY <1>1 DEF D!Send, D!Message, Message
<1>3. Message(kind) \in Frame
  BY Bounds, SoundCodes DEF Message, Frame, Kind
<1>4. QED
  BY <1>1, <1>2, <1>3

\* Damage changes the newest frame or removes it, and never what is being decoded.
LEMMA DamageFacts ==
  ASSUME TypeInv, Damage
  PROVE  /\ toHost' \in Seq(Frame)
         /\ Len(toHost) \in Nat \ {0}
         /\ \A i \in 1..Len(toHost') : i < Len(toHost) => toHost'[i] = toHost[i]
         /\ \/ Len(toHost') = Len(toHost) /\ toHost'[Len(toHost)] \in Damaged
            \/ Len(toHost') = Len(toHost) - 1
         /\ Len(toHost) > 1 \/ decoded = 0
<1>1. toHost \in Seq(Frame)
  BY TypesAndTorn DEF TypeInv, Types
<1>2. Len(toHost) \in Nat \ {0} /\ (Len(toHost) > 1 \/ decoded = 0)
  BY <1>1, EmptySeq DEF Damage
<1>3. CASE \E frame \in Damaged : toHost' = [toHost EXCEPT ![Len(toHost)] = frame]
  <2>1. PICK frame \in Damaged : toHost' = [toHost EXCEPT ![Len(toHost)] = frame]
    BY <1>3
  <2>2. frame \in Frame
    BY Bounds DEF Damaged, Frame, Kind
  <2>3. Len(toHost) \in 1..Len(toHost)
    BY <1>2
  <2>4. /\ toHost' \in Seq(Frame) /\ Len(toHost') = Len(toHost)
        /\ \A i \in 1..Len(toHost) : toHost'[i] = IF i = Len(toHost) THEN frame ELSE toHost[i]
    BY <1>1, <2>1, <2>2, <2>3, ExceptSeq
  <2>5. QED
    BY <1>2, <2>4
<1>4. CASE toHost' = SubSeq(toHost, 1, Len(toHost) - 1)
  <2>1. \A i \in 1..Len(toHost) : toHost[i] \in Frame
    BY <1>1, ElementOfSeq
  <2>2. Len(toHost) - 1 \in Int /\ 1 \in Int /\ \A i \in 1..(Len(toHost) - 1) : toHost[i] \in Frame
    BY <1>2, <2>1
  <2>3. /\ toHost' \in Seq(Frame)
        /\ Len(toHost') = IF 1 <= Len(toHost) - 1 THEN Len(toHost) - 1 - 1 + 1 ELSE 0
        /\ \A i \in 1..(Len(toHost) - 1 - 1 + 1) : toHost'[i] = toHost[1 + i - 1]
    BY <1>4, <2>2, SubSeqProperties
  <2>4. Len(toHost') = Len(toHost) - 1
    <3>1. Len(toHost') = IF 1 <= Len(toHost) - 1 THEN Len(toHost) - 1 - 1 + 1 ELSE 0
      BY <2>3
    <3> DEFINE len == Len(toHost)
    <3>2. len \in Nat \ {0} /\ Len(toHost') = IF 1 <= len - 1 THEN len - 1 - 1 + 1 ELSE 0
      BY <1>2, <3>1
    <3> HIDE DEF len
    <3>3. Len(toHost') = len - 1
      BY <3>2
    <3>4. QED
      BY <3>3 DEF len
  <2>5. \A i \in 1..(Len(toHost) - 1) : toHost'[i] = toHost[i]
    BY <1>2, <2>3
  <2>6. QED
    BY <1>2, <2>3, <2>4, <2>5
<1>5. QED
  BY <1>3, <1>4 DEF Damage

\* The device and the line.
LEMMA DeviceTypes ==
  ASSUME TypeInv, DeviceNext
  PROVE  Types' /\ Control' /\ Halfway'
<1>1. Types /\ Halfway
  BY TypesAndTorn DEF TypeInv
<1>2. UNCHANGED <<serial, appVars, reader, decoderVars, recv_queue>>
  BY DEF DeviceNext, Answer, Unsolicited, Damage
<1>3. Control'
  BY <1>2 DEF TypeInv, Control, appVars
<1>4. count' \in [Counted -> Nat]
  <2>1. UNCHANGED count \/ \E kind \in DisturbanceKind : Disturb(kind)
    BY DEF DeviceNext, Answer, Unsolicited, Damage, DisturbanceKind
  <2>2. QED
    BY <1>1, <2>1, Counting DEF Types, Counted, DisturbanceKind
<1>5. toHost' \in Seq(Frame) /\ toDevice' \in Seq(1..MaxCommands)
  <2>1. CASE Answer
    <3>1. toHost \in Seq(Frame) /\ toDevice \in Seq(1..MaxCommands)
      BY <1>1 DEF Types
    <3>2. toDevice # <<>> /\ toDevice' = Tail(toDevice)
      BY <2>1, AnswerFacts
    <3>3. toDevice' \in Seq(1..MaxCommands)
      BY <3>1, <3>2, HeadTailProperties
    <3>4. Append(toHost, Response(Head(toDevice))) \in Seq(Frame)
      BY <2>1, <3>1, AnswerFacts, AppendProperties
    <3>5. QED
      BY <2>1, <3>1, <3>3, <3>4, AnswerFacts
  <2>2. CASE Unsolicited
    <3>1. toHost \in Seq(Frame) /\ toDevice \in Seq(1..MaxCommands)
      BY <1>1 DEF Types
    <3>2. PICK kind \in {"LOG", "EVENT"} :
            Message(kind) \in Frame /\ toHost' = Append(toHost, Message(kind)) /\ toDevice' = toDevice
      BY <2>2, UnsolicitedFacts
    <3>3. Append(toHost, Message(kind)) \in Seq(Frame)
      BY <3>1, <3>2, AppendProperties
    <3>4. QED
      BY <3>1, <3>2, <3>3
  <2>3. CASE Damage
    BY <1>1, <2>3, DamageFacts DEF Types, Damage
  <2>4. QED
    BY <2>1, <2>2, <2>3 DEF DeviceNext
<1>6. Types'
  BY <1>1, <1>2, <1>4, <1>5 DEF Types, appVars, decoderVars
<1>7. decoded > 0 /\ ~torn => toHost' # <<>> /\ toHost'[1] = toHost[1]
  <2>1. SUFFICES ASSUME decoded > 0, ~torn PROVE toHost' # <<>> /\ toHost'[1] = toHost[1]
    OBVIOUS
  <2>2. toHost # <<>> /\ toHost \in Seq(Frame) /\ Len(toHost) \in Nat \ {0}
    BY <1>1, <2>1, EmptySeq DEF Halfway, Types
  <2>3. ASSUME NEW frame \in Frame, toHost' = Append(toHost, frame)
        PROVE  toHost' # <<>> /\ toHost'[1] = toHost[1]
    BY <2>2, <2>3, AppendProperties
  <2>4. CASE Answer
    BY <2>2, <2>3, <2>4, AnswerFacts
  <2>5. CASE Unsolicited
    BY <2>3, <2>5, UnsolicitedFacts
  <2>6. CASE Damage
    <3>1. Len(toHost) > 1 /\ Len(toHost') \in {Len(toHost), Len(toHost) - 1}
      BY <2>1, <2>6, DamageFacts
    <3>2. toHost'[1] = toHost[1]
      BY <2>2, <2>6, <3>1, DamageFacts
    <3>3. Len(toHost') # 0
      BY <2>2, <3>1
    <3>4. QED
      BY <3>2, <3>3, EmptySeq
  <2>7. QED
    BY <2>4, <2>5, <2>6 DEF DeviceNext
<1>8. Halfway'
  BY <1>1, <1>2, <1>7, HalfwayKept
<1>9. QED
  BY <1>3, <1>6, <1>8

\* Every step keeps the invariant.
LEMMA TypeStep == TypeInv /\ [Next]_vars => TypeInv'
<1> SUFFICES ASSUME TypeInv, [Next]_vars PROVE TypeInv'
  OBVIOUS
<1>1. torn' \in BOOLEAN
  BY TornStep, TypesAndTorn DEF TypeInv
<1>2. ASSUME Next PROVE Types' /\ Control' /\ Halfway'
  BY <1>2, AppTypes, ReaderTypes, DeviceTypes DEF Next
<1>3. ASSUME UNCHANGED vars PROVE Types' /\ Control' /\ Halfway'
  <2>1. Types'
    BY <1>3, TypesAndTorn DEF vars, Types, TypeInv
  <2>2. Control'
    BY <1>3 DEF vars, Control, TypeInv
  <2>3. Halfway'
    BY <1>3, HalfwayKept DEF vars, decoderVars, Halfway, TypeInv
  <2>4. QED
    BY <2>1, <2>2, <2>3
<1>4. Types' /\ Control' /\ Halfway'
  BY <1>2, <1>3
<1>5. TypeOK'
  BY Zenon, <1>1, <1>4 DEF TypeOK, Types
<1>6. QED
  BY <1>4, <1>5 DEF TypeInv

\* Types, and where the two threads may be together.
LEMMA TypeInvariant == Spec => []TypeInv
BY TypeInit, TypeStep, PTL DEF Spec

\* The variables have their types, whatever the threads, the device and the line do: in
\* particular a frame is never decoded past its codes, and no answer is made up.
THEOREM TypeCorrect == Spec => []TypeOK
<1>1. TypeInv => TypeOK
  BY DEF TypeInv
<1>2. QED
  BY <1>1, TypeInvariant, PTL

\* When close has returned, the thread that it joined is over (bus.py, bus_closed).
THEOREM Joined == Spec => []NoReaderWhenClosed
<1>1. TypeInv => NoReaderWhenClosed
  BY DEF TypeInv, Control, NoReaderWhenClosed
<1>2. QED
  BY <1>1, TypeInvariant, PTL
-----------------------------------------------------------------------------
(***************************************************************************)
(* What a step may change.                                                 *)
(***************************************************************************)

\* A step counts at most one thing.
LEMMA CountStep ==
  ASSUME [Next]_vars
  PROVE  UNCHANGED count \/ \E what \in Counted \ {"all"} : Count(what) \/ Disturb(what)
<1> USE DEF Counted, DisturbanceKind
<1>1. CASE AppNext
  BY <1>1 DEF AppNext, Open, SendCommand, Written, WriteError, Get, Timeout, Use, ClosePort,
    ForgetPort, Join
<1>2. CASE ReaderNext
  BY <1>2 DEF ReaderNext, CheckOpen, Poll, PollError, IsDataAvailable, ReadNothing, DecodeFirst,
    DecodeNext, DecodeTorn, ProcessPacket
<1>3. CASE DeviceNext
  BY <1>3 DEF DeviceNext, Answer, Unsolicited, Damage
<1>4. CASE UNCHANGED vars
  BY <1>4 DEF vars
<1>5. QED
  BY <1>1, <1>2, <1>3, <1>4 DEF Next

\* What has not happened yet had not happened before.
LEMMA FreeStep ==
  ASSUME TypeInv, [Next]_vars,
         NEW happenings, happenings \subseteq Counted \ {"all"}, Free(happenings)'
  PROVE  Free(happenings)
<1>1. count \in [Counted -> Nat]
  BY TypesAndTorn DEF TypeInv, Types
<1>2. CASE UNCHANGED count
  BY <1>2 DEF Free
<1>3. CASE \E what \in Counted \ {"all"} : Count(what) \/ Disturb(what)
  BY <1>1, <1>3, FreeBefore
<1>4. QED
  BY <1>2, <1>3, CountStep

\* What is happening has happened.
LEMMA NotFree ==
  ASSUME TypeInv, NEW happenings, happenings \subseteq Counted \ {"all"}, Free(happenings)'
  PROVE  /\ \A what \in happenings : ~Count(what) /\ ~Disturb(what)
         /\ "damaged" \in happenings => ~Damage
         /\ "timeout" \in happenings => ~Timeout
         /\ "writeError" \in happenings => ~WriteError
         /\ "torn" \in happenings => ~(ClosePort /\ decoded > 0)
<1>1. count \in [Counted -> Nat]
  BY TypesAndTorn DEF TypeInv, Types
<1>2. \A what \in happenings : ~Count(what) /\ ~Disturb(what)
  BY <1>1, FreeBefore
<1>3. QED
  BY <1>2 DEF Damage, Timeout, WriteError, ClosePort

\* Only three actions of the reader move the decoder, but for a close, and two of them find
\* something to process.
LEMMA DecoderStep ==
  ASSUME [Next]_vars, ~DecodeFirst, ~DecodeNext, ~DecodeTorn
  PROVE  /\ packet' = packet /\ decoded' = decoded
         /\ reader' = "process" => reader = "process"
         /\ torn' = torn \/ (ClosePort /\ decoded > 0)
<1> USE DEF decoderVars, appVars
<1>1. CASE AppNext
  <2>1. torn' = torn \/ (ClosePort /\ decoded > 0)
    BY Zenon, <1>1 DEF AppNext, Open, SendCommand, Written, WriteError, Get, Timeout, Use,
      ClosePort, ForgetPort, Join
  <2>2. packet' = packet /\ decoded' = decoded
    BY Zenon, <1>1 DEF AppNext, Open, SendCommand, Written, WriteError, Get, Timeout, Use,
      ClosePort, ForgetPort, Join
  <2>3. reader' = "process" => reader = "process"
    BY <1>1 DEF AppNext, Open, SendCommand, Written, WriteError, Get, Timeout, Use,
      ClosePort, ForgetPort, Join
  <2>4. QED
    BY Zenon, <2>1, <2>2, <2>3
<1>2. CASE ReaderNext
  <2>1. torn' = torn /\ packet' = packet /\ decoded' = decoded
    BY Zenon, <1>2 DEF ReaderNext, CheckOpen, Poll, PollError, IsDataAvailable, ReadNothing, 
      ProcessPacket, Goto
  <2>2. reader' # "process"
    <3>1. CASE CheckOpen \/ Poll \/ PollError \/ ReadNothing \/ ProcessPacket
      BY <3>1 DEF CheckOpen, Poll, PollError, ReadNothing, ProcessPacket, Goto
    <3>2. CASE IsDataAvailable
      BY <3>2 DEF IsDataAvailable, Goto
    <3>3. QED
      BY <1>2, <3>1, <3>2 DEF ReaderNext
  <2>3. QED
    BY Zenon, <2>1, <2>2
<1>3. CASE DeviceNext
  BY Zenon, <1>3 DEF DeviceNext, Answer, Unsolicited, Damage
<1>4. CASE UNCHANGED vars
  BY Zenon, <1>4 DEF vars
<1>5. QED
  BY Zenon, <1>1, <1>2, <1>3, <1>4 DEF Next

\* The ways in which the line changes, but for damage: a frame joins it at its end, or the
\* first is decoded, or a close discards them all.
LEMMA LineMoves ==
  ASSUME TypeInv, [Next]_vars, ~Damage
  PROVE  \/ toHost' = toHost
         \/ ClosePort /\ toHost' = <<>>
         \/ (DecodeNext \/ DecodeTorn) /\ toHost # <<>> /\ toHost' = Tail(toHost)
         \/ Answer /\ toHost' = Append(toHost, Response(Head(toDevice)))
         \/ \E kind \in {"LOG", "EVENT"} : Disturb(kind) /\ toHost' = Append(toHost, Message(kind))
<1>1. CASE AppNext
  BY <1>1 DEF AppNext, Open, SendCommand, Written, WriteError, Get, Timeout, Use, ClosePort,
    ForgetPort, Join
<1>2. CASE ReaderNext
  BY <1>2 DEF ReaderNext, CheckOpen, Poll, PollError, IsDataAvailable, ReadNothing, DecodeFirst,
    DecodeNext, DecodeTorn, ProcessPacket, Decoding
<1>3. CASE DeviceNext
  BY <1>3, AnswerFacts, UnsolicitedFacts DEF DeviceNext
<1>4. CASE UNCHANGED vars
  BY <1>4 DEF vars
<1>5. QED
  BY <1>1, <1>2, <1>3, <1>4 DEF Next

\* ... so that every frame on it was there, or is an answer, or a message.
LEMMA LineStep ==
  ASSUME TypeInv, [Next]_vars, ~Damage, NEW i \in 1..Len(toHost')
  PROVE  \/ \E j \in 1..Len(toHost) : toHost'[i] = toHost[j]
         \/ Answer /\ toHost'[i] = Response(Head(toDevice))
         \/ \E kind \in {"LOG", "EVENT"} : Disturb(kind) /\ toHost'[i] = Message(kind)
<1>1. toHost \in Seq(Frame) /\ Len(toHost) \in Nat
  BY TypesAndTorn, LenProperties DEF TypeInv, Types
<1>2. CASE toHost' = toHost
  BY <1>2
<1>3. CASE toHost' = <<>>
  BY <1>3
<1>4. CASE toHost # <<>> /\ toHost' = Tail(toHost)
  <2>1. Len(toHost') = Len(toHost) - 1 /\ toHost'[i] = toHost[i + 1]
    BY <1>1, <1>4, HeadTailProperties
  <2>2. i + 1 \in 1..Len(toHost)
    BY <1>1, <2>1
  <2>3. QED
    BY <2>1, <2>2
<1>5. ASSUME NEW frame \in Frame, toHost' = Append(toHost, frame)
      PROVE  (\E j \in 1..Len(toHost) : toHost'[i] = toHost[j]) \/ toHost'[i] = frame
  <2>1. /\ Len(toHost') = Len(toHost) + 1 /\ toHost'[Len(toHost) + 1] = frame
        /\ \A j \in 1..Len(toHost) : toHost'[j] = toHost[j]
    BY <1>1, <1>5, AppendProperties
  <2>2. i \in 1..Len(toHost) \/ i = Len(toHost) + 1
    BY <1>1, <2>1
  <2>3. QED
    BY <2>1, <2>2
<1>6. CASE Answer /\ toHost' = Append(toHost, Response(Head(toDevice)))
  BY <1>5, <1>6, AnswerFacts
<1>7. CASE \E kind \in {"LOG", "EVENT"} : Disturb(kind) /\ toHost' = Append(toHost, Message(kind))
  <2>1. PICK kind \in {"LOG", "EVENT"} : Disturb(kind) /\ toHost' = Append(toHost, Message(kind))
    BY <1>7
  <2>2. Message(kind) \in Frame
    BY Bounds, SoundCodes DEF Message, Frame, Kind
  <2>3. QED
    BY <1>5, <2>1, <2>2
<1>8. QED
  BY <1>2, <1>3, <1>4, <1>6, <1>7, LineMoves
-----------------------------------------------------------------------------
(***************************************************************************)
(* The reader of an open bus over well-formed traffic.                     *)
(***************************************************************************)
\* Before the bus is open nothing is torn, and no reader runs.
LEMMA WellFormedInit == Init => WellFormed
<1> SUFFICES ASSUME Init PROVE WellFormed
  OBVIOUS
<1>1. ~torn
  BY Zenon DEF Init
<1>2. toHost = <<>> /\ packet.kind = "BLANK" /\ reader = "none"
  BY DEF Init
<1>3. Len(toHost) = 0
  BY <1>2, EmptySeq
<1>4. QED
  BY <1>1, <1>2, <1>3 DEF WellFormed

\* Frames are well formed when they are written, and nothing in between spoils them.
LEMMA WellFormedStep ==
  ASSUME TypeInv, WellFormed, [Next]_vars
  PROVE  WellFormed'
<1> DEFINE harm == {"damaged", "torn"}
<1>1. SUFFICES ASSUME Free(harm)'
               PROVE  /\ ~torn'
                      /\ \A i \in 1..Len(toHost') :
                           toHost'[i].kind # "DAMAGED_LOG" /\ toHost'[i].codes = <<"NONE">>
                      /\ packet'.kind # "DAMAGED_LOG"
                      /\ reader' = "process" => packet'.err = "NONE"
  BY DEF WellFormed
<1>2. harm \subseteq Counted \ {"all"}
  BY DEF Counted, DisturbanceKind
<1>3. ~Damage /\ ~(ClosePort /\ decoded > 0)
  BY <1>1, <1>2, NotFree
<1>4. Free(harm)
  BY <1>1, <1>2, FreeStep
<1> HIDE DEF harm
<1>5. /\ ~torn
      /\ \A i \in 1..Len(toHost) :
           toHost[i].kind # "DAMAGED_LOG" /\ toHost[i].codes = <<"NONE">>
      /\ packet.kind # "DAMAGED_LOG"
      /\ reader = "process" => packet.err = "NONE"
  BY <1>4 DEF WellFormed, harm
<1>6. \A i \in 1..Len(toHost') :
        toHost'[i].kind # "DAMAGED_LOG" /\ toHost'[i].codes = <<"NONE">>
  BY <1>3, <1>5, LineStep DEF Response, Message
<1>7. Types
  BY TypesAndTorn DEF TypeInv
<1>8. CASE DecodeFirst
  <2>1. ~torn'
    BY Zenon, <1>5, <1>8 DEF DecodeFirst
  <2>2. toHost # <<>> /\ packet'.kind = Head(toHost).kind /\ reader' = "top"
    BY <1>8 DEF DecodeFirst, Decoding
  <2>3. packet'.kind # "DAMAGED_LOG"
    BY <1>5, <1>7, <2>2, AtHand, EmptySeq DEF Types
  <2>4. QED
    BY <1>6, <2>1, <2>2, <2>3
<1>9. CASE DecodeNext
  <2>1. ~torn'
    BY Zenon, <1>5, <1>9 DEF DecodeNext
  <2>2. toHost # <<>> /\ decoded \in 1..(MaxExcess + 1)
    BY <1>7, <1>9, Bounds DEF DecodeNext, Decoding, Types
  <2>3. toHost[1].codes = <<"NONE">> /\ Head(toHost) = toHost[1]
    BY <1>5, <1>7, <2>2, AtHand, EmptySeq DEF Types
  <2>4. decoded <= Len(toHost[1].codes)
    BY <1>5, <2>2 DEF TypeInv, Halfway
  <2>5. decoded = 1
    BY <2>2, <2>3, <2>4, Bounds
  <2>6. packet' = [packet EXCEPT !.err = "NONE"]
    BY <1>9, <2>3, <2>5 DEF DecodeNext
  <2>7. packet'.kind = packet.kind /\ packet'.err = "NONE"
    BY <1>7, <2>6 DEF Types, PacketValue
  <2>8. QED
    BY <1>5, <1>6, <2>1, <2>7
<1>10. CASE DecodeTorn
  BY Zenon, <1>5, <1>10 DEF DecodeTorn
<1>11. CASE ~DecodeFirst /\ ~DecodeNext /\ ~DecodeTorn
  <2>1. ~torn'
    BY Zenon, <1>3, <1>5, <1>11, DecoderStep
  <2>2. packet' = packet /\ (reader' = "process" => reader = "process")
    BY <1>11, DecoderStep
  <2>3. QED
    BY <1>5, <1>6, <2>1, <2>2
<1>12. QED
  BY <1>8, <1>9, <1>10, <1>11

\* What is on the line and on the queue has the form the device gave it.
LEMMA WellFormedInvariant == Spec => []WellFormed
BY WellFormedInit, WellFormedStep, TypeInvariant, PTL DEF Spec

\* ReaderSurvives is inductive with it: only a log message that is damaged, or whose text is
\* not UTF-8, makes process_packet raise, and only a port that closes under the reader ends it.
LEMMA SurvivalStep ==
  ASSUME TypeInv, WellFormed, ReaderSurvives, [Next]_vars
  PROVE  ReaderSurvives'
<1> DEFINE harm == {"rawText", "damaged", "torn", "pollError"}
<1>1. SUFFICES ASSUME serial' = "open", Free(harm)'
               PROVE  reader' \notin {"none", "exited", "raised"}
  BY DEF ReaderSurvives
<1>2. harm \subseteq Counted \ {"all"}
  BY DEF Counted, DisturbanceKind
<1>3. ~Disturb("pollError") /\ ~Disturb("rawText")
  BY <1>1, <1>2, NotFree
<1>4. Free(harm)
  BY <1>1, <1>2, FreeStep
<1>5. packet.kind # "DAMAGED_LOG"
  BY <1>4 DEF WellFormed, Free
<1>6. serial = "open" => reader \notin {"none", "exited", "raised"}
  BY <1>4 DEF ReaderSurvives
<1>7. CASE AppNext
  BY <1>1, <1>6, <1>7 DEF AppNext, Open, SendCommand, Written, WriteError, Get, Timeout, Use,
    ClosePort, ForgetPort, Join, TypeInv, Control, appVars
<1>8. CASE ReaderNext
  <2>1. serial' = serial
    BY <1>8 DEF ReaderNext, CheckOpen, Poll, PollError, IsDataAvailable, ReadNothing,
      DecodeFirst, DecodeNext, DecodeTorn, ProcessPacket
  <2>2. CASE CheckOpen \/ Poll \/ IsDataAvailable \/ ReadNothing
    BY <1>1, <2>1, <2>2 DEF CheckOpen, Poll, IsDataAvailable, ReadNothing, Goto, is_open
  <2>3. CASE PollError
    BY <1>3, <2>3 DEF PollError
  <2>4. CASE DecodeFirst \/ DecodeNext \/ DecodeTorn
    BY <2>4 DEF DecodeFirst, DecodeNext, DecodeTorn
  <2>5. CASE ProcessPacket
    BY <1>3, <1>5, <2>5 DEF ProcessPacket, Goto
  <2>6. QED
    BY <1>8, <2>2, <2>3, <2>4, <2>5 DEF ReaderNext
<1>9. CASE DeviceNext
  BY <1>1, <1>6, <1>9 DEF DeviceNext, Answer, Unsolicited, Damage
<1>10. CASE UNCHANGED vars
  BY <1>1, <1>6, <1>10 DEF vars
<1>11. QED
  BY <1>7, <1>8, <1>9, <1>10 DEF Next

\* No response, event or log message in UTF-8 that a device sends, and no close or open of the
\* bus, ends the thread that reads for it: only a frame in error, a POLLERR and a log message
\* whose text is not UTF-8 do (bus.py, incoming_data_thread; unpacker.py, unpack_str).
THEOREM ReaderStaysAlive == Spec => []ReaderSurvives
<1>1. Init => ReaderSurvives
  BY DEF Init, ReaderSurvives
<1>2. QED
  BY <1>1, SurvivalStep, TypeInvariant, WellFormedInvariant, PTL DEF Spec
-----------------------------------------------------------------------------
(***************************************************************************)
(* The order of the responses on their way.                                *)
(***************************************************************************)

\* Of frames that are whole, and no events, only answers and log messages are decoded.
LEMMA NothingElseStep ==
  ASSUME TypeInv, WellFormed, Free({"damaged", "torn"}), NothingElse,
         [Next]_vars, ~Damage, ~Disturb("EVENT")
  PROVE  NothingElse'
<1>1. Types
  BY TypesAndTorn DEF TypeInv
<1>2. ~torn
  BY DEF WellFormed
<1>3. \A i \in 1..Len(toHost') : toHost'[i].kind # "EVENT"
  BY LineStep DEF NothingElse, Response, Message
<1>4. CASE DecodeFirst
  <2>1. toHost # <<>> /\ toHost \in Seq(Frame) /\ packet'.kind = Head(toHost).kind /\ reader' = "top"
    BY <1>1, <1>4 DEF DecodeFirst, Decoding, Types
  <2>2. packet'.kind # "EVENT"
    BY <2>1, AtHand, EmptySeq DEF NothingElse
  <2>3. QED
    BY <1>3, <2>1, <2>2 DEF NothingElse
<1>5. CASE DecodeNext
  <2>1. toHost # <<>> /\ toHost \in Seq(Frame) /\ decoded > 0
    BY <1>1, <1>5 DEF DecodeNext, Decoding, Types
  <2>2. packet.kind = toHost[1].kind /\ toHost[1].kind \in Kind
    BY <1>2, <2>1, AtHand DEF TypeInv, Halfway, Frame
  <2>3. PICK err : packet' = [packet EXCEPT !.err = err]
    BY <1>5 DEF DecodeNext
  <2>4. packet'.kind = packet.kind
    BY <1>1, <2>3 DEF Types, PacketValue
  <2>5. packet'.kind # "EVENT" /\ packet'.kind # "BLANK"
    BY <2>2, <2>4 DEF NothingElse, Kind
  <2>6. QED
    BY <1>3, <2>5 DEF NothingElse
<1>6. CASE DecodeTorn
  BY Zenon, <1>2, <1>6 DEF DecodeTorn
<1>7. CASE ~DecodeFirst /\ ~DecodeNext /\ ~DecodeTorn
  BY <1>3, <1>7, DecoderStep DEF NothingElse
<1>8. QED
  BY <1>4, <1>5, <1>6, <1>7

\* An entry joins the queue.
LEMMA QueueAppend ==
  ASSUME recv_queue \in Seq(PacketValue), QueueInOrder, NEW p, recv_queue' = Append(recv_queue, p),
         Before(QueuedNumbers, {p.n}), p \in PacketValue
  PROVE  QueueInOrder' /\ QueuedNumbers' \subseteq QueuedNumbers \cup {p.n}
<1>1. PICK len \in Nat : len = Len(recv_queue)
  BY LenProperties
<1>2. /\ Len(recv_queue') = len + 1 /\ recv_queue'[len + 1] = p
      /\ \A i \in 1..len : recv_queue'[i] = recv_queue[i]
  BY <1>1, AppendProperties
<1>3. \A i \in 1..(len + 1) : i \in 1..len \/ i = len + 1
  BY <1>1
<1>4. \A i \in 1..len : recv_queue[i].n \in QueuedNumbers /\ recv_queue[i].n < p.n
  BY <1>1 DEF QueuedNumbers, Before
<1>5. ASSUME NEW i \in 1..(len + 1), NEW j \in 1..(len + 1), i < j
      PROVE  recv_queue'[i].n < recv_queue'[j].n
  <2>1. i \in 1..len
    BY <1>5
  <2>2. CASE j \in 1..len
    BY <1>1, <1>2, <1>5, <2>1, <2>2 DEF QueueInOrder
  <2>3. CASE j = len + 1
    BY <1>2, <1>4, <2>1, <2>3
  <2>4. QED
    BY <1>3, <2>2, <2>3
<1>6. QueueInOrder'
  BY <1>2, <1>5 DEF QueueInOrder
<1>7. QueuedNumbers' \subseteq QueuedNumbers \cup {p.n}
  BY <1>2, <1>3, <1>4 DEF QueuedNumbers
<1>8. QED
  BY <1>6, <1>7

\* The first entry leaves the queue.
LEMMA QueueTail ==
  ASSUME recv_queue \in Seq(PacketValue), recv_queue # <<>>, recv_queue' = Tail(recv_queue),
         QueueInOrder
  PROVE  QueueInOrder' /\ QueuedNumbers' \subseteq QueuedNumbers
<1>1. PICK len \in Nat \ {0} : len = Len(recv_queue)
  BY EmptySeq
<1>2. Len(recv_queue') = len - 1 /\ \A i \in 1..(len - 1) : recv_queue'[i] = recv_queue[i + 1]
  BY <1>1, HeadTailProperties
<1>3. \A i \in 1..(len - 1) : i + 1 \in 1..len
  BY <1>1
<1>4. \A i, j \in 1..(len - 1) : i < j => recv_queue'[i].n < recv_queue'[j].n
  <2>1. SUFFICES ASSUME NEW i \in 1..(len - 1), NEW j \in 1..(len - 1), i < j
                 PROVE  recv_queue'[i].n < recv_queue'[j].n
    OBVIOUS
  <2>2. i + 1 < j + 1
    BY <2>1
  <2>3. QED
    BY <1>1, <1>2, <1>3, <2>2 DEF QueueInOrder
<1>5. QED
  BY <1>1, <1>2, <1>3, <1>4 DEF QueueInOrder, QueuedNumbers

\* A frame joins the line.
LEMMA LineAppended ==
  ASSUME toHost \in Seq(Frame), LineInOrder, NEW frame \in Frame, toHost' = Append(toHost, frame),
         frame.kind = "RSP" => Before(LineNumbers, {frame.n})
  PROVE  /\ LineInOrder'
         /\ frame.kind = "RSP" => LineNumbers' \subseteq LineNumbers \cup {frame.n}
         /\ frame.kind # "RSP" => LineNumbers' \subseteq LineNumbers
<1>1. PICK len \in Nat : len = Len(toHost)
  BY LenProperties
<1>2. /\ Len(toHost') = len + 1 /\ toHost'[len + 1] = frame
      /\ \A i \in 1..len : toHost'[i] = toHost[i]
  BY <1>1, AppendProperties
<1>3. \A i \in 1..(len + 1) : i \in 1..len \/ i = len + 1
  BY <1>1
<1>4. \A i \in 1..len : toHost[i].kind = "RSP" => toHost[i].n \in LineNumbers
  BY <1>1 DEF LineNumbers, OnLine
<1>5. ASSUME NEW i \in 1..(len + 1), NEW j \in 1..(len + 1), i < j,
             toHost'[i].kind = "RSP", toHost'[j].kind = "RSP"
      PROVE  toHost'[i].n < toHost'[j].n
  <2>1. i \in 1..len
    BY <1>5
  <2>2. CASE j \in 1..len
    BY <1>1, <1>2, <1>5, <2>1, <2>2 DEF LineInOrder, OnLine
  <2>3. CASE j = len + 1
    BY <1>2, <1>4, <1>5, <2>1, <2>3 DEF Before
  <2>4. QED
    BY <1>3, <2>2, <2>3
<1>6. LineInOrder'
  BY <1>2, <1>5 DEF LineInOrder, OnLine
<1>7. ASSUME NEW a \in LineNumbers'
      PROVE  a \in LineNumbers \/ (frame.kind = "RSP" /\ a = frame.n)
  <2>1. PICK i \in 1..(len + 1) : toHost'[i].kind = "RSP" /\ a = toHost'[i].n
    BY <1>2 DEF LineNumbers, OnLine
  <2>2. QED
    BY <1>2, <1>3, <1>4, <2>1
<1>8. QED
  BY <1>6, <1>7

\* The first frame leaves the line: its response comes before all that stay.
LEMMA LineTaken ==
  ASSUME toHost \in Seq(Frame), toHost # <<>>, toHost' = Tail(toHost), LineInOrder
  PROVE  /\ LineInOrder' /\ LineNumbers' \subseteq LineNumbers
         /\ toHost[1].kind = "RSP" => toHost[1].n \in LineNumbers /\ Before({toHost[1].n}, LineNumbers')
<1>1. PICK len \in Nat \ {0} : len = Len(toHost)
  BY EmptySeq
<1>2. Len(toHost') = len - 1 /\ \A i \in 1..(len - 1) : toHost'[i] = toHost[i + 1]
  BY <1>1, HeadTailProperties
<1>3. \A i \in 1..(len - 1) : i + 1 \in 1..len /\ 1 < i + 1
  BY <1>1
<1>4. 1 \in 1..len
  BY <1>1
<1>5. ASSUME NEW i \in 1..(len - 1), NEW j \in 1..(len - 1), i < j,
             toHost'[i].kind = "RSP", toHost'[j].kind = "RSP"
      PROVE  toHost'[i].n < toHost'[j].n
  <2>1. i + 1 < j + 1
    BY <1>5
  <2>2. QED
    BY <1>1, <1>2, <1>3, <1>5, <2>1 DEF LineInOrder, OnLine
<1>6. LineInOrder'
  BY <1>2, <1>5 DEF LineInOrder, OnLine
<1>7. ASSUME NEW a \in LineNumbers'
      PROVE  a \in LineNumbers /\ (toHost[1].kind = "RSP" => toHost[1].n < a)
  <2>1. PICK i \in 1..(len - 1) : toHost[i + 1].kind = "RSP" /\ a = toHost[i + 1].n
    BY <1>2 DEF LineNumbers, OnLine
  <2>2. QED
    BY <1>1, <1>3, <1>4, <2>1 DEF LineNumbers, LineInOrder, OnLine
<1>8. toHost[1].kind = "RSP" => toHost[1].n \in LineNumbers
  BY <1>1, <1>4 DEF LineNumbers, OnLine
<1>9. QED
  BY <1>6, <1>7, <1>8 DEF Before

\* A command reaches the device.
LEMMA DeviceAppended ==
  ASSUME toDevice \in Seq(1..MaxCommands), DeviceInOrder, NEW m \in 1..MaxCommands,
         toDevice' = Append(toDevice, m), Before(DeviceNumbers, {m})
  PROVE  DeviceInOrder' /\ DeviceNumbers' \subseteq DeviceNumbers \cup {m}
<1>1. PICK len \in Nat : len = Len(toDevice)
  BY LenProperties
<1>2. /\ Len(toDevice') = len + 1 /\ toDevice'[len + 1] = m
      /\ \A i \in 1..len : toDevice'[i] = toDevice[i]
  BY <1>1, AppendProperties
<1>3. \A i \in 1..(len + 1) : i \in 1..len \/ i = len + 1
  BY <1>1
<1>4. \A i \in 1..len : toDevice[i] \in DeviceNumbers /\ toDevice[i] < m
  BY <1>1 DEF DeviceNumbers, Before
<1>5. ASSUME NEW i \in 1..(len + 1), NEW j \in 1..(len + 1), i < j
      PROVE  toDevice'[i] < toDevice'[j]
  <2>1. i \in 1..len
    BY <1>5
  <2>2. CASE j \in 1..len
    BY <1>1, <1>2, <1>5, <2>1, <2>2 DEF DeviceInOrder
  <2>3. CASE j = len + 1
    BY <1>2, <1>4, <2>1, <2>3
  <2>4. QED
    BY <1>3, <2>2, <2>3
<1>6. DeviceInOrder'
  BY <1>2, <1>5 DEF DeviceInOrder
<1>7. DeviceNumbers' \subseteq DeviceNumbers \cup {m}
  BY <1>2, <1>3, <1>4 DEF DeviceNumbers
<1>8. QED
  BY <1>6, <1>7

\* The first command is dealt with: it comes before all that wait.
LEMMA DeviceTaken ==
  ASSUME toDevice \in Seq(1..MaxCommands), toDevice # <<>>, toDevice' = Tail(toDevice), DeviceInOrder
  PROVE  /\ DeviceInOrder' /\ DeviceNumbers' \subseteq DeviceNumbers
         /\ Head(toDevice) \in DeviceNumbers /\ Before({Head(toDevice)}, DeviceNumbers')
<1>1. PICK len \in Nat \ {0} : len = Len(toDevice)
  BY EmptySeq
<1>2. Len(toDevice') = len - 1 /\ \A i \in 1..(len - 1) : toDevice'[i] = toDevice[i + 1]
  BY <1>1, HeadTailProperties
<1>3. \A i \in 1..(len - 1) : i + 1 \in 1..len /\ 1 < i + 1
  BY <1>1
<1>4. 1 \in 1..len /\ Head(toDevice) = toDevice[1]
  BY <1>1
<1>5. ASSUME NEW i \in 1..(len - 1), NEW j \in 1..(len - 1), i < j
      PROVE  toDevice'[i] < toDevice'[j]
  <2>1. i + 1 < j + 1
    BY <1>5
  <2>2. QED
    BY <1>1, <1>2, <1>3, <2>1 DEF DeviceInOrder
<1>6. DeviceInOrder'
  BY <1>2, <1>5 DEF DeviceInOrder
<1>7. ASSUME NEW a \in DeviceNumbers' PROVE a \in DeviceNumbers /\ toDevice[1] < a
  <2>1. PICK i \in 1..(len - 1) : a = toDevice[i + 1]
    BY <1>2 DEF DeviceNumbers
  <2>2. QED
    BY <1>1, <1>3, <1>4, <2>1 DEF DeviceNumbers, DeviceInOrder
<1>8. toDevice[1] \in DeviceNumbers
  BY <1>1, <1>4 DEF DeviceNumbers
<1>9. QED
  BY <1>4, <1>6, <1>7, <1>8 DEF Before

\* A step that adds no number to any place keeps the order.
LEMMA OrderKept ==
  ASSUME TypeInv, InOrder, n' \in Nat, n <= n', app' = "writing" => n < n' \/ (app = "writing" /\ n' = n),
         QueueInOrder', LineInOrder', DeviceInOrder',
         QueuedNumbers' \subseteq QueuedNumbers, HeldNumbers' \subseteq HeldNumbers,
         LineNumbers' \subseteq LineNumbers, DeviceNumbers' \subseteq DeviceNumbers
  PROVE  InOrder'
<1>1. n \in Nat
  BY TypesAndTorn, Bounds DEF TypeInv, Types
<1>2. AllNumbers' \subseteq AllNumbers
  BY DEF AllNumbers
<1>3. /\ Before(QueuedNumbers, HeldNumbers \cup LineNumbers \cup DeviceNumbers)'
      /\ Before(HeldNumbers, LineNumbers \cup DeviceNumbers)'
      /\ Before(LineNumbers, DeviceNumbers)'
  BY DEF InOrder, Before
<1>4. AllNumbers' \subseteq 1..n'
  BY <1>1, <1>2 DEF InOrder
<1>5. app' = "writing" => Before(AllNumbers, {n})'
  <2>1. SUFFICES ASSUME app' = "writing", NEW a \in AllNumbers' PROVE a < n'
    BY DEF Before
  <2>2. a \in AllNumbers /\ a \in 1..n
    BY <1>2 DEF InOrder
  <2>3. app = "writing" => a < n
    BY <2>2 DEF InOrder, Before
  <2>4. QED
    BY <1>1, <2>1, <2>2, <2>3
<1>6. QED
  BY <1>3, <1>4, <1>5 DEF InOrder

\* The application adds a new command behind all others, or takes an entry.
LEMMA OrderApp ==
  ASSUME TypeInv, InOrder, AppNext
  PROVE  InOrder'
<1> USE DEF decoderVars, appVars
<1>1. Types
  BY TypesAndTorn DEF TypeInv
<1>2. n \in Nat /\ n' \in Nat /\ n <= n' /\ (app' = "writing" => n < n')
  <2>1. n \in Nat
    BY <1>1, Bounds DEF Types
  <2>2. (n' = n /\ app' # "writing") \/ n' = n + 1
    BY DEF AppNext, Open, SendCommand, Written, WriteError, Get, Timeout, Use, ClosePort,
      ForgetPort, Join, Return
  <2>3. QED
    BY <2>1, <2>2
<1>3. /\ packet' = packet
      /\ reader' = "process" => reader = "process"
      /\ toHost' = toHost \/ toHost' = <<>>
  BY DEF AppNext, Open, SendCommand, Written, WriteError, Get, Timeout, Use, ClosePort,
    ForgetPort, Join
<1>4. HeldNumbers' \subseteq HeldNumbers
  BY <1>3 DEF HeldNumbers, InHand
<1>5. LineInOrder' /\ LineNumbers' \subseteq LineNumbers
  <2>1. Len(<<>>) = 0
    BY EmptySeq
  <2>2. QED
    BY <1>3, <2>1 DEF InOrder, LineInOrder, LineNumbers, OnLine
<1>6. CASE toDevice' = Append(toDevice, n) /\ app = "writing" /\ recv_queue' = recv_queue
           /\ n' = n /\ app' # "writing"
  <2>1. toDevice \in Seq(1..MaxCommands) /\ n \in 1..MaxCommands
    BY <1>1, <1>6 DEF Types, TypeInv, Control
  <2>2. Before(AllNumbers, {n})
    BY <1>6 DEF InOrder
  <2>3. DeviceInOrder' /\ DeviceNumbers' \subseteq DeviceNumbers \cup {n}
    BY <1>6, <2>1, <2>2, DeviceAppended DEF InOrder, Before, AllNumbers
  <2>4. QueueInOrder' /\ QueuedNumbers' = QueuedNumbers
    BY <1>6 DEF InOrder, QueueInOrder, QueuedNumbers
  <2>5. /\ Before(QueuedNumbers, HeldNumbers \cup LineNumbers \cup DeviceNumbers)'
        /\ Before(HeldNumbers, LineNumbers \cup DeviceNumbers)'
        /\ Before(LineNumbers, DeviceNumbers)'
    BY <1>4, <1>5, <2>2, <2>3, <2>4 DEF InOrder, Before, AllNumbers
  <2>6. AllNumbers' \subseteq AllNumbers \cup {n}
    BY <1>4, <1>5, <2>3, <2>4 DEF AllNumbers
  <2>7. AllNumbers' \subseteq 1..n'
    <3>1. n \in 1..n'
      BY <1>6, <2>1
    <3>2. QED
      BY <1>6, <2>6, <3>1 DEF InOrder
  <2>8. QED
    BY <1>5, <1>6, <2>3, <2>4, <2>5, <2>7 DEF InOrder
<1>7. CASE Get
  <2>1. recv_queue \in Seq(PacketValue) /\ recv_queue # <<>> /\ recv_queue' = Tail(recv_queue) /\ toDevice' = toDevice
    BY <1>1, <1>7 DEF Get, Types
  <2>2. QueueInOrder' /\ QueuedNumbers' \subseteq QueuedNumbers
    BY <2>1, QueueTail DEF InOrder
  <2>3. DeviceInOrder' /\ DeviceNumbers' = DeviceNumbers
    BY <2>1 DEF InOrder, DeviceInOrder, DeviceNumbers
  <2>4. QED
    BY <1>2, <1>4, <1>5, <2>2, <2>3, OrderKept
<1>8. CASE toDevice' = toDevice /\ recv_queue' = recv_queue
  <2>1. QueueInOrder' /\ QueuedNumbers' = QueuedNumbers
    BY <1>8 DEF InOrder, QueueInOrder, QueuedNumbers
  <2>2. DeviceInOrder' /\ DeviceNumbers' = DeviceNumbers
    BY <1>8 DEF InOrder, DeviceInOrder, DeviceNumbers
  <2>3. QED
    BY <1>2, <1>4, <1>5, <2>1, <2>2, OrderKept
<1>9. QED
  BY <1>6, <1>7, <1>8 DEF AppNext, Open, SendCommand, Written, WriteError, Get, Timeout, Use,
    ClosePort, ForgetPort, Join, Return

\* The reader decodes the first response on the line and appends it to the queue.
LEMMA OrderReader ==
  ASSUME TypeInv, WellFormed, Free({"damaged", "torn"}), NothingElse, AllAnswers, InOrder, ReaderNext
  PROVE  AllAnswers' /\ InOrder'
<1> USE DEF decoderVars, appVars
<1>1. Types
  BY TypesAndTorn DEF TypeInv
<1>2. ~torn /\ (reader = "process" => packet.err = "NONE" /\ packet.kind # "DAMAGED_LOG")
  BY DEF WellFormed
<1>3. toDevice' = toDevice /\ app' = app /\ n' = n /\ n \in Nat
  BY <1>1, Bounds DEF ReaderNext, CheckOpen, Poll, PollError, IsDataAvailable, ReadNothing,
    DecodeFirst, DecodeNext, DecodeTorn, ProcessPacket, Types
<1>4. DeviceInOrder' /\ DeviceNumbers' = DeviceNumbers
  BY <1>3 DEF InOrder, DeviceInOrder, DeviceNumbers
<1>5. CASE DecodeNext
  <2>1. toHost # <<>> /\ toHost \in Seq(Frame) /\ decoded > 0
    BY <1>1, <1>5 DEF DecodeNext, Decoding, Types
  <2>2. packet.kind = toHost[1].kind /\ packet.n = toHost[1].n
    BY <1>2, <2>1 DEF TypeInv, Halfway
  <2>3. PICK err : packet' = [packet EXCEPT !.err = err]
    BY <1>5 DEF DecodeNext
  <2>4. packet'.kind = toHost[1].kind /\ packet'.n = toHost[1].n
    BY <1>1, <2>2, <2>3 DEF Types, PacketValue
  <2>5. reader = "read" /\ recv_queue' = recv_queue
    BY <1>5 DEF DecodeNext, Decoding
  <2>6. AllAnswers' /\ QueueInOrder' /\ QueuedNumbers' = QueuedNumbers
    BY <2>5 DEF AllAnswers, InOrder, QueueInOrder, QueuedNumbers
  <2>7. toHost' = Tail(toHost)
    <3>1. toHost[1].codes = <<"NONE">> /\ decoded <= Len(toHost[1].codes)
      <4>1. 1 \in 1..Len(toHost)
        BY <2>1, EmptySeq
      <4>2. QED
        BY <1>2, <2>1, <4>1 DEF WellFormed, TypeInv, Halfway
    <3>2. decoded = Len(toHost[1].codes)
      BY <1>1, <2>1, <3>1, Bounds DEF Types
    <3>3. QED
      BY <1>5, <2>1, <3>2, AtHand DEF DecodeNext
  <2>8. /\ LineInOrder' /\ LineNumbers' \subseteq LineNumbers
        /\ toHost[1].kind = "RSP" => toHost[1].n \in LineNumbers /\ Before({toHost[1].n}, LineNumbers')
    BY <2>1, <2>7, LineTaken DEF InOrder
  <2>9. CASE toHost[1].kind # "RSP"
    <3>1. HeldNumbers' \subseteq HeldNumbers
      BY <2>4, <2>9 DEF HeldNumbers, InHand
    <3>2. InOrder'
      BY <1>3, <1>4, <2>6, <2>8, <3>1, OrderKept
    <3>3. QED
      BY <2>6, <3>2
  <2>10. CASE toHost[1].kind = "RSP"
    <3>1. HeldNumbers' \subseteq {toHost[1].n}
      BY <2>4 DEF HeldNumbers
    <3>2. /\ Before(QueuedNumbers, HeldNumbers \cup LineNumbers \cup DeviceNumbers)'
          /\ Before(HeldNumbers, LineNumbers \cup DeviceNumbers)'
          /\ Before(LineNumbers, DeviceNumbers)'
      BY <1>4, <2>6, <2>8, <2>10, <3>1 DEF InOrder, Before
    <3>3. AllNumbers' \subseteq AllNumbers
      BY <1>4, <2>6, <2>8, <2>10, <3>1 DEF AllNumbers
    <3>4. AllNumbers' \subseteq 1..n' /\ (app' = "writing" => Before(AllNumbers, {n})')
      BY <1>3, <3>3 DEF InOrder, Before
    <3>5. QED
      BY <1>4, <2>6, <2>8, <3>2, <3>4 DEF InOrder
  <2>11. QED
    BY <2>9, <2>10
<1>6. CASE DecodeTorn
  BY Zenon, <1>2, <1>6 DEF DecodeTorn
<1>7. CASE ProcessPacket
  <2>1. /\ reader = "process" /\ reader' # "process" /\ packet' = packet /\ toHost' = toHost
        /\ packet \in PacketValue /\ recv_queue \in Seq(PacketValue)
    BY <1>1, <1>7 DEF ProcessPacket, Goto, Types
  <2>2. HeldNumbers' = {} /\ LineInOrder' /\ LineNumbers' = LineNumbers
    BY <2>1 DEF HeldNumbers, InHand, InOrder, LineInOrder, LineNumbers, OnLine
  <2>3. packet.kind \in {"RSP", "LOG"} /\ packet.err = "NONE"
    BY <1>2, <2>1 DEF NothingElse, PacketValue, Kind
  <2>4. CASE packet.kind = "LOG"
    <3>1. recv_queue' = recv_queue
      BY <1>7, <2>4 DEF ProcessPacket
    <3>2. AllAnswers' /\ QueueInOrder' /\ QueuedNumbers' = QueuedNumbers
      BY <3>1 DEF AllAnswers, InOrder, QueueInOrder, QueuedNumbers
    <3>3. QED
      BY <1>3, <1>4, <2>2, <3>2, OrderKept
  <2>5. CASE packet.kind = "RSP"
    <3>1. recv_queue' = Append(recv_queue, packet) /\ HeldNumbers = {packet.n}
      BY <1>7, <2>1, <2>5 DEF ProcessPacket, HeldNumbers, InHand
    <3>2. Before(QueuedNumbers, {packet.n})
      BY <3>1 DEF InOrder, Before
    <3>3. QueueInOrder' /\ QueuedNumbers' \subseteq QueuedNumbers \cup {packet.n}
      BY <2>1, <3>1, <3>2, QueueAppend DEF InOrder
    <3>4. packet = [kind |-> "RSP", n |-> packet.n, err |-> "NONE"]
      BY <2>1, <2>3, <2>5 DEF PacketValue
    <3>5. AllAnswers'
      <4>1. PICK len \in Nat : len = Len(recv_queue)
        BY <2>1, LenProperties
      <4>2. /\ Len(recv_queue') = len + 1 /\ recv_queue'[len + 1] = packet
            /\ \A i \in 1..len : recv_queue'[i] = recv_queue[i]
        BY <2>1, <3>1, <4>1, AppendProperties
      <4>3. \A i \in 1..(len + 1) : i \in 1..len \/ i = len + 1
        BY <4>1
      <4>4. \A i \in 1..len : recv_queue[i] = [kind |-> "RSP", n |-> recv_queue[i].n, err |-> "NONE"]
        BY <4>1 DEF AllAnswers
      <4>5. \A i \in 1..(len + 1) :
              recv_queue'[i] = [kind |-> "RSP", n |-> recv_queue'[i].n, err |-> "NONE"]
        BY Zenon, <3>4, <4>2, <4>3, <4>4
      <4>6. QED
        BY Zenon, <4>2, <4>5 DEF AllAnswers
    <3>6. /\ Before(QueuedNumbers, HeldNumbers \cup LineNumbers \cup DeviceNumbers)'
          /\ Before(HeldNumbers, LineNumbers \cup DeviceNumbers)'
          /\ Before(LineNumbers, DeviceNumbers)'
      BY <1>4, <2>2, <3>1, <3>3 DEF InOrder, Before
    <3>7. AllNumbers' \subseteq AllNumbers
      BY <1>4, <2>2, <3>1, <3>3 DEF AllNumbers
    <3>8. AllNumbers' \subseteq 1..n' /\ (app' = "writing" => Before(AllNumbers, {n})')
      BY <1>3, <3>7 DEF InOrder, Before
    <3>9. QED
      BY <1>4, <2>2, <3>3, <3>5, <3>6, <3>8 DEF InOrder
  <2>6. QED
    BY <2>3, <2>4, <2>5
<1>8. CASE ReaderNext /\ ~DecodeNext /\ ~DecodeTorn /\ ~ProcessPacket
  <2>1. reader' # "process" /\ toHost' = toHost /\ recv_queue' = recv_queue
    <3>1. CASE CheckOpen \/ Poll \/ PollError \/ ReadNothing
      BY <3>1 DEF CheckOpen, Poll, PollError, ReadNothing, Goto
    <3>2. CASE IsDataAvailable
      BY <3>2 DEF IsDataAvailable, Goto
    <3>3. CASE DecodeFirst
      BY <3>3 DEF DecodeFirst, Decoding
    <3>4. QED
      BY <1>8, <3>1, <3>2, <3>3 DEF ReaderNext
  <2>2. HeldNumbers' = {} /\ LineInOrder' /\ LineNumbers' = LineNumbers
    BY <2>1 DEF HeldNumbers, InHand, InOrder, LineInOrder, LineNumbers, OnLine
  <2>3. AllAnswers' /\ QueueInOrder' /\ QueuedNumbers' = QueuedNumbers
    BY <2>1 DEF AllAnswers, InOrder, QueueInOrder, QueuedNumbers
  <2>4. QED
    BY <1>3, <1>4, <2>2, <2>3, OrderKept
<1>9. QED
  BY <1>5, <1>6, <1>7, <1>8

\* The device answers its first command, if it answers it, behind all answers on the line.
LEMMA OrderDevice ==
  ASSUME TypeInv, InOrder, DeviceNext, ~Damage
  PROVE  InOrder'
<1>1. Types
  BY TypesAndTorn DEF TypeInv
<1>2. /\ app' = app /\ n' = n /\ reader' = reader /\ packet' = packet /\ recv_queue' = recv_queue
      /\ n \in Nat
  BY <1>1, Bounds DEF DeviceNext, Answer, Unsolicited, Damage, appVars, decoderVars, Types
<1>3. QueueInOrder' /\ QueuedNumbers' = QueuedNumbers /\ HeldNumbers' = HeldNumbers
  BY <1>2 DEF InOrder, QueueInOrder, QueuedNumbers, HeldNumbers, InHand
<1>4. toHost \in Seq(Frame) /\ toDevice \in Seq(1..MaxCommands)
  BY <1>1 DEF Types
<1>5. CASE Answer
  <2>1. toDevice # <<>> /\ toDevice' = Tail(toDevice)
    BY <1>5, AnswerFacts
  <2>2. /\ DeviceInOrder' /\ DeviceNumbers' \subseteq DeviceNumbers
        /\ Head(toDevice) \in DeviceNumbers /\ Before({Head(toDevice)}, DeviceNumbers')
    BY <1>4, <2>1, DeviceTaken DEF InOrder
  <2>3. CASE toHost' = toHost
    <3>1. LineInOrder' /\ LineNumbers' = LineNumbers
      BY <2>3 DEF InOrder, LineInOrder, LineNumbers, OnLine
    <3>2. QED
      BY <1>2, <1>3, <2>2, <3>1, OrderKept
  <2>4. CASE toHost' = Append(toHost, Response(Head(toDevice)))
    <3>1. PICK frame \in Frame : /\ frame.kind = "RSP" /\ frame.n = Head(toDevice)
                                 /\ toHost' = Append(toHost, frame)
      BY <1>5, <2>4, AnswerFacts DEF Response
    <3>2. Before(LineNumbers, {frame.n})
      BY <2>2, <3>1 DEF InOrder, Before
    <3>3. LineInOrder' /\ LineNumbers' \subseteq LineNumbers \cup {Head(toDevice)}
      BY <1>4, <3>1, <3>2, LineAppended DEF InOrder
    <3>4. /\ Before(QueuedNumbers, HeldNumbers \cup LineNumbers \cup DeviceNumbers)'
          /\ Before(HeldNumbers, LineNumbers \cup DeviceNumbers)'
          /\ Before(LineNumbers, DeviceNumbers)'
      BY <1>3, <2>2, <3>3 DEF InOrder, Before
    <3>5. AllNumbers' \subseteq AllNumbers
      BY <1>3, <2>2, <3>3 DEF AllNumbers
    <3>6. AllNumbers' \subseteq 1..n' /\ (app' = "writing" => Before(AllNumbers, {n})')
      BY <1>2, <3>5 DEF InOrder, Before
    <3>7. QED
      BY <1>3, <2>2, <3>3, <3>4, <3>6 DEF InOrder
  <2>5. QED
    BY <1>5, <2>3, <2>4, AnswerFacts
<1>6. CASE Unsolicited
  <2>1. PICK frame \in Frame : /\ frame.kind # "RSP" /\ toHost' = Append(toHost, frame)
                               /\ toDevice' = toDevice
    BY <1>6, UnsolicitedFacts DEF Message
  <2>2. LineInOrder' /\ LineNumbers' \subseteq LineNumbers
    BY <1>4, <2>1, LineAppended DEF InOrder
  <2>3. DeviceInOrder' /\ DeviceNumbers' = DeviceNumbers
    BY <2>1 DEF InOrder, DeviceInOrder, DeviceNumbers
  <2>4. QED
    BY <1>2, <1>3, <2>2, <2>3, OrderKept
<1>7. QED
  BY <1>5, <1>6 DEF DeviceNext

\* The inductive step of Orderly.
LEMMA OrderStep ==
  ASSUME TypeInv, WellFormed, Orderly, [Next]_vars
  PROVE  Orderly'
<1> DEFINE harm == {"EVENT", "damaged", "torn"}
<1>1. SUFFICES ASSUME Free(harm)' PROVE NothingElse' /\ AllAnswers' /\ InOrder'
  BY DEF Orderly
<1>2. harm \subseteq Counted \ {"all"}
  BY DEF Counted, DisturbanceKind
<1>3. Free(harm)
  BY <1>1, <1>2, FreeStep
<1>4. ~Damage /\ ~Disturb("EVENT")
  BY <1>1, <1>2, NotFree
<1>5. NothingElse /\ AllAnswers /\ InOrder /\ Free({"damaged", "torn"})
  BY <1>3 DEF Orderly, Free
<1>6. NothingElse'
  BY <1>4, <1>5, NothingElseStep
<1>7. CASE AppNext
  <2>1. recv_queue' = recv_queue \/ (Get /\ recv_queue' = Tail(recv_queue))
    BY <1>7 DEF AppNext, Open, SendCommand, Written, WriteError, Get, Timeout, Use, ClosePort,
      ForgetPort, Join
  <2>2. AllAnswers'
    <3>1. CASE recv_queue' = recv_queue
      BY <1>5, <3>1 DEF AllAnswers
    <3>2. CASE Get /\ recv_queue' = Tail(recv_queue)
      <4>1. recv_queue \in Seq(PacketValue) /\ recv_queue # <<>>
        BY <3>2, TypesAndTorn DEF TypeInv, Types, Get
      <4>2. PICK len \in Nat \ {0} : len = Len(recv_queue)
        BY <4>1, EmptySeq
      <4>3. /\ Len(recv_queue') = len - 1
            /\ \A i \in 1..(len - 1) : i + 1 \in 1..len /\ recv_queue'[i] = recv_queue[i + 1]
        BY <3>2, <4>1, <4>2, HeadTailProperties
      <4>4. \A i \in 1..len : recv_queue[i] = [kind |-> "RSP", n |-> recv_queue[i].n, err |-> "NONE"]
        BY Zenon, <1>5, <4>2 DEF AllAnswers
      <4>5. \A i \in 1..(len - 1) :
              recv_queue'[i] = [kind |-> "RSP", n |-> recv_queue'[i].n, err |-> "NONE"]
        BY Zenon, <4>3, <4>4
      <4>6. QED
        BY Zenon, <4>3, <4>5 DEF AllAnswers
    <3>3. QED
      BY <2>1, <3>1, <3>2
  <2>3. QED
    BY <1>5, <1>6, <1>7, <2>2, OrderApp
<1>8. CASE ReaderNext
  BY <1>5, <1>6, <1>8, OrderReader
<1>9. CASE DeviceNext
  <2>1. recv_queue' = recv_queue
    BY <1>9 DEF DeviceNext, Answer, Unsolicited, Damage
  <2>2. AllAnswers'
    BY <1>5, <2>1 DEF AllAnswers
  <2>3. QED
    BY <1>4, <1>5, <1>6, <1>9, <2>2, OrderDevice
<1>10. CASE UNCHANGED vars
  <2>1. AllAnswers'
    BY <1>5, <1>10 DEF vars, AllAnswers
  <2>2. /\ QueuedNumbers' = QueuedNumbers /\ HeldNumbers' = HeldNumbers
        /\ LineNumbers' = LineNumbers /\ DeviceNumbers' = DeviceNumbers
        /\ QueueInOrder' /\ LineInOrder' /\ DeviceInOrder' /\ n' = n /\ app' = app /\ n \in Nat
    BY <1>5, <1>10, TypesAndTorn, Bounds DEF vars, InOrder, QueuedNumbers, HeldNumbers, LineNumbers,
      DeviceNumbers, QueueInOrder, LineInOrder, DeviceInOrder, InHand, OnLine, TypeInv, Types
  <2>3. InOrder'
    BY <1>5, <2>2, OrderKept
  <2>4. QED
    BY <1>6, <2>1, <2>3
<1>11. QED
  BY <1>7, <1>8, <1>9, <1>10 DEF Next

\* The responses on their way are in order.
LEMMA OrderInvariant == Spec => []Orderly
<1>1. Init => Orderly
  <2> SUFFICES ASSUME Init PROVE NothingElse /\ AllAnswers /\ InOrder
    BY DEF Orderly
  <2>1. Len(toHost) = 0 /\ Len(recv_queue) = 0 /\ Len(toDevice) = 0
    BY EmptySeq DEF Init
  <2>2. reader = "none" /\ packet.kind = "BLANK" /\ app = "idle"
    BY DEF Init
  <2>3. QueuedNumbers = {} /\ HeldNumbers = {} /\ LineNumbers = {} /\ DeviceNumbers = {}
    BY <2>1, <2>2 DEF QueuedNumbers, HeldNumbers, LineNumbers, DeviceNumbers, InHand
  <2>4. QED
    BY <2>1, <2>2, <2>3 DEF NothingElse, AllAnswers, InOrder, QueueInOrder, LineInOrder,
      DeviceInOrder, AllNumbers, Before
<1>2. QED
  BY <1>1, OrderStep, TypeInvariant, WellFormedInvariant, PTL DEF Spec
-----------------------------------------------------------------------------
(***************************************************************************)
(* Where the response to a command is.                                     *)
(***************************************************************************)

\* A frame that joins the line, and the first that leaves it.
LEMMA LineAppend ==
  ASSUME toHost \in Seq(Frame), NEW frame \in Frame, toHost' = Append(toHost, frame), n' = n
  PROVE  /\ frame.kind # "RSP" /\ ~OnTheLine => ~OnTheLine'
         /\ frame.kind # "RSP" /\ OneOnTheLine => OneOnTheLine'
         /\ frame.kind = "RSP" /\ frame.n = n /\ ~OnTheLine => OneOnTheLine'
<1> DEFINE len == Len(toHost)
<1>1. len \in Nat
  BY LenProperties
<1>2. /\ Len(toHost') = len + 1 /\ toHost'[len + 1] = frame
      /\ \A i \in 1..len : toHost'[i] = toHost[i]
  BY AppendProperties
<1>3. \A i \in 1..Len(toHost') : (i \in 1..len /\ toHost'[i] = toHost[i]) \/ (i = len + 1 /\ toHost'[i] = frame)
  BY <1>1, <1>2
<1>4. \A i \in 1..len : i \in 1..Len(toHost')
  BY <1>1, <1>2
<1>5. len + 1 \in 1..Len(toHost')
  BY <1>1, <1>2
<1> HIDE DEF len
<1>7. frame.kind # "RSP" /\ ~OnTheLine => ~OnTheLine'
  BY <1>3 DEF OnTheLine, OnLine, len
<1>8. frame.kind # "RSP" /\ OneOnTheLine => OneOnTheLine'
  <2>1. SUFFICES ASSUME frame.kind # "RSP",
                        NEW i \in 1..len, OnLine(i), toHost[i].n = n,
                        \A j \in 1..len : OnLine(j) => j = i
                 PROVE  OneOnTheLine'
    BY DEF OneOnTheLine, len
  <2>2. i \in 1..Len(toHost') /\ OnLine(i)' /\ toHost'[i].n = n'
    BY <1>2, <1>4, <2>1 DEF OnLine
  <2>3. \A j \in 1..Len(toHost') : OnLine(j)' => j = i
    BY <1>3, <2>1 DEF OnLine
  <2>4. QED
    BY <2>2, <2>3 DEF OneOnTheLine
<1>9. frame.kind = "RSP" /\ frame.n = n /\ ~OnTheLine => OneOnTheLine'
  <2>1. SUFFICES ASSUME frame.kind = "RSP", frame.n = n, ~OnTheLine PROVE OneOnTheLine'
    OBVIOUS
  <2>2. PICK k \in 1..Len(toHost') : k = len + 1
    BY <1>5
  <2>3. OnLine(k)' /\ toHost'[k].n = n'
    BY <1>2, <2>1, <2>2 DEF OnLine
  <2>4. \A j \in 1..Len(toHost') : OnLine(j)' => j = k
    BY <1>3, <2>1, <2>2 DEF OnLine, OnTheLine, len
  <2>5. QED
    BY <2>3, <2>4 DEF OneOnTheLine
<1>10. QED
  BY <1>7, <1>8, <1>9 DEF len

\* A frame taken off the line.
LEMMA LineTail ==
  ASSUME toHost \in Seq(Frame), toHost # <<>>, toHost' = Tail(toHost), n' = n
  PROVE  /\ ~OnTheLine => toHost[1].kind # "RSP" /\ ~OnTheLine'
         /\ toHost[1].kind # "RSP" /\ OneOnTheLine => OneOnTheLine'
         /\ toHost[1].kind = "RSP" /\ OneOnTheLine => toHost[1].n = n /\ ~OnTheLine'
<1> DEFINE len == Len(toHost)
<1>1. len \in Nat \ {0}
  BY EmptySeq
<1>2. Len(toHost') = len - 1 /\ \A i \in 1..Len(toHost') : toHost'[i] = toHost[i + 1]
  BY HeadTailProperties
<1>3. \A i \in 1..Len(toHost') : i + 1 \in 2..len /\ i + 1 \in 1..len
  BY <1>1, <1>2
<1>4. 1 \in 1..len
  BY <1>1
<1> HIDE DEF len
<1>6. ~OnTheLine => toHost[1].kind # "RSP" /\ ~OnTheLine'
  BY <1>2, <1>3, <1>4 DEF OnTheLine, OnLine, len
<1>7. toHost[1].kind # "RSP" /\ OneOnTheLine => OneOnTheLine'
  <2>1. SUFFICES ASSUME toHost[1].kind # "RSP",
                        NEW i \in 1..len, OnLine(i), toHost[i].n = n,
                        \A j \in 1..len : OnLine(j) => j = i
                 PROVE  OneOnTheLine'
    BY DEF OneOnTheLine, len
  <2>2. i # 1
    BY <2>1 DEF OnLine
  <2>3. i - 1 \in 1..Len(toHost') /\ (i - 1) + 1 = i
    BY <1>1, <1>2, <2>2
  <2>4. OnLine(i - 1)' /\ toHost'[i - 1].n = n'
    BY <1>2, <2>1, <2>3 DEF OnLine
  <2>5. ASSUME NEW j \in 1..Len(toHost'), OnLine(j)' PROVE j = i - 1
    <3>1. OnLine(j + 1)
      BY <1>2, <2>5 DEF OnLine
    <3>2. j + 1 \in 1..len
      BY <1>3
    <3>3. j + 1 = i
      BY Zenon, <2>1, <3>1, <3>2
    <3>4. QED
      BY <1>1, <1>2, <3>3
  <2>6. QED
    BY <2>3, <2>4, <2>5 DEF OneOnTheLine
<1>8. toHost[1].kind = "RSP" /\ OneOnTheLine => toHost[1].n = n /\ ~OnTheLine'
  <2>1. SUFFICES ASSUME toHost[1].kind = "RSP",
                        NEW i \in 1..len, OnLine(i), toHost[i].n = n,
                        \A j \in 1..len : OnLine(j) => j = i
                 PROVE  toHost[1].n = n /\ ~OnTheLine'
    BY DEF OneOnTheLine, len
  <2>2. i = 1
    BY <1>4, <2>1 DEF OnLine
  <2>3. ASSUME NEW j \in 1..Len(toHost'), OnLine(j)' PROVE FALSE
    <3>1. OnLine(j + 1)
      BY <1>2, <2>3 DEF OnLine
    <3>2. j + 1 \in 1..len
      BY <1>3
    <3>3. j + 1 = i
      BY Zenon, <2>1, <3>1, <3>2
    <3>4. QED
      BY <1>1, <1>2, <2>2, <3>3
  <2>4. QED
    BY <2>1, <2>2, <2>3 DEF OnTheLine
<1>9. QED
  BY <1>6, <1>7, <1>8 DEF len

\* A call begins and ends with none on its way; in between, writing the command puts it with
\* the device and Get takes it from the queue.
LEMMA OneApp ==
  ASSUME TypeInv, AtMostOne, AppNext, ~Timeout, ~WriteError
  PROVE  AtMostOne'
<1> USE DEF decoderVars, appVars
<1>1. Types
  BY TypesAndTorn DEF TypeInv
<1>2. /\ packet' = packet
      /\ reader' = "process" => reader = "process"
      /\ toHost' = toHost \/ toHost' = <<>>
  BY DEF AppNext, Open, SendCommand, Written, WriteError, Get, Timeout, Use, ClosePort,
    ForgetPort, Join
<1>3. Len(<<>>) = 0
  BY EmptySeq
<1>5. (~OnTheLine => ~OnTheLine') /\ (~InHand => ~InHand')
  BY <1>2, <1>3 DEF OnTheLine, OnLine, InHand
<1>6. CASE Written
  <2>1. NoneOnItsWay
    BY <1>6 DEF Written, AtMostOne
  <2>2. toDevice = <<>>
    BY <2>1 DEF NoneOnItsWay, AtDevice
  <2>3. toDevice' = <<n'>> /\ app' = "waiting" /\ recv_queue' = recv_queue
    BY <1>6, <2>2 DEF Written
  <2>4. ByDevice'
    BY <1>5, <2>1, <2>3 DEF NoneOnItsWay, ByDevice, Queued
  <2>5. QED
    BY <2>3, <2>4 DEF AtMostOne
<1>7. CASE Get
  <2>1. ByQueue
    BY <1>7 DEF Get, AtMostOne, NoneOnItsWay, ByDevice, ByLine, ByHand, Queued
  <2>2. recv_queue' = <<>> /\ toDevice' = toDevice
    BY <1>7, <2>1 DEF Get, ByQueue
  <2>3. NoneOnItsWay'
    BY <1>5, <2>1, <2>2 DEF NoneOnItsWay, ByQueue, Queued, AtDevice
  <2>4. QED
    BY <2>3 DEF AtMostOne
<1>8. CASE AppNext /\ ~Written /\ ~Get
  <2>1. app # "waiting" /\ toDevice' = toDevice /\ recv_queue' = recv_queue
    BY <1>8 DEF AppNext, Open, SendCommand, Use, ClosePort, ForgetPort, Join
  <2>2. NoneOnItsWay
    BY <2>1 DEF AtMostOne
  <2>3. NoneOnItsWay'
    BY <1>5, <2>1, <2>2 DEF NoneOnItsWay, Queued, AtDevice
  <2>4. QED
    BY <2>3 DEF AtMostOne
<1>9. QED
  BY <1>6, <1>7, <1>8

\* The reader takes it from the line into its hands, and from there to the queue.
LEMMA OneReader ==
  ASSUME TypeInv, WellFormed, Free({"damaged", "torn"}), NothingElse, AtMostOne, ReaderNext
  PROVE  AtMostOne'
<1> USE DEF decoderVars, appVars
<1>1. Types
  BY TypesAndTorn DEF TypeInv
<1>2. /\ ~torn
      /\ \A i \in 1..Len(toHost) :
           toHost[i].kind # "DAMAGED_LOG" /\ toHost[i].codes = <<"NONE">>
      /\ packet.kind # "DAMAGED_LOG"
      /\ reader = "process" => packet.err = "NONE"
  BY DEF WellFormed
<1>3. toDevice' = toDevice /\ app' = app /\ n' = n
  BY DEF ReaderNext, CheckOpen, Poll, PollError, IsDataAvailable, ReadNothing, DecodeFirst,
    DecodeNext, DecodeTorn, ProcessPacket
<1>4. CASE DecodeNext
  <2>1. toHost # <<>> /\ toHost \in Seq(Frame) /\ decoded \in 1..(MaxExcess + 1)
    BY <1>1, <1>4, Bounds DEF DecodeNext, Decoding, Types
  <2>2. Len(toHost) \in Nat \ {0} /\ 1 \in 1..Len(toHost)
    BY <2>1, EmptySeq
  <2>3. Head(toHost) = toHost[1] /\ toHost[1].codes = <<"NONE">> /\ toHost[1] \in Frame
    BY <1>2, <2>1, <2>2, AtHand
  <2>4. decoded <= Len(toHost[1].codes) /\ packet.kind = toHost[1].kind /\ packet.n = toHost[1].n
    BY <1>2, <2>1 DEF TypeInv, Halfway
  <2>5. decoded = 1
    BY <2>1, <2>3, <2>4, Bounds
  <2>6. /\ packet' = [packet EXCEPT !.err = "NONE"] /\ toHost' = Tail(toHost)
        /\ reader = "read" /\ reader' = "process" /\ recv_queue' = recv_queue
    <3>1. packet' = [packet EXCEPT !.err = "NONE"]
      BY <1>4, <2>3, <2>5 DEF DecodeNext
    <3>2. decoded = Len(Head(toHost).codes)
      BY <2>3, <2>5
    <3>3. toHost' = Tail(toHost)
      BY <1>4, <3>2 DEF DecodeNext
    <3>4. QED
      BY <1>4, <3>1, <3>3 DEF DecodeNext, Decoding
  <2>7. packet'.kind = toHost[1].kind /\ packet'.n = toHost[1].n
    BY <1>1, <2>4, <2>6 DEF Types, PacketValue
  <2>8. toHost[1].kind \in Kind
    BY <2>3 DEF Frame
  <2>10. ~InHand /\ (InHand' <=> toHost[1].kind = "RSP") /\ (AtDevice' <=> AtDevice) /\ (Queued' <=> Queued)
    BY <1>3, <2>6, <2>7 DEF InHand, AtDevice, Queued
  <2>11. CASE OnTheLine
    <3>1. app = "waiting" /\ ByLine
      BY <2>11 DEF AtMostOne, NoneOnItsWay, ByDevice, ByHand, ByQueue
    <3>2. CASE toHost[1].kind = "RSP"
      <4>1. packet'.n = n' /\ ~OnTheLine'
        BY <1>3, <2>1, <2>6, <2>7, <3>1, <3>2, LineTail DEF ByLine
      <4>2. ByHand'
        BY <2>10, <3>1, <3>2, <4>1 DEF ByLine, ByHand
      <4>3. QED
        BY <1>3, <3>1, <4>2 DEF AtMostOne
    <3>3. CASE toHost[1].kind # "RSP"
      <4>1. OneOnTheLine'
        BY <1>3, <2>1, <2>6, <3>1, <3>3, LineTail DEF ByLine
      <4>2. ByLine'
        BY <2>10, <3>1, <3>3, <4>1 DEF ByLine
      <4>3. QED
        BY <1>3, <3>1, <4>2 DEF AtMostOne
    <3>4. QED
      BY <3>2, <3>3
  <2>12. CASE ~OnTheLine
    <3>1. ~OnTheLine' /\ ~InHand'
      BY <1>3, <2>1, <2>6, <2>10, <2>12, LineTail
    <3>2. toDevice' = toDevice /\ recv_queue' = recv_queue /\ app' = app /\ n' = n
      BY <1>3, <2>6
    <3>3. ~ByLine /\ ~ByHand
      BY <2>10, <2>12 DEF ByLine, ByHand, OneOnTheLine, OnTheLine
    <3>4. AtMostOne'
      BY <2>10, <2>12, <3>1, <3>2, <3>3 DEF AtMostOne, NoneOnItsWay, ByDevice, ByQueue, AtDevice, Queued
    <3>5. QED
      BY <3>4
  <2>13. QED
    BY <2>11, <2>12
<1>5. CASE DecodeTorn
  BY Zenon, <1>2, <1>5 DEF DecodeTorn
<1>6. CASE ProcessPacket
  <2>1. /\ reader = "process" /\ reader' # "process" /\ packet' = packet
        /\ toHost' = toHost /\ UNCHANGED decoderVars
    BY <1>6 DEF ProcessPacket, Goto
  <2>2. packet.kind \in {"RSP", "LOG"} /\ packet.err = "NONE"
    BY <1>1, <1>2, <2>1 DEF NothingElse, Types, PacketValue, Kind
  <2>4. ~InHand' /\ (OnTheLine' <=> OnTheLine) /\ (OneOnTheLine' <=> OneOnTheLine)
    BY <1>3, <2>1 DEF InHand, OnTheLine, OneOnTheLine, OnLine
  <2>5. CASE packet.kind = "LOG"
    <3>1. recv_queue' = recv_queue /\ ~InHand
      BY <1>6, <2>5 DEF ProcessPacket, InHand
    <3>2. AtMostOne'
      BY <1>3, <2>4, <3>1 DEF AtMostOne, NoneOnItsWay, ByDevice, ByLine, ByHand, ByQueue, AtDevice, Queued
    <3>3. QED
      BY <3>2
  <2>6. CASE packet.kind = "RSP"
    <3>1. InHand
      BY <2>1, <2>6 DEF InHand
    <3>2. app = "waiting" /\ ByHand
      BY <3>1 DEF AtMostOne, NoneOnItsWay, ByDevice, ByLine, ByQueue
    <3>3. packet = [kind |-> "RSP", n |-> n, err |-> "NONE"]
      BY <1>1, <2>2, <2>6, <3>2 DEF Types, PacketValue, ByHand
    <3>4. recv_queue' = Append(recv_queue, packet) /\ recv_queue = <<>>
      BY <1>6, <2>6, <3>2 DEF ProcessPacket, ByHand, Queued
    <3>5. recv_queue' = <<[kind |-> "RSP", n |-> n', err |-> "NONE"]>>
      BY <1>3, <3>3, <3>4
    <3>6. ByQueue'
      BY <1>3, <2>4, <3>2, <3>5 DEF ByHand, ByQueue, AtDevice
    <3>7. QED
      BY <1>3, <3>2, <3>6 DEF AtMostOne
  <2>7. QED
    BY <2>2, <2>5, <2>6
<1>7. CASE ReaderNext /\ ~DecodeNext /\ ~DecodeTorn /\ ~ProcessPacket
  <2>1. /\ reader # "process" /\ reader' # "process"
        /\ toHost' = toHost /\ recv_queue' = recv_queue
    <3>1. CASE CheckOpen \/ Poll \/ PollError \/ ReadNothing
      BY <3>1 DEF CheckOpen, Poll, PollError, ReadNothing, Goto
    <3>2. CASE IsDataAvailable
      BY <3>2 DEF IsDataAvailable, Goto
    <3>3. CASE DecodeFirst
      BY <3>3 DEF DecodeFirst, Decoding
    <3>4. QED
      BY <1>7, <3>1, <3>2, <3>3 DEF ReaderNext
  <2>4. ~InHand /\ ~InHand' /\ (OnTheLine' <=> OnTheLine) /\ (OneOnTheLine' <=> OneOnTheLine)
    BY <1>3, <2>1 DEF InHand, OnTheLine, OneOnTheLine, OnLine
  <2>5. AtMostOne'
    BY <1>3, <2>1, <2>4 DEF AtMostOne, NoneOnItsWay, ByDevice, ByLine, ByHand, ByQueue, AtDevice, Queued
  <2>6. QED
    BY <2>5
<1>8. QED
  BY <1>4, <1>5, <1>6, <1>7

\* The device turns the one command it has into an answer, if it does not lose it; the frames
\* it sends of its own are no answers.
LEMMA OneDevice ==
  ASSUME TypeInv, AtMostOne, DeviceNext, ~Damage, ~Disturb("EVENT")
  PROVE  AtMostOne'
<1>1. Types
  BY TypesAndTorn DEF TypeInv
<1>2. /\ serial' = serial /\ app' = app /\ n' = n /\ reader' = reader
      /\ packet' = packet /\ recv_queue' = recv_queue
  BY DEF DeviceNext, Answer, Unsolicited, Damage, appVars, decoderVars
<1>3. (InHand' <=> InHand) /\ (Queued' <=> Queued)
  BY <1>2 DEF InHand, Queued
<1>4. toHost \in Seq(Frame)
  BY <1>1 DEF Types
<1>5. CASE Answer
  <2>1. toDevice # <<>> /\ toDevice' = Tail(toDevice)
    BY <1>5, AnswerFacts
  <2>2. app = "waiting" /\ toDevice = <<n>> /\ ~OnTheLine /\ ~InHand /\ ~Queued
    BY <2>1 DEF AtMostOne, NoneOnItsWay, ByDevice, ByLine, ByHand, ByQueue, AtDevice
  <2>3. ~AtDevice' /\ Head(toDevice) = n
    BY <2>1, <2>2 DEF AtDevice
  <2>4. CASE toHost' = toHost
    <3>2. ~OnTheLine'
      BY <2>2, <2>4 DEF OnTheLine, OnLine
    <3>3. NoneOnItsWay'
      BY <1>3, <2>2, <2>3, <3>2 DEF NoneOnItsWay
    <3>4. QED
      BY <3>3 DEF AtMostOne
  <2>5. CASE toHost' = Append(toHost, Response(Head(toDevice)))
    <3>1. Response(n) \in Frame /\ toHost' = Append(toHost, Response(n))
      BY <1>5, <2>3, <2>5, AnswerFacts
    <3>2. Response(n).kind = "RSP" /\ Response(n).n = n
      BY DEF Response
    <3>3. OneOnTheLine'
      BY <1>2, <1>4, <2>2, <3>1, <3>2, LineAppend
    <3>6. ByLine'
      BY <1>3, <2>2, <2>3, <3>3 DEF ByLine
    <3>7. QED
      BY <1>2, <2>2, <3>6 DEF AtMostOne
  <2>6. QED
    BY <1>5, <2>4, <2>5, AnswerFacts
<1>6. CASE Unsolicited
  <2>1. toHost' = Append(toHost, Message("LOG")) /\ Message("LOG") \in Frame /\ toDevice' = toDevice
    BY <1>6, UnsolicitedFacts
  <2>2. Message("LOG").kind = "LOG"
    BY DEF Message
  <2>3. (~OnTheLine => ~OnTheLine') /\ (OneOnTheLine => OneOnTheLine')
    BY <1>2, <1>4, <2>1, <2>2, LineAppend
  <2>6. AtMostOne'
    BY <1>2, <1>3, <2>1, <2>3 DEF AtMostOne, NoneOnItsWay, ByDevice, ByLine, ByHand, ByQueue, AtDevice
  <2>7. QED
    BY <2>6
<1>7. QED
  BY <1>5, <1>6 DEF DeviceNext

\* The inductive step of OneOnItsWay.
LEMMA OneStep ==
  ASSUME TypeInv, WellFormed, Orderly, OneOnItsWay, [Next]_vars
  PROVE  OneOnItsWay'
<1> DEFINE harm == {"timeout", "writeError", "EVENT", "damaged", "torn"}
<1>1. SUFFICES ASSUME Free(harm)' PROVE AtMostOne'
  BY DEF OneOnItsWay
<1>2. harm \subseteq Counted \ {"all"}
  BY DEF Counted, DisturbanceKind
<1>3. Free(harm)
  BY <1>1, <1>2, FreeStep
<1>4. ~Damage /\ ~Timeout /\ ~WriteError /\ ~Disturb("EVENT")
  BY <1>1, <1>2, NotFree
<1>5. NothingElse /\ AtMostOne /\ Free({"damaged", "torn"})
  BY <1>3 DEF OneOnItsWay, Orderly, Free
<1>6. CASE Next
  BY <1>4, <1>5, <1>6, OneApp, OneReader, OneDevice DEF Next
<1>7. CASE UNCHANGED vars
  BY <1>5, <1>7 DEF vars, AtMostOne, NoneOnItsWay, ByDevice, ByLine, ByHand, ByQueue,
    AtDevice, OnTheLine, OneOnTheLine, OnLine, InHand, Queued
<1>8. QED
  BY <1>6, <1>7

\* No more than one answer is on its way, wherever it is.
LEMMA OneInvariant == Spec => []OneOnItsWay
<1>1. Init => OneOnItsWay
  <2> SUFFICES ASSUME Init PROVE NoneOnItsWay
    BY DEF OneOnItsWay, AtMostOne
  <2>1. Len(toHost) = 0
    BY EmptySeq DEF Init
  <2>2. QED
    BY <2>1 DEF Init, NoneOnItsWay, AtDevice, OnTheLine, InHand, Queued
<1>2. QED
  BY <1>1, OneStep, TypeInvariant, WellFormedInvariant, OrderInvariant, PTL DEF Spec

\* As long as no event, damage or close in mid-frame intervenes, what incoming_data_thread
\* queues are whole answers to commands that were sent, in their order and none twice: timeouts,
\* failed writes, log messages, POLLERRs, closes and opens notwithstanding. If no call timed out
\* and no write failed either, it is the answer to the command in progress, alone, while
\* send_command_get_response waits for it.
THEOREM AnswersCorrelate == Spec => []Correlated
<1>1. ASSUME TypeInv, Orderly, OneOnItsWay, Free({"EVENT", "damaged", "torn"})
      PROVE  /\ \A i \in 1..Len(recv_queue) :
                  /\ recv_queue[i] = [kind |-> "RSP", n |-> recv_queue[i].n, err |-> "NONE"]
                  /\ recv_queue[i].n \in 1..n
                  /\ \A j \in 1..(i - 1) : recv_queue[j].n < recv_queue[i].n
             /\ Free({"timeout", "writeError"}) /\ recv_queue # <<>> =>
                  app = "waiting" /\ Len(recv_queue) = 1 /\ recv_queue[1].n = n
  <2>1. AllAnswers /\ InOrder
    BY <1>1 DEF Orderly
  <2>2. ASSUME NEW i \in 1..Len(recv_queue), NEW j \in 1..(i - 1)
        PROVE  recv_queue[j].n < recv_queue[i].n
    <3>1. recv_queue \in Seq(PacketValue)
      BY <1>1, TypesAndTorn DEF TypeInv, Types
    <3>2. Len(recv_queue) \in Nat
      BY <3>1, LenProperties
    <3>3. j \in 1..Len(recv_queue) /\ j < i
      BY <3>2
    <3>4. QED
      BY <2>1, <3>3 DEF InOrder, QueueInOrder
  <2>3. \A i \in 1..Len(recv_queue) : recv_queue[i].n \in 1..n
    BY <2>1 DEF InOrder, AllNumbers, QueuedNumbers
  <2>4. ASSUME Free({"timeout", "writeError"}), recv_queue # <<>>
        PROVE  app = "waiting" /\ Len(recv_queue) = 1 /\ recv_queue[1].n = n
    <3>1. Free({"timeout", "writeError", "EVENT", "damaged", "torn"})
      BY <1>1, <2>4 DEF Free
    <3>2. app = "waiting" /\ recv_queue = <<[kind |-> "RSP", n |-> n, err |-> "NONE"]>>
      BY <1>1, <2>4, <3>1 DEF OneOnItsWay, AtMostOne, NoneOnItsWay, ByDevice, ByLine, ByHand,
        ByQueue, Queued
    <3>3. QED
      BY <3>2
  <2>5. QED
    BY <2>1, <2>2, <2>3, <2>4 DEF AllAnswers
<1>2. TypeInv /\ Orderly /\ OneOnItsWay => Correlated
  BY <1>1 DEF Correlated
<1>3. QED
  BY <1>2, TypeInvariant, OrderInvariant, OneInvariant, PTL
-----------------------------------------------------------------------------
(***************************************************************************)
(* The packet between its being queued and its being looked at.            *)
(***************************************************************************)
\* The caller's steps but its timeouts leave the queued packet as it was received.
LEMMA UntouchedApp ==
  ASSUME TypeInv, AtMostOne, StillUntouched, AppNext, ~Timeout, ~WriteError
  PROVE  StillUntouched'
<1> USE DEF decoderVars, appVars
<1>1. Types
  BY TypesAndTorn DEF TypeInv
<1>2. /\ packet' = packet
      /\ reader' = "process" => reader = "process"
      /\ toHost' = toHost \/ toHost' = <<>>
  BY DEF AppNext, Open, SendCommand, Written, WriteError, Get, Timeout, Use, ClosePort,
    ForgetPort, Join
<1>3. (\A i \in 1..Len(toHost') : OnLine(i)') /\ (reader' = "process" => InHand')
  BY <1>2, EmptySeq DEF StillUntouched, OnLine, InHand
<1>4. CASE Get
  <2>1. ByQueue
    BY <1>4 DEF Get, AtMostOne, NoneOnItsWay, ByDevice, ByLine, ByHand, Queued
  <2>2. recv_queue' = <<>> /\ toDevice' = toDevice /\ n' = n /\ toHost' = toHost /\ result' = result
    BY <1>4, <2>1 DEF Get, ByQueue
  <2>3. packet' = [kind |-> "RSP", n |-> n', err |-> "NONE"] /\ toHost' = <<>>
    BY <1>2, <1>4, <2>2 DEF Get, StillUntouched, Queued
  <2>4. reader' # "process" /\ ~AtDevice' /\ ~Queued'
    BY <1>2, <2>1, <2>2 DEF ByQueue, StillUntouched, AtDevice, Queued
  <2>5. AnswersCommand'
    BY <2>2 DEF StillUntouched, AnswersCommand
  <2>6. QED
    BY <1>3, <2>3, <2>4, <2>5 DEF StillUntouched
<1>5. CASE Use
  <2>1. packet = [kind |-> "RSP", n |-> n, err |-> "NONE"]
    BY <1>5 DEF Use, StillUntouched
  <2>2. result'.pkt = packet /\ result'.n = n
    BY <1>5 DEF Use
  <2>3. AnswersCommand'
    BY <2>1, <2>2 DEF AnswersCommand
  <2>4. ~Queued' /\ app' # "got"
    BY <1>5 DEF Use, StillUntouched, Queued
  <2>5. QED
    BY <1>3, <2>3, <2>4 DEF StillUntouched
<1>6. CASE AppNext /\ ~Get /\ ~Use
  <2>1. app \notin {"waiting", "got"} /\ app' # "got" /\ recv_queue' = recv_queue
    BY <1>6 DEF AppNext, Open, SendCommand, Written, ClosePort, ForgetPort, Join, Return
  <2>2. ~Queued'
    BY <2>1 DEF AtMostOne, NoneOnItsWay, Queued
  <2>3. result' = result \/ result'.err # "NONE"
    BY <1>6 DEF AppNext, Open, SendCommand, Written, ClosePort, ForgetPort, Join, Return
  <2>4. AnswersCommand'
    BY <2>3 DEF StillUntouched, AnswersCommand
  <2>5. QED
    BY <1>3, <2>1, <2>2, <2>4 DEF StillUntouched
<1>7. QED
  BY <1>4, <1>5, <1>6

\* A reader that decodes nothing but answers leaves the packet as the caller finds it.
LEMMA UntouchedReader ==
  ASSUME TypeInv, WellFormed, Free({"damaged", "torn"}), NothingElse, AtMostOne, StillUntouched,
         ReaderNext
  PROVE  StillUntouched'
<1> USE DEF decoderVars, appVars
<1>1. Types
  BY TypesAndTorn DEF TypeInv
<1>2. ~torn
  BY DEF WellFormed
<1>3. toDevice' = toDevice /\ app' = app /\ n' = n /\ result' = result
  BY DEF ReaderNext, CheckOpen, Poll, PollError, IsDataAvailable, ReadNothing, DecodeFirst,
    DecodeNext, DecodeTorn, ProcessPacket
<1>4. AnswersCommand'
  BY <1>3 DEF StillUntouched, AnswersCommand
<1>5. toHost \in Seq(Frame)
  BY <1>1 DEF Types
<1>6. CASE DecodeFirst
  <2>1. toHost # <<>> /\ toHost' = toHost /\ reader' = "top" /\ recv_queue' = recv_queue
    BY <1>6 DEF DecodeFirst, Decoding
  <2>2. ~Queued' /\ app' # "got"
    BY <1>3, <2>1 DEF StillUntouched, Queued
  <2>3. \A i \in 1..Len(toHost') : OnLine(i)'
    BY <2>1 DEF StillUntouched, OnLine
  <2>4. QED
    BY <1>4, <2>1, <2>2, <2>3 DEF StillUntouched
<1>7. CASE DecodeNext
  <2>1. toHost # <<>> /\ recv_queue' = recv_queue /\ reader' = "process" /\ decoded > 0
    BY <1>7 DEF DecodeNext, Decoding
  <2>2. ~Queued' /\ app' # "got"
    BY <1>3, <2>1 DEF StillUntouched, Queued
  <2>3. 1 \in 1..Len(toHost)
    BY <1>5, <2>1, EmptySeq
  <2>4. packet.kind = "RSP"
    BY <1>2, <2>1, <2>3 DEF TypeInv, Halfway, StillUntouched, OnLine
  <2>5. packet'.kind = "RSP"
    <3>1. PICK err : packet' = [packet EXCEPT !.err = err]
      BY <1>7 DEF DecodeNext
    <3>2. QED
      BY <1>1, <2>4, <3>1 DEF Types, PacketValue
  <2>6. InHand'
    BY <2>1, <2>5 DEF InHand
  <2>7. \A i \in 1..Len(toHost') : OnLine(i)'
    <3>1. CASE toHost' = toHost
      BY <3>1 DEF StillUntouched, OnLine
    <3>2. CASE toHost' = Tail(toHost)
      <4>1. Len(toHost') = Len(toHost) - 1 /\ \A i \in 1..Len(toHost') : toHost'[i] = toHost[i + 1]
        BY <1>5, <2>1, <3>2, HeadTailProperties
      <4>2. \A i \in 1..Len(toHost') : i + 1 \in 1..Len(toHost)
        BY <1>5, <2>3, <4>1, LenProperties
      <4>3. QED
        BY <4>1, <4>2 DEF StillUntouched, OnLine
    <3>3. QED
      BY <1>7, <3>1, <3>2 DEF DecodeNext
  <2>8. QED
    BY <1>4, <2>2, <2>6, <2>7 DEF StillUntouched
<1>8. CASE DecodeTorn
  BY Zenon, <1>2, <1>8 DEF DecodeTorn
<1>9. CASE ProcessPacket
  <2>1. reader = "process" /\ packet' = packet /\ toHost' = toHost /\ reader' # "process"
    BY <1>9 DEF ProcessPacket, Goto
  <2>2. InHand
    BY <2>1 DEF StillUntouched
  <2>3. app = "waiting" /\ ByHand
    BY <2>2 DEF AtMostOne, NoneOnItsWay, ByDevice, ByLine, ByQueue
  <2>4. packet = [kind |-> "RSP", n |-> n, err |-> "NONE"]
    BY <1>1, <2>1, <2>2, <2>3 DEF Types, PacketValue, ByHand, InHand, WellFormed
  <2>5. toHost = <<>>
    <3>1. \A i \in 1..Len(toHost) : FALSE
      BY <2>3 DEF ByHand, OnTheLine, StillUntouched
    <3>2. QED
      BY <1>5, <3>1, EmptySeq
  <2>6. \A i \in 1..Len(toHost') : OnLine(i)'
    BY <2>1 DEF StillUntouched, OnLine
  <2>7. QED
    BY <1>3, <1>4, <2>1, <2>3, <2>4, <2>5, <2>6 DEF StillUntouched
<1>10. CASE ReaderNext /\ ~DecodeFirst /\ ~DecodeNext /\ ~DecodeTorn /\ ~ProcessPacket
  <2>1. toHost' = toHost /\ recv_queue' = recv_queue /\ packet' = packet /\ reader' # "process"
    <3>1. CASE CheckOpen \/ Poll \/ PollError \/ ReadNothing
      BY <3>1 DEF CheckOpen, Poll, PollError, ReadNothing, Goto
    <3>2. CASE IsDataAvailable
      BY <3>2 DEF IsDataAvailable, Goto
    <3>3. QED
      BY <1>10, <3>1, <3>2 DEF ReaderNext
  <2>2. \A i \in 1..Len(toHost') : OnLine(i)'
    BY <2>1 DEF StillUntouched, OnLine
  <2>3. QED
    BY <1>3, <1>4, <2>1, <2>2 DEF StillUntouched, Queued, AtDevice
<1>11. QED
  BY <1>6, <1>7, <1>8, <1>9, <1>10

\* So does the device that answers.
LEMMA UntouchedDevice ==
  ASSUME TypeInv, AtMostOne, StillUntouched, Answer
  PROVE  StillUntouched'
<1>1. toHost \in Seq(Frame) /\ Len(toHost) \in Nat
  BY TypesAndTorn, LenProperties DEF TypeInv, Types
<1>2. /\ app' = app /\ n' = n /\ reader' = reader /\ result' = result
      /\ packet' = packet /\ recv_queue' = recv_queue
  BY DEF Answer, appVars, decoderVars
<1>3. toDevice # <<>>
  BY AnswerFacts
<1>4. app = "waiting" /\ ~InHand /\ ~Queued
  BY <1>3 DEF AtMostOne, NoneOnItsWay, ByDevice, ByLine, ByHand, ByQueue, AtDevice
<1>5. app' # "got" /\ ~Queued' /\ reader' # "process"
  BY <1>2, <1>4 DEF Queued, StillUntouched
<1>6. \A i \in 1..Len(toHost') : OnLine(i)'
  <2>1. CASE toHost' = toHost
    BY <2>1 DEF StillUntouched, OnLine
  <2>2. CASE toHost' = Append(toHost, Response(Head(toDevice)))
    <3>1. /\ Len(toHost') = Len(toHost) + 1 /\ toHost'[Len(toHost) + 1] = Response(Head(toDevice))
          /\ \A i \in 1..Len(toHost) : toHost'[i] = toHost[i]
      BY <1>1, <2>2, AnswerFacts, AppendProperties
    <3>2. \A i \in 1..Len(toHost') : i \in 1..Len(toHost) \/ i = Len(toHost) + 1
      BY <1>1, <3>1
    <3>3. QED
      BY <3>1, <3>2 DEF StillUntouched, OnLine, Response
  <2>3. QED
    BY <2>1, <2>2, AnswerFacts
<1>7. AnswersCommand'
  BY <1>2 DEF StillUntouched, AnswersCommand
<1>8. QED
  BY <1>5, <1>6, <1>7 DEF StillUntouched

\* The inductive step of Untouched.
LEMMA UntouchedStep ==
  ASSUME TypeInv, WellFormed, Orderly, OneOnItsWay, Untouched, [Next]_vars
  PROVE  Untouched'
<1> DEFINE harm == {"timeout", "writeError", "LOG", "EVENT", "damaged", "torn"}
<1>1. SUFFICES ASSUME Free(harm)' PROVE StillUntouched'
  BY DEF Untouched
<1>2. harm \subseteq Counted \ {"all"}
  BY DEF Counted, DisturbanceKind
<1>3. Free(harm)
  BY <1>1, <1>2, FreeStep
<1>4. ~Damage /\ ~Timeout /\ ~WriteError /\ ~Disturb("EVENT") /\ ~Disturb("LOG")
  BY <1>1, <1>2, NotFree
<1>5. /\ StillUntouched /\ NothingElse /\ AtMostOne
      /\ Free({"damaged", "torn"})
  BY <1>3 DEF Untouched, OneOnItsWay, Orderly, Free
<1>6. CASE AppNext
  BY <1>4, <1>5, <1>6, UntouchedApp
<1>7. CASE ReaderNext
  BY <1>5, <1>7, UntouchedReader
<1>8. CASE DeviceNext
  BY <1>4, <1>5, <1>8, UntouchedDevice, UnsolicitedFacts DEF DeviceNext
<1>9. CASE UNCHANGED vars
  BY <1>5, <1>9 DEF vars, StillUntouched, OnLine, InHand, Queued, AtDevice, AnswersCommand
<1>10. QED
  BY <1>6, <1>7, <1>8, <1>9 DEF Next

\* What the caller of send_command_get_response finds in the packet, though it is the
\* decoder's own, is the whole answer to its command, as long as the device speaks only when
\* spoken to and every command is written and answered in time.
THEOREM PacketHolds == Spec => []AnswersUndisturbed
<1>1. Init => Untouched
  <2> SUFFICES ASSUME Init PROVE StillUntouched
    BY DEF Untouched
  <2>1. Len(toHost) = 0
    BY EmptySeq DEF Init
  <2>2. QED
    BY <2>1 DEF Init, StillUntouched, Queued, AnswersCommand
<1>2. Untouched => AnswersUndisturbed
  BY DEF Untouched, StillUntouched, AnswersUndisturbed
<1>3. QED
  BY <1>1, <1>2, UntouchedStep, TypeInvariant, WellFormedInvariant, OrderInvariant, OneInvariant,
    PTL DEF Spec
-----------------------------------------------------------------------------
(***************************************************************************)
(* The entries of recv_queue are accounted for.                            *)
(***************************************************************************)

\* The parts of the account are numbers.
Amounts ==
  /\ Errors \in Nat /\ Waiting \in Nat /\ Rest \in Nat /\ Holding \in Nat
  /\ Len(recv_queue) \in Nat /\ Len(toDevice) \in Nat /\ Len(toHost) \in Nat
  /\ Elsewhere \in Nat
  /\ \A i \in 1..Len(toHost) : Entries(i) \in Nat

\* The amounts that the accounts of Drift add up are numbers.
LEMMA Numbers == TypeInv => Amounts
<1> SUFFICES ASSUME TypeInv PROVE Amounts
  OBVIOUS
<1>1. Types
  BY TypesAndTorn DEF TypeInv
<1>2. Errors \in Nat
  <2>1. /\ count["timeout"] \in Nat /\ count["writeError"] \in Nat /\ count["EVENT"] \in Nat
        /\ count["damaged"] \in Nat /\ count["excess"] \in Nat /\ count["torn"] \in Nat
    BY <1>1 DEF Types, Counted, DisturbanceKind
  <2>2. QED
    BY <2>1 DEF Errors
<1>3. Waiting \in 0..1 /\ Rest \in 0..1 /\ Holding \in 0..1
  BY DEF Waiting, Rest, Holding
<1>4. Len(recv_queue) \in Nat /\ Len(toDevice) \in Nat /\ Len(toHost) \in Nat
  BY <1>1, LenProperties DEF Types
<1>5. Elsewhere \in Nat
  BY <1>3, <1>4 DEF Elsewhere
<1>6. \A i \in 1..Len(toHost) : Entries(i) \in Nat
  BY DEF Entries
<1>7. QED
  BY <1>2, <1>3, <1>4, <1>5, <1>6 DEF Amounts

\* So are they after a step.
LEMMA NumbersAfter == TypeInv' => Amounts'
BY Numbers, PTL

\* What a step counts.
LEMMA ErrorsStep ==
  ASSUME TypeInv
  PROVE  /\ UNCHANGED count => Errors' = Errors
         /\ Count("open") => Errors' = Errors
         /\ Count("timeout") \/ Count("excess") \/ Count("torn") => Errors' = Errors + 1
         /\ Disturb("LOG") \/ Disturb("rawText") \/ Disturb("pollError") => Errors' = Errors
         /\ Disturb("writeError") \/ Disturb("EVENT") \/ Disturb("damaged") => Errors' = Errors + 1
<1>1. count \in [Counted -> Nat]
  BY TypesAndTorn DEF TypeInv, Types
<1> DEFINE summed == {"timeout", "writeError", "EVENT", "damaged", "excess", "torn"}
<1>2. /\ \A what \in summed : count[what] \in Nat /\ what \in Counted \ {"all"}
      /\ {"open", "LOG", "rawText", "pollError"} \subseteq Counted \ ({"all"} \cup summed)
  BY <1>1 DEF Counted, DisturbanceKind
<1>3. UNCHANGED count => Errors' = Errors
  BY DEF Errors
<1>4. ASSUME NEW what \in {"open", "LOG", "rawText", "pollError"}, Count(what) \/ Disturb(what)
      PROVE  Errors' = Errors
  <2>1. \A other \in summed : count'[other] = count[other]
    BY <1>1, <1>2, <1>4, Counting
  <2>2. QED
    BY <2>1 DEF Errors
<1>5. ASSUME NEW what \in summed, Count(what) \/ Disturb(what)
      PROVE  Errors' = Errors + 1
  <2>1. /\ count'[what] = count[what] + 1
        /\ \A other \in summed \ {what} : count'[other] = count[other]
    BY <1>1, <1>2, <1>5, Counting
  <2>2. QED
    BY <1>2, <2>1 DEF Errors
<1>6. QED
  BY <1>3, <1>4, <1>5

\* Names for the numbers, and their sums.
LEMMA Named ==
  TypeInv => \E q \in Nat, d \in Nat, t \in 0..1, h \in 0..1, r \in Nat, w \in 0..1 :
               /\ q = Len(recv_queue) /\ d = Len(toDevice) /\ t = Rest /\ h = Holding
               /\ r = Errors /\ w = Waiting
               /\ Elsewhere = q + d + t + h
<1> SUFFICES ASSUME TypeInv
             PROVE  \E q \in Nat, d \in Nat, t \in 0..1, h \in 0..1, r \in Nat, w \in 0..1 :
               /\ q = Len(recv_queue) /\ d = Len(toDevice) /\ t = Rest /\ h = Holding
               /\ r = Errors /\ w = Waiting
               /\ Elsewhere = q + d + t + h
  OBVIOUS
<1>1. Len(recv_queue) \in Nat /\ Len(toDevice) \in Nat /\ Errors \in Nat
  BY Zenon, Numbers DEF Amounts
<1>2. Rest \in 0..1 /\ Holding \in 0..1 /\ Waiting \in 0..1
  BY DEF Rest, Holding, Waiting
<1>3. Elsewhere = Len(recv_queue) + Len(toDevice) + Rest + Holding
  BY DEF Elsewhere
<1>4. QED
  BY Zenon, <1>1, <1>2, <1>3

\* The amounts after a step by names of their own.
LEMMA NamedAfter ==
  TypeInv' => \E q \in Nat, d \in Nat, t \in 0..1, h \in 0..1, r \in Nat, w \in 0..1 :
                /\ q = Len(recv_queue') /\ d = Len(toDevice') /\ t = Rest' /\ h = Holding'
                /\ r = Errors' /\ w = Waiting'
                /\ Elsewhere' = q + d + t + h
<1>1. TypeInv' => (\E q \in Nat, d \in Nat, t \in 0..1, h \in 0..1, r \in Nat, w \in 0..1 :
                     /\ q = Len(recv_queue) /\ d = Len(toDevice) /\ t = Rest /\ h = Holding
                     /\ r = Errors /\ w = Waiting
                     /\ Elsewhere = q + d + t + h)'
  BY Named, PTL
<1>2. QED
  BY Zenon, <1>1

\* Another certificate, for a step that pays for the difference.
LEMMA DriftTo ==
  ASSUME TypeInv, TypeInv', NEW left \in [Nat -> Nat], Accounts(left), NEW after \in [Nat -> Nat],
         \A i \in 1..Len(toHost') : after[i] >= after[i + 1] + Entries(i)',
         Elsewhere' + Errors + Waiting + after[1] <= Elsewhere + Errors' + Waiting' + left[1]
  PROVE  Drift'
<1>1. /\ Elsewhere \in Nat /\ Errors \in Nat /\ Waiting \in Nat
      /\ Elsewhere' \in Nat /\ Errors' \in Nat /\ Waiting' \in Nat
  BY Zenon, Numbers, NumbersAfter DEF Amounts
<1>2. left[1] \in Nat /\ after[1] \in Nat
  OBVIOUS
<1>3. PICK e \in Nat, r \in Nat, w \in Nat, e1 \in Nat, r1 \in Nat, w1 \in Nat, l \in Nat, l1 \in Nat :
        /\ e = Elsewhere /\ r = Errors /\ w = Waiting /\ l = left[1]
        /\ e1 = Elsewhere' /\ r1 = Errors' /\ w1 = Waiting' /\ l1 = after[1]
  BY Zenon, <1>1, <1>2
<1>4. e1 + r + w + l1 <= e + r1 + w1 + l
  BY <1>3
<1>5. e + l <= r + w
  BY <1>3 DEF Accounts
<1>6. e1 + l1 <= r1 + w1
  BY <1>4, <1>5
<1>7. Elsewhere' + after[1] <= Errors' + Waiting'
  BY <1>3, <1>6
<1>8. Accounts(after)'
  BY <1>7 DEF Accounts
<1>9. QED
  BY <1>8 DEF Drift

\* ... that leaves the line as it is, or discards it.
LEMMA DriftKept ==
  ASSUME TypeInv, TypeInv', Drift,
         toHost' = <<>> \/ toHost' = toHost,
         Elsewhere' + Errors + Waiting <= Elsewhere + Errors' + Waiting'
  PROVE  Drift'
<1>1. PICK left \in [Nat -> Nat] : Accounts(left)
  BY DEF Drift
<1>2. \A i \in 1..Len(toHost') : left[i] >= left[i + 1] + Entries(i)'
  <2>1. CASE toHost' = toHost
    BY <1>1, <2>1 DEF Accounts, Entries
  <2>2. CASE toHost' = <<>>
    BY <2>2, EmptySeq
  <2>3. QED
    BY <2>1, <2>2
<1>3. Elsewhere' + Errors + Waiting + left[1] <= Elsewhere + Errors' + Waiting' + left[1]
  <2>1. /\ Elsewhere \in Nat /\ Errors \in Nat /\ Waiting \in Nat /\ left[1] \in Nat
        /\ Elsewhere' \in Nat /\ Errors' \in Nat /\ Waiting' \in Nat
    BY Zenon, Numbers, NumbersAfter DEF Amounts
  <2>2. PICK e \in Nat, r \in Nat, w \in Nat, e1 \in Nat, r1 \in Nat, w1 \in Nat, l \in Nat :
          /\ e = Elsewhere /\ r = Errors /\ w = Waiting /\ l = left[1]
          /\ e1 = Elsewhere' /\ r1 = Errors' /\ w1 = Waiting'
    BY Zenon, <2>1
  <2>3. e1 + r + w <= e + r1 + w1
    BY <2>2
  <2>4. e1 + r + w + l <= e + r1 + w1 + l
    BY <2>3
  <2>5. QED
    BY <2>2, <2>4
<1>4. QED
  BY <1>1, <1>2, <1>3, DriftTo

\* ... that takes the first frame from it.
LEMMA DriftTail ==
  ASSUME TypeInv, TypeInv', Drift,
         toHost # <<>>, toHost' = Tail(toHost),
         Elsewhere' + Errors + Waiting <= Elsewhere + Errors' + Waiting' + Entries(1)
  PROVE  Drift'
<1>1. PICK left \in [Nat -> Nat] : Accounts(left)
  BY DEF Drift
<1>2. toHost \in Seq(Frame)
  BY TypesAndTorn DEF TypeInv, Types
<1>3. /\ Len(toHost) \in Nat \ {0}
      /\ Len(toHost') = Len(toHost) - 1
      /\ \A i \in 1..Len(toHost') : toHost'[i] = toHost[i + 1]
  BY <1>2, EmptySeq, HeadTailProperties
<1>4. PICK after \in [Nat -> Nat] : \A i \in Nat : after[i] = left[i + 1]
  <2>1. [i \in Nat |-> left[i + 1]] \in [Nat -> Nat]
    OBVIOUS
  <2>2. QED
    BY <2>1
<1>5. ASSUME NEW i \in 1..Len(toHost') PROVE after[i] >= after[i + 1] + Entries(i)'
  <2>1. i + 1 \in 1..Len(toHost) /\ i \in Nat /\ i + 1 \in Nat
    BY <1>3, <1>5
  <2>2. left[i + 1] >= left[(i + 1) + 1] + Entries(i + 1)
    BY <1>1, <2>1 DEF Accounts
  <2>3. Entries(i)' = Entries(i + 1)
    BY <1>3, <1>5 DEF Entries
  <2>4. QED
    BY <1>4, <2>1, <2>2, <2>3
<1>6. Elsewhere' + Errors + Waiting + after[1] <= Elsewhere + Errors' + Waiting' + left[1]
  <2>1. 1 \in 1..Len(toHost) /\ after[1] = left[1 + 1]
    BY <1>3, <1>4
  <2>2. left[1] >= after[1] + Entries(1)
    BY <1>1, <2>1 DEF Accounts
  <2>3. Entries(1) \in Nat
    BY Zenon, <2>1, Numbers DEF Amounts
  <2>4. /\ Elsewhere \in Nat /\ Errors \in Nat /\ Waiting \in Nat /\ left[1] \in Nat /\ after[1] \in Nat
        /\ Elsewhere' \in Nat /\ Errors' \in Nat /\ Waiting' \in Nat
    BY Zenon, Numbers, NumbersAfter DEF Amounts
  <2>5. PICK e \in Nat, r \in Nat, w \in Nat, e1 \in Nat, r1 \in Nat, w1 \in Nat,
             l \in Nat, l1 \in Nat, x \in Nat :
          /\ e = Elsewhere /\ r = Errors /\ w = Waiting /\ l = left[1] /\ l1 = after[1]
          /\ e1 = Elsewhere' /\ r1 = Errors' /\ w1 = Waiting' /\ x = Entries(1)
    BY Zenon, <2>3, <2>4
  <2>6. e1 + r + w <= e + r1 + w1 + x /\ l >= l1 + x
    BY <2>2, <2>5
  <2>7. e1 + r + w + l1 <= e + r1 + w1 + l
    BY <2>6
  <2>8. QED
    BY <2>5, <2>7
<1>7. \A i \in 1..Len(toHost') : after[i] >= after[i + 1] + Entries(i)'
  BY <1>5
<1>8. QED
  BY <1>1, <1>6, <1>7, DriftTo

\* A certificate raised up to the entry after len, where it ends.
LEMMA Raised ==
  ASSUME NEW left \in [Nat -> Nat], NEW len \in Nat, NEW more \in Nat
  PROVE  \E after \in [Nat -> Nat] :
           /\ after[1] = left[1] + more
           /\ \A i \in 1..len, x \in Nat :
                left[i] >= left[i + 1] + x => after[i] >= after[i + 1] + x
           /\ after[len + 1] >= after[(len + 1) + 1] + more
<1> DEFINE f == [i \in Nat |-> IF i <= len + 1 THEN left[i] + more ELSE 0]
<1>1. f \in [Nat -> Nat]
  OBVIOUS
<1>2. \A i \in Nat : (i <= len + 1 => f[i] = left[i] + more) /\ (i > len + 1 => f[i] = 0)
  OBVIOUS
<1> HIDE DEF f
<1>3. f[1] = left[1] + more
  BY <1>2
<1>4. ASSUME NEW i \in 1..len, NEW x \in Nat, left[i] >= left[i + 1] + x
      PROVE  f[i] >= f[i + 1] + x
  <2>1. f[i] = left[i] + more /\ f[i + 1] = left[i + 1] + more
    BY <1>2
  <2>2. left[i] \in Nat /\ left[i + 1] \in Nat
    OBVIOUS
  <2>3. QED
    BY <1>4, <2>1, <2>2
<1>5. f[len + 1] >= f[(len + 1) + 1] + more
  <2>1. f[len + 1] = left[len + 1] + more /\ f[(len + 1) + 1] = 0
    BY <1>2
  <2>2. left[len + 1] \in Nat
    OBVIOUS
  <2>3. QED
    BY <2>1, <2>2
<1>6. \A i \in 1..len, x \in Nat : left[i] >= left[i + 1] + x => f[i] >= f[i + 1] + x
  BY <1>4
<1>7. QED
  BY Zenon, <1>1, <1>3, <1>5, <1>6

\* What a step adds to the counts beyond what it adds to the account.
Pays(entries) == Elsewhere' + Errors + Waiting + entries <= Elsewhere + Errors' + Waiting'

\* Entries that come with as many errors keep the accounts balanced.
LEMMA PaidFor ==
  ASSUME TypeInv, TypeInv', NEW entries \in Nat, Pays(entries),
         NEW l \in Nat, NEW l1, l1 = l + entries
  PROVE  Elsewhere' + Errors + Waiting + l1 <= Elsewhere + Errors' + Waiting' + l
<1>1. /\ Elsewhere \in Nat /\ Errors \in Nat /\ Waiting \in Nat
      /\ Elsewhere' \in Nat /\ Errors' \in Nat /\ Waiting' \in Nat
  BY Zenon, Numbers, NumbersAfter DEF Amounts
<1>2. PICK e \in Nat, r \in Nat, w \in Nat, e1 \in Nat, r1 \in Nat, w1 \in Nat :
        /\ e = Elsewhere /\ r = Errors /\ w = Waiting
        /\ e1 = Elsewhere' /\ r1 = Errors' /\ w1 = Waiting'
  BY Zenon, <1>1
<1>3. e1 + r + w + entries <= e + r1 + w1
  BY <1>2 DEF Pays
<1>4. e1 + r + w + (l + entries) <= e + r1 + w1 + l
  BY <1>3
<1>5. QED
  BY <1>2, <1>4

Weight(frame) == IF frame.kind \in Log THEN 0 ELSE 1

\* ... that adds a frame to it, of as many entries as it pays for.
LEMMA DriftAppend ==
  ASSUME TypeInv, TypeInv', Drift,
         NEW frame \in Frame, toHost' = Append(toHost, frame),
         NEW entries \in Nat, entries = Weight(frame), Pays(entries)
  PROVE  Drift'
<1>1. PICK left \in [Nat -> Nat] : Accounts(left)
  BY DEF Drift
<1>2. toHost \in Seq(Frame)
  BY TypesAndTorn DEF TypeInv, Types
<1>3. PICK len \in Nat : len = Len(toHost)
  BY <1>2, LenProperties
<1>4. /\ Len(toHost') = len + 1
      /\ toHost'[len + 1] = frame
      /\ \A i \in 1..len : toHost'[i] = toHost[i]
  BY <1>2, <1>3, AppendProperties
<1>5. PICK after \in [Nat -> Nat] :
        /\ after[1] = left[1] + entries
        /\ \A i \in 1..len, x \in Nat :
             left[i] >= left[i + 1] + x => after[i] >= after[i + 1] + x
        /\ after[len + 1] >= after[(len + 1) + 1] + entries
  BY Raised
<1>7. ASSUME NEW i \in 1..Len(toHost') PROVE after[i] >= after[i + 1] + Entries(i)'
  <2>1. CASE i \in 1..len
    <3>1. Entries(i)' = Entries(i)
      BY <1>4, <2>1 DEF Entries
    <3>2. left[i] >= left[i + 1] + Entries(i)
      BY <1>1, <1>3, <2>1 DEF Accounts
    <3>3. Entries(i) \in Nat
      BY Zenon, <1>3, <2>1, Numbers DEF Amounts
    <3>4. QED
      BY Zenon, <1>5, <2>1, <3>1, <3>2, <3>3
  <2>2. CASE i = len + 1
    <3>1. Entries(i)' = Weight(frame)
      BY <1>4, <2>2 DEF Entries, Weight
    <3>2. QED
      BY Zenon, <1>5, <2>2, <3>1
  <2>3. QED
    BY <1>4, <1>7, <2>1, <2>2
<1>8. Elsewhere' + Errors + Waiting + after[1] <= Elsewhere + Errors' + Waiting' + left[1]
  BY <1>5, PaidFor
<1>9. \A i \in 1..Len(toHost') : after[i] >= after[i + 1] + Entries(i)'
  BY <1>7
<1>10. QED
  BY <1>1, <1>8, <1>9, DriftTo

\* The application: what it takes from one part of the account it adds to another.
LEMMA DriftApp ==
  ASSUME TypeInv, TypeInv', Drift, AppNext
  PROVE  Drift'
<1> USE DEF decoderVars, appVars
<1>1. PICK q \in Nat, d \in Nat, t \in 0..1, h \in 0..1, r \in Nat, w \in 0..1 :
        /\ q = Len(recv_queue) /\ d = Len(toDevice) /\ t = Rest /\ h = Holding
        /\ r = Errors /\ w = Waiting
        /\ Elsewhere = q + d + t + h
  BY Named
<1>2. PICK q1 \in Nat, d1 \in Nat, t1 \in 0..1, h1 \in 0..1, r1 \in Nat, w1 \in 0..1 :
        /\ q1 = Len(recv_queue') /\ d1 = Len(toDevice') /\ t1 = Rest' /\ h1 = Holding'
        /\ r1 = Errors' /\ w1 = Waiting'
        /\ Elsewhere' = q1 + d1 + t1 + h1
  BY NamedAfter
<1>10. ~ClosePort => (torn' <=> torn)
  BY Zenon DEF AppNext, Open, SendCommand, Written, WriteError, Get, Timeout, Use,
    ForgetPort, Join
<1>3. toHost' = <<>> \/ toHost' = toHost
  BY DEF AppNext, Open, SendCommand, Written, WriteError, Get, Timeout, Use, ClosePort,
    ForgetPort, Join
<1>4. h1 <= h
  <2>1. packet' = packet /\ (reader' = "process" => reader = "process")
    BY DEF AppNext, Open, SendCommand, Written, WriteError, Get, Timeout, Use, ClosePort,
      ForgetPort, Join
  <2>2. Holding' <= Holding
    BY <2>1 DEF Holding
  <2>3. QED
    BY <1>1, <1>2, <2>2
<1>5. ~ClosePort => t1 = t
  BY <1>1, <1>2, <1>10 DEF Rest
<1>6. q1 + d1 + t1 + r + w <= q + d + t + r1 + w1
  <2>1. CASE Written
    <3>1. toDevice \in Seq(1..MaxCommands) /\ n \in 1..MaxCommands
      BY <2>1, TypesAndTorn DEF TypeInv, Types, Control, Written
    <3>2. d1 = d + 1
      BY <1>1, <1>2, <2>1, <3>1, AppendProperties DEF Written
    <3>3. q1 = q /\ r1 = r /\ w = 0 /\ w1 = 1
      BY <1>1, <1>2, <2>1, ErrorsStep DEF Written, Waiting
    <3>4. ~ClosePort
      BY <2>1 DEF Written, ClosePort
    <3>5. QED
      BY <1>5, <3>2, <3>3, <3>4
  <2>2. CASE Get
    <3>1. recv_queue \in Seq(PacketValue) /\ recv_queue # <<>>
      BY <2>2, TypesAndTorn DEF TypeInv, Types, Get
    <3>2. q1 = q - 1
      BY <1>1, <1>2, <2>2, <3>1, HeadTailProperties DEF Get
    <3>3. d1 = d /\ r1 = r /\ w = 1 /\ w1 = 0
      BY <1>1, <1>2, <2>2, ErrorsStep DEF Get, Waiting
    <3>4. ~ClosePort
      BY <2>2 DEF Get, ClosePort
    <3>5. QED
      BY <1>5, <3>2, <3>3, <3>4
  <2>3. CASE Timeout
    <3>1. q1 = q /\ d1 = d /\ r1 = r + 1 /\ w = 1 /\ w1 = 0
      BY <1>1, <1>2, <2>3, ErrorsStep DEF Timeout, Return, Waiting
    <3>2. ~ClosePort
      BY <2>3 DEF Timeout, ClosePort
    <3>3. QED
      BY <1>5, <3>1, <3>2
  <2>4. CASE ClosePort
    <3>1. q1 = q /\ d1 = d /\ w = 0 /\ w1 = 0
      BY <1>1, <1>2, <2>4 DEF ClosePort, Waiting
    <3>2. CASE decoded > 0
      <4>1. Count("torn")
        BY <2>4, <3>2 DEF ClosePort
      <4>2. r1 = r + 1
        BY <1>1, <1>2, <4>1, ErrorsStep
      <4>3. QED
        BY <3>1, <4>2
    <3>3. CASE ~(decoded > 0)
      <4>1. (torn' <=> torn) /\ count' = count
        BY Zenon, <2>4, <3>3 DEF ClosePort
      <4>2. t1 = t /\ r1 = r
        BY <1>1, <1>2, <4>1, ErrorsStep DEF Rest
      <4>3. QED
        BY <3>1, <4>2
    <3>4. QED
      BY <3>2, <3>3
  <2>5. CASE Open \/ SendCommand \/ Use \/ ForgetPort \/ Join
    <3>1. q1 = q /\ d1 = d
      BY <1>1, <1>2, <2>5 DEF Open, SendCommand, Use, ForgetPort, Join
    <3>2. w = 0 /\ w1 = 0
      <4>1. app # "waiting" /\ app' # "waiting"
        BY <2>5 DEF Open, SendCommand, Return, Use, ForgetPort, Join
      <4>2. QED
        BY <1>1, <1>2, <4>1 DEF Waiting
    <3>3. r1 = r
      BY <1>1, <1>2, <2>5, ErrorsStep DEF Open, SendCommand, Use, ForgetPort, Join
    <3>4. ~ClosePort
      BY <2>5 DEF Open, SendCommand, Return, Use, ForgetPort, Join, ClosePort
    <3>5. QED
      BY <1>5, <3>1, <3>2, <3>3, <3>4
  <2>6. CASE WriteError
    <3>1. toDevice \in Seq(1..MaxCommands) /\ n \in 1..MaxCommands
      BY <2>6, TypesAndTorn DEF TypeInv, Types, Control, WriteError
    <3>2. d1 = d \/ d1 = d + 1
      BY <1>1, <1>2, <2>6, <3>1, AppendProperties DEF WriteError
    <3>3. q1 = q /\ r1 = r + 1 /\ w = 0 /\ w1 = 0
      BY <1>1, <1>2, <2>6, ErrorsStep DEF WriteError, Return, Waiting
    <3>4. ~ClosePort
      BY <2>6 DEF WriteError, ClosePort
    <3>5. QED
      BY <1>5, <3>2, <3>3, <3>4
  <2>7. QED
    BY <2>1, <2>2, <2>3, <2>4, <2>5, <2>6 DEF AppNext
<1>7. Elsewhere' + Errors + Waiting <= Elsewhere + Errors' + Waiting'
  <2>1. (q1 + d1 + t1 + h1) + r + w <= (q + d + t + h) + r1 + w1
    BY <1>4, <1>6
  <2>2. QED
    BY <1>1, <1>2, <2>1
<1>8. QED
  BY <1>3, <1>7, DriftKept

\* The last code of a frame is the entry it was to become; each one before it is counted.
LEMMA DriftCode ==
  ASSUME TypeInv, TypeInv', Drift, DecodeNext
  PROVE  Drift'
<1> USE DEF appVars
<1>1. PICK q \in Nat, d \in Nat, t \in 0..1, h \in 0..1, r \in Nat, w \in 0..1 :
        /\ q = Len(recv_queue) /\ d = Len(toDevice) /\ t = Rest /\ h = Holding
        /\ r = Errors /\ w = Waiting
        /\ Elsewhere = q + d + t + h
  BY Named
<1>2. PICK q1 \in Nat, d1 \in Nat, t1 \in 0..1, h1 \in 0..1, r1 \in Nat, w1 \in 0..1 :
        /\ q1 = Len(recv_queue') /\ d1 = Len(toDevice') /\ t1 = Rest' /\ h1 = Holding'
        /\ r1 = Errors' /\ w1 = Waiting'
        /\ Elsewhere' = q1 + d1 + t1 + h1
  BY NamedAfter
<1>3. Types
  BY TypesAndTorn DEF TypeInv
<1>4. toHost \in Seq(Frame) /\ toHost # <<>> /\ 1 \in 1..Len(toHost)
  BY <1>3, EmptySeq DEF DecodeNext, Decoding, Types
<1>5. Head(toHost) = toHost[1] /\ decoded > 0 /\ ~torn /\ reader = "read" /\ reader' = "process"
  BY <1>4 DEF DecodeNext, Decoding
<1>7. packet.kind = toHost[1].kind
  BY <1>5 DEF TypeInv, Halfway
<1>8. packet'.kind = toHost[1].kind
  <2>1. PICK err : packet' = [packet EXCEPT !.err = err]
    BY DEF DecodeNext
  <2>2. QED
    BY <1>3, <1>7, <2>1 DEF Types, PacketValue
<1>9. h = 0 /\ h1 = IF toHost[1].kind \in Log THEN 0 ELSE 1
  BY <1>1, <1>2, <1>5, <1>8 DEF Holding
<1>10. q1 = q /\ d1 = d /\ t1 = t /\ w1 = w
  <2>1. torn' <=> torn
    BY Zenon DEF DecodeNext
  <2>2. t1 = t
    BY <1>1, <1>2, <2>1 DEF Rest
  <2>3. q1 = q /\ d1 = d /\ w1 = w
    BY <1>1, <1>2 DEF DecodeNext, Waiting
  <2>4. QED
    BY <2>2, <2>3
<1>11. CASE toHost' = Tail(toHost) /\ UNCHANGED count
  <2>1. r1 = r
    BY <1>1, <1>2, <1>11, ErrorsStep
  <2>2. PICK x \in Nat : x = Entries(1)
    BY Zenon, <1>4, Numbers DEF Amounts
  <2>3. h1 = x
    BY <1>9, <2>2 DEF Entries
  <2>4. (q1 + d1 + t1 + h1) + r + w <= (q + d + t + h) + r1 + w1 + x
    BY <1>9, <1>10, <2>1, <2>3
  <2>5. Elsewhere' + Errors + Waiting <= Elsewhere + Errors' + Waiting' + Entries(1)
    BY <1>1, <1>2, <2>2, <2>4
  <2>6. QED
    BY <1>4, <1>11, <2>5, DriftTail
<1>12. CASE toHost' = toHost /\ Count("excess")
  <2>1. r1 = r + 1
    BY <1>1, <1>2, <1>12, ErrorsStep
  <2>2. (q1 + d1 + t1 + h1) + r + w <= (q + d + t + h) + r1 + w1
    BY <1>9, <1>10, <2>1
  <2>3. Elsewhere' + Errors + Waiting <= Elsewhere + Errors' + Waiting'
    BY <1>1, <1>2, <2>2
  <2>4. QED
    BY <1>12, <2>3, DriftKept
<1>13. QED
  BY <1>11, <1>12 DEF DecodeNext

\* The reader.
LEMMA DriftReader ==
  ASSUME TypeInv, TypeInv', Drift, ReaderNext
  PROVE  Drift'
<1> USE DEF appVars, decoderVars
<1>1. PICK q \in Nat, d \in Nat, t \in 0..1, h \in 0..1, r \in Nat, w \in 0..1 :
        /\ q = Len(recv_queue) /\ d = Len(toDevice) /\ t = Rest /\ h = Holding
        /\ r = Errors /\ w = Waiting
        /\ Elsewhere = q + d + t + h
  BY Named
<1>2. PICK q1 \in Nat, d1 \in Nat, t1 \in 0..1, h1 \in 0..1, r1 \in Nat, w1 \in 0..1 :
        /\ q1 = Len(recv_queue') /\ d1 = Len(toDevice') /\ t1 = Rest' /\ h1 = Holding'
        /\ r1 = Errors' /\ w1 = Waiting'
        /\ Elsewhere' = q1 + d1 + t1 + h1
  BY NamedAfter
<1>3. Types
  BY TypesAndTorn DEF TypeInv
<1>4. d1 = d /\ w1 = w
  BY <1>1, <1>2 DEF ReaderNext, CheckOpen, Poll, PollError, IsDataAvailable, ReadNothing,
    DecodeFirst, DecodeNext, DecodeTorn, ProcessPacket, Waiting
<1>5. ~DecodeNext => r1 = r
  <2>1. ~DecodeNext => UNCHANGED count \/ Disturb("pollError") \/ Disturb("rawText")
    BY DEF ReaderNext, CheckOpen, Poll, PollError, IsDataAvailable, ReadNothing, DecodeFirst,
      DecodeNext, DecodeTorn, ProcessPacket
  <2>2. QED
    BY <1>1, <1>2, <2>1, ErrorsStep
<1>6. CASE ReaderNext /\ ~DecodeNext /\ ~DecodeTorn
  <2>1. torn' <=> torn
    BY Zenon, <1>6 DEF ReaderNext, CheckOpen, Poll, PollError, IsDataAvailable, ReadNothing,
      DecodeFirst, ProcessPacket, Goto
  <2>2. t1 = t
    BY <1>1, <1>2, <2>1 DEF Rest
  <2>3. toHost' = toHost
    BY <1>6 DEF ReaderNext, CheckOpen, Poll, PollError, IsDataAvailable, ReadNothing,
      DecodeFirst, ProcessPacket
  <2>5. h1 = 0
    <3>1. CASE CheckOpen \/ Poll \/ PollError \/ ReadNothing \/ DecodeFirst \/ ProcessPacket
      BY <1>2, <3>1 DEF CheckOpen, Poll, PollError, ReadNothing, DecodeFirst, ProcessPacket, Goto,
        Holding
    <3>2. CASE IsDataAvailable
      BY <1>2, <3>2 DEF IsDataAvailable, Goto, Holding
    <3>3. QED
      BY <1>6, <3>1, <3>2 DEF ReaderNext
  <2>6. q1 <= q + h
    <3>1. CASE ProcessPacket
      <4>1. recv_queue \in Seq(PacketValue) /\ packet \in PacketValue
        BY <1>3 DEF Types
      <4>2. CASE packet.kind \in Log
        BY <1>1, <1>2, <3>1, <4>2 DEF ProcessPacket, Log
      <4>3. CASE packet.kind \notin Log
        <5>1. h = 1
          BY <1>1, <3>1, <4>3 DEF ProcessPacket, Holding
        <5>2. recv_queue' = Append(recv_queue, packet)
          BY <3>1, <4>3 DEF ProcessPacket, Log
        <5>3. q1 = q + 1
          BY <1>1, <1>2, <4>1, <5>2, AppendProperties
        <5>4. QED
          BY <5>1, <5>3
      <4>4. QED
        BY <4>2, <4>3
    <3>2. CASE ~ProcessPacket
      <4>1. recv_queue' = recv_queue
        BY <1>6, <3>2 DEF ReaderNext, CheckOpen, Poll, PollError, IsDataAvailable, ReadNothing,
          DecodeFirst
      <4>2. QED
        BY <1>1, <1>2, <4>1
    <3>3. QED
      BY <3>1, <3>2
  <2>7. (q1 + d1 + t1 + h1) + r + w <= (q + d + t + h) + r1 + w1
    BY <1>4, <1>5, <1>6, <2>2, <2>5, <2>6
  <2>8. Elsewhere' + Errors + Waiting <= Elsewhere + Errors' + Waiting'
    BY <1>1, <1>2, <2>7
  <2>9. QED
    BY <2>3, <2>8, DriftKept
<1>7. CASE DecodeTorn
  <2>1. torn /\ ~torn'
    BY Zenon, <1>7 DEF DecodeTorn
  <2>2. /\ q1 = q /\ reader = "read" /\ ~DecodeNext
        /\ toHost # <<>> /\ (toHost' = toHost \/ toHost' = Tail(toHost))
    BY Zenon, <1>1, <1>2, <1>7, <2>1 DEF DecodeTorn, DecodeNext, Decoding
  <2>3. t = 1 /\ t1 = 0 /\ h = 0
    BY <1>1, <1>2, <2>1, <2>2 DEF Rest, Holding
  <2>4. CASE toHost' = toHost
    <3>2. (q1 + d1 + t1 + h1) + r + w <= (q + d + t + h) + r1 + w1
      BY <1>4, <1>5, <2>2, <2>3
    <3>3. Elsewhere' + Errors + Waiting <= Elsewhere + Errors' + Waiting'
      BY <1>1, <1>2, <3>2
    <3>4. QED
      BY <2>4, <3>3, DriftKept
  <2>5. CASE toHost' = Tail(toHost)
    <3>1. 1 \in 1..Len(toHost)
      BY <1>3, <2>2, EmptySeq DEF Types
    <3>2. PICK x \in Nat : x = Entries(1)
      BY Zenon, <3>1, Numbers DEF Amounts
    <3>3. (q1 + d1 + t1 + h1) + r + w <= (q + d + t + h) + r1 + w1 + x
      BY <1>4, <1>5, <2>2, <2>3
    <3>4. Elsewhere' + Errors + Waiting <= Elsewhere + Errors' + Waiting' + Entries(1)
      BY <1>1, <1>2, <3>2, <3>3
    <3>5. QED
      BY <2>2, <2>5, <3>4, DriftTail
  <2>6. QED
    BY <2>2, <2>4, <2>5
<1>8. QED
  BY <1>6, <1>7, DriftCode

\* The device and the line: an answer was accounted for at the device, an event and a damaged
\* frame are counted as they happen.
LEMMA DriftAnswer ==
  ASSUME TypeInv, TypeInv', Drift, Answer
  PROVE  Drift'
<1> USE DEF appVars
<1>1. PICK q \in Nat, d \in Nat, t \in 0..1, h \in 0..1, r \in Nat, w \in 0..1 :
        /\ q = Len(recv_queue) /\ d = Len(toDevice) /\ t = Rest /\ h = Holding
        /\ r = Errors /\ w = Waiting
        /\ Elsewhere = q + d + t + h
  BY Named
<1>2. PICK q1 \in Nat, d1 \in Nat, t1 \in 0..1, h1 \in 0..1, r1 \in Nat, w1 \in 0..1 :
        /\ q1 = Len(recv_queue') /\ d1 = Len(toDevice') /\ t1 = Rest' /\ h1 = Holding'
        /\ r1 = Errors' /\ w1 = Waiting'
        /\ Elsewhere' = q1 + d1 + t1 + h1
  BY NamedAfter
<1>3. Types
  BY TypesAndTorn DEF TypeInv
<1>4. UNCHANGED decoderVars
  BY Zenon DEF Answer
<1>5. (torn' <=> torn) /\ decoded' = decoded /\ packet' = packet
  BY Zenon, <1>4 DEF decoderVars
<1>6. q1 = q /\ t1 = t /\ h1 = h /\ r1 = r /\ w1 = w
  <2>1. t1 = t
    BY <1>1, <1>2, <1>5 DEF Rest
  <2>2. r1 = r
    BY <1>1, <1>2, ErrorsStep DEF Answer
  <2>3. q1 = q /\ h1 = h /\ w1 = w
    BY <1>1, <1>2, <1>5 DEF Answer, Holding, Waiting
  <2>4. QED
    BY <2>1, <2>2, <2>3
<1>7. d = d1 + 1
  <2>1. toDevice \in Seq(1..MaxCommands) /\ toDevice # <<>> /\ toDevice' = Tail(toDevice)
    BY <1>3, AnswerFacts DEF Types
  <2>2. Len(toDevice') = Len(toDevice) - 1
    BY <2>1, HeadTailProperties
  <2>3. QED
    BY <1>1, <1>2, <2>2
<1>8. CASE toHost' = toHost
  <2>2. (q1 + d1 + t1 + h1) + r + w <= (q + d + t + h) + r1 + w1
    BY <1>6, <1>7
  <2>3. Elsewhere' + Errors + Waiting <= Elsewhere + Errors' + Waiting'
    BY <1>1, <1>2, <2>2
  <2>4. QED
    BY <1>8, <2>3, DriftKept
<1>9. CASE toHost' = Append(toHost, Response(Head(toDevice)))
  <2>1. Response(Head(toDevice)) \in Frame
    BY AnswerFacts
  <2>2. Weight(Response(Head(toDevice))) = 1
    BY DEF Response, Weight, Log
  <2>3. (q1 + d1 + t1 + h1) + r + w + 1 <= (q + d + t + h) + r1 + w1
    BY <1>6, <1>7
  <2>4. Pays(1)
    BY <1>1, <1>2, <2>3 DEF Pays
  <2>5. QED
    BY <1>9, <2>1, <2>2, <2>4, DriftAppend
<1>10. QED
  BY <1>8, <1>9, AnswerFacts

\* A log message or an event pays for the entry it becomes.
LEMMA DriftUnsolicited ==
  ASSUME TypeInv, TypeInv', Drift, Unsolicited
  PROVE  Drift'
<1> USE DEF appVars
<1>1. PICK q \in Nat, d \in Nat, t \in 0..1, h \in 0..1, r \in Nat, w \in 0..1 :
        /\ q = Len(recv_queue) /\ d = Len(toDevice) /\ t = Rest /\ h = Holding
        /\ r = Errors /\ w = Waiting
        /\ Elsewhere = q + d + t + h
  BY Named
<1>2. PICK q1 \in Nat, d1 \in Nat, t1 \in 0..1, h1 \in 0..1, r1 \in Nat, w1 \in 0..1 :
        /\ q1 = Len(recv_queue') /\ d1 = Len(toDevice') /\ t1 = Rest' /\ h1 = Holding'
        /\ r1 = Errors' /\ w1 = Waiting'
        /\ Elsewhere' = q1 + d1 + t1 + h1
  BY NamedAfter
<1>3. PICK kind \in {"LOG", "EVENT"} :
        /\ Disturb(kind)
        /\ Message(kind) \in Frame
        /\ toHost' = Append(toHost, Message(kind))
        /\ toDevice' = toDevice
  BY UnsolicitedFacts
<1>4. UNCHANGED decoderVars
  BY Zenon DEF Unsolicited
<1>5. (torn' <=> torn) /\ packet' = packet
  BY Zenon, <1>4 DEF decoderVars
<1>6. q1 = q /\ d1 = d /\ t1 = t /\ h1 = h /\ w1 = w
  <2>1. t1 = t
    BY <1>1, <1>2, <1>5 DEF Rest
  <2>2. q1 = q /\ d1 = d /\ h1 = h /\ w1 = w
    BY <1>1, <1>2, <1>3, <1>5 DEF Unsolicited, Holding, Waiting
  <2>3. QED
    BY <2>1, <2>2
<1>7. PICK x \in 0..1 : r1 = r + x /\ x = Weight(Message(kind))
  <2>1. CASE kind = "LOG"
    <3>1. r1 = r + 0
      BY <1>1, <1>2, <1>3, <2>1, ErrorsStep
    <3>2. Weight(Message(kind)) = 0
      BY <2>1 DEF Message, Weight, Log
    <3>3. QED
      BY <3>1, <3>2
  <2>2. CASE kind = "EVENT"
    <3>1. r1 = r + 1
      BY <1>1, <1>2, <1>3, <2>2, ErrorsStep
    <3>2. Weight(Message(kind)) = 1
      BY <2>2 DEF Message, Weight, Log
    <3>3. QED
      BY <3>1, <3>2
  <2>3. QED
    BY <2>1, <2>2
<1>8. (q1 + d1 + t1 + h1) + r + w + x <= (q + d + t + h) + r1 + w1
  BY <1>6, <1>7
<1>9. Pays(x)
  BY <1>1, <1>2, <1>8 DEF Pays
<1>10. QED
  BY <1>3, <1>7, <1>9, DriftAppend

\* A damaged frame pays for the entries it may become.
LEMMA DriftDamage ==
  ASSUME TypeInv, TypeInv', Drift, Damage
  PROVE  Drift'
<1> USE DEF appVars
<1>1. PICK q \in Nat, d \in Nat, t \in 0..1, h \in 0..1, r \in Nat, w \in 0..1 :
        /\ q = Len(recv_queue) /\ d = Len(toDevice) /\ t = Rest /\ h = Holding
        /\ r = Errors /\ w = Waiting
        /\ Elsewhere = q + d + t + h
  BY Named
<1>2. PICK q1 \in Nat, d1 \in Nat, t1 \in 0..1, h1 \in 0..1, r1 \in Nat, w1 \in 0..1 :
        /\ q1 = Len(recv_queue') /\ d1 = Len(toDevice') /\ t1 = Rest' /\ h1 = Holding'
        /\ r1 = Errors' /\ w1 = Waiting'
        /\ Elsewhere' = q1 + d1 + t1 + h1
  BY NamedAfter
<1>3. (torn' <=> torn) /\ decoded' = decoded /\ packet' = packet
  BY Zenon DEF Damage, decoderVars
<1>4. q1 = q /\ d1 = d /\ t1 = t /\ h1 = h /\ w1 = w
  <2>1. t1 = t
    BY <1>1, <1>2, <1>3 DEF Rest
  <2>2. q1 = q /\ d1 = d /\ h1 = h /\ w1 = w
    BY <1>1, <1>2, <1>3 DEF Damage, Holding, Waiting
  <2>3. QED
    BY <2>1, <2>2
<1>5. r1 = r + 1
  BY <1>1, <1>2, ErrorsStep DEF Damage
<1>6. Pays(1) /\ Pays(0)
  <2>1. /\ (q1 + d1 + t1 + h1) + r + w + 1 <= (q + d + t + h) + r1 + w1
        /\ (q1 + d1 + t1 + h1) + r + w + 0 <= (q + d + t + h) + r1 + w1
    BY <1>4, <1>5
  <2>2. QED
    BY <1>1, <1>2, <2>1 DEF Pays
<1>7. PICK left \in [Nat -> Nat] : Accounts(left)
  BY DEF Drift
<1>8. PICK len \in Nat : Len(toHost) = len + 1
  <2>1. Len(toHost) - 1 \in Nat /\ Len(toHost) = (Len(toHost) - 1) + 1
    BY DamageFacts
  <2>2. QED
    BY <2>1
<1>9. ASSUME NEW i \in 1..len, i \in 1..Len(toHost')
      PROVE  /\ Entries(i)' = Entries(i) /\ Entries(i) \in Nat
             /\ left[i] >= left[i + 1] + Entries(i)
  <2>1. i \in 1..Len(toHost) /\ i < Len(toHost)
    BY <1>8
  <2>2. toHost'[i] = toHost[i]
    BY <1>9, <2>1, DamageFacts
  <2>3. Entries(i)' = Entries(i)
    BY <2>2 DEF Entries
  <2>4. Entries(i) \in Nat
    BY Zenon, <2>1, Numbers DEF Amounts
  <2>5. left[i] >= left[i + 1] + Entries(i)
    BY <1>7, <2>1 DEF Accounts
  <2>6. QED
    BY <2>3, <2>4, <2>5
<1>10. CASE Len(toHost') = Len(toHost) /\ toHost'[Len(toHost)] \in Damaged
  <2>1. PICK after \in [Nat -> Nat] :
          /\ after[1] = left[1] + 1
          /\ \A i \in 1..len, x \in Nat :
               left[i] >= left[i + 1] + x => after[i] >= after[i + 1] + x
          /\ after[len + 1] >= after[(len + 1) + 1] + 1
    BY Raised
  <2>2. ASSUME NEW i \in 1..Len(toHost') PROVE after[i] >= after[i + 1] + Entries(i)'
    <3>1. CASE i \in 1..len
      BY Zenon, <1>9, <2>1, <3>1
    <3>2. CASE i = len + 1
      <4>1. PICK x \in 0..1 : x = Entries(i)'
        BY DEF Entries
      <4>2. PICK a \in Nat : a = after[(len + 1) + 1]
        OBVIOUS
      <4>3. PICK b \in Nat : b = after[len + 1]
        OBVIOUS
      <4>4. b >= a + x
        <5>1. b >= a + 1
          BY Zenon, <2>1, <4>2, <4>3
        <5>2. QED
          BY <5>1
      <4>5. QED
        BY Zenon, <3>2, <4>1, <4>2, <4>3, <4>4
    <3>3. QED
      BY <1>8, <1>10, <3>1, <3>2
  <2>3. Elsewhere' + Errors + Waiting + after[1] <= Elsewhere + Errors' + Waiting' + left[1]
    BY <1>6, <2>1, PaidFor
  <2>4. \A i \in 1..Len(toHost') : after[i] >= after[i + 1] + Entries(i)'
    BY <2>2
  <2>5. QED
    BY <1>7, <2>3, <2>4, DriftTo
<1>11. CASE Len(toHost') = Len(toHost) - 1
  <2>1. Len(toHost') = len
    BY <1>8, <1>11
  <2>2. \A i \in 1..Len(toHost') : left[i] >= left[i + 1] + Entries(i)'
    BY Zenon, <1>9, <2>1
  <2>3. left[1] \in Nat /\ left[1] = left[1] + 0
    OBVIOUS
  <2>4. Elsewhere' + Errors + Waiting + left[1] <= Elsewhere + Errors' + Waiting' + left[1]
    BY <1>6, <2>3, PaidFor
  <2>5. QED
    BY <1>7, <2>2, <2>4, DriftTo
<1>12. QED
  BY <1>10, <1>11, DamageFacts

\* The inductive step of Drift.
LEMMA DriftStep ==
  ASSUME TypeInv, Drift, [Next]_vars
  PROVE  Drift'
<1>1. TypeInv'
  BY TypeStep
<1>2. CASE AppNext
  BY <1>1, <1>2, DriftApp
<1>3. CASE ReaderNext
  BY <1>1, <1>3, DriftReader
<1>4. CASE DeviceNext
  BY <1>1, <1>4, DriftAnswer, DriftUnsolicited, DriftDamage DEF DeviceNext
<1>5. CASE UNCHANGED vars
  <2>1. (torn' <=> torn) /\ toHost' = toHost
    BY Zenon, <1>5 DEF vars
  <2>3. Elsewhere' = Elsewhere /\ Errors' = Errors /\ Waiting' = Waiting
    <3>1. Rest' = Rest
      BY <2>1 DEF Rest
    <3>2. QED
      BY <1>5, <3>1 DEF vars, Elsewhere, Holding, Errors, Waiting
  <2>4. Elsewhere \in Nat /\ Errors \in Nat /\ Waiting \in Nat
    BY Zenon, Numbers DEF Amounts
  <2>5. Elsewhere' + Errors + Waiting <= Elsewhere + Errors' + Waiting'
    BY <2>3, <2>4
  <2>6. QED
    BY <1>1, <2>1, <2>5, DriftKept
<1>6. QED
  BY <1>2, <1>3, <1>4, <1>5 DEF Next

\* Between calls of send_command_get_response, recv_queue holds no more than one entry for each
\* call that timed out or whose write failed, each event, each damaged frame, each frame cut by a
\* close and each byte past MAX_DATA_LEN, however many calls there were: log messages, POLLERR and
\* reopening the bus leave none behind.
THEOREM DriftBounded == Spec => []BoundedDrift
<1>1. Init => Drift
  <2> SUFFICES ASSUME Init PROVE Drift
    OBVIOUS
  <2>1. PICK left \in [Nat -> Nat] : \A i \in Nat : left[i] = 0
    <3>1. [i \in Nat |-> 0] \in [Nat -> Nat]
      OBVIOUS
    <3>2. QED
      BY <3>1
  <2>2. Len(toHost) = 0 /\ Len(recv_queue) = 0 /\ Len(toDevice) = 0
    BY EmptySeq DEF Init
  <2>3. Elsewhere = 0
    BY <2>2 DEF Init, Elsewhere, Rest, Holding
  <2>4. Errors = 0 /\ Waiting = 0
    BY DEF Init, Errors, Waiting, Counted, DisturbanceKind
  <2>5. Accounts(left)
    BY <2>1, <2>2, <2>3, <2>4 DEF Accounts
  <2>6. QED
    BY <2>5 DEF Drift
<1>2. TypeInv /\ Drift => BoundedDrift
  <2> SUFFICES ASSUME TypeInv, Drift, app = "idle"
               PROVE  Len(recv_queue) <=
                        count["timeout"] + count["writeError"] + count["EVENT"] + count["damaged"]
                          + count["excess"] + count["torn"]
    BY DEF BoundedDrift
  <2>1. PICK q \in Nat, d \in Nat, t \in 0..1, h \in 0..1, r \in Nat, w \in 0..1 :
          /\ q = Len(recv_queue) /\ d = Len(toDevice) /\ t = Rest /\ h = Holding
          /\ r = Errors /\ w = Waiting
          /\ Elsewhere = q + d + t + h
    BY Named
  <2>2. PICK left \in [Nat -> Nat] : Accounts(left)
    BY DEF Drift
  <2>3. PICK l \in Nat : l = left[1]
    OBVIOUS
  <2>4. w = 0
    BY <2>1 DEF Waiting
  <2>5. (q + d + t + h) + l <= r + w
    BY <2>1, <2>2, <2>3 DEF Accounts
  <2>6. q <= r
    BY <2>4, <2>5
  <2>7. QED
    BY <2>1, <2>6 DEF Errors
<1>3. QED
  BY <1>1, <1>2, DriftStep, TypeInvariant, PTL DEF Spec
==============================================================================
