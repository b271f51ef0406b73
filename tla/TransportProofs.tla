--------------------------- MODULE TransportProofs ---------------------------
(***************************************************************************)
(* Transport for every size of buffer and frame, and any number of packets *)
(* and cuts: what an application was told holds when it acts on it, and    *)
(* bytes are lost in no other way than ByteStream has it.                  *)
(***************************************************************************)
EXTENDS Transport, SequenceTheorems, TLAPS

\* A bus whose bytes the device's own core buffers, without a descriptor to poll.
Core(kind) == kind \in {"usb", "arduino"}

(***************************************************************************)
(* AnswersHold is not inductive. A port that comes back up (LinuxSerialBus's *)
(* open) would leave a reader that was told of a hang-up, or a writer told of *)
(* one, in front of an empty or a full buffer: that only an end with a       *)
(* descriptor is ever told so, and that such an end reopens it at the top of *)
(* its loop or between packets, is what excludes this. The refinement needs  *)
(* that a link that is down is on record.                                  *)
(***************************************************************************)
IInv ==
  /\ TypeOK
  /\ written \in Nat
  /\ received \in Seq(Nat)
  /\ faulty \in BOOLEAN
  /\ link = "down" => faulty
  /\ asks /\ reader = "asked" /\ rx = <<>> => link = "down" /\ ~Core(to)
  /\ asks => reader # "waiting"
  /\ asks /\ writer = "writing" /\ left = PacketLen /\ ~Room => link = "down" /\ ~Core(from)

\* The assumption on the constants, one by one.
LEMMA Constants == FifoCap \in Nat \ {0} /\ RxCap \in Nat \ {0} /\ PacketLen \in Nat \ {0}
BY TransportAssumption

\* Of two ends joined by a line one is a core's and the other LinuxSerialBus.
LEMMA EndKinds ==
  ASSUME <<from, to>> \in Ends
  PROVE  /\ from \in {"usb", "arduino", "linux", "socket", "pysocket"}
         /\ to \in {"usb", "arduino", "linux", "socket", "pysocket"}
         /\ ~Tcp => \/ to = "linux" /\ Core(from)
                    \/ from = "linux" /\ Core(to)
         /\ Tcp => from \in {"socket", "pysocket"} /\ to \in {"socket", "pysocket"}
BY DEF Ends, Tcp, Core

(***************************************************************************)
(* writeByte of every bus: what is sent had room, and nothing is refused   *)
(* but for want of it or on a link that is down.                           *)
(***************************************************************************)
LEMMA Outcomes ==
  ASSUME <<from, to>> \in Ends, link \in {"up", "down"}, NEW outcome \in writeByte
  PROVE  /\ outcome \in {"sent", "dropped", "waits", "kills", "raises"}
         /\ outcome = "sent" => Room
         /\ outcome \in {"dropped", "kills", "raises"} => link = "down" \/ ~Room
<1>1. from \in {"usb", "arduino", "linux", "socket", "pysocket"}
  BY EndKinds
<1>2. CASE from = "usb"
  <2>1. CASE link = "up" /\ Room
    BY <1>2, <2>1 DEF writeByte, PicoUsbBus_writeByte, isConnected
  <2>2. CASE ~(link = "up" /\ Room)
    <3>1. writeByte = {"dropped"}
      BY <1>2, <2>2 DEF writeByte, PicoUsbBus_writeByte, isConnected
    <3>2. link \in {"up", "down"}
      OBVIOUS
    <3>3. QED
      BY <2>2, <3>1, <3>2
  <2>3. QED
    BY <2>1, <2>2
<1>3. CASE from = "arduino"
  BY <1>3 DEF writeByte, ArduinoSerialBus_writeByte
<1>4. CASE from = "linux"
  BY <1>4 DEF writeByte, LinuxSerialBus_writeByte
<1>5. CASE from = "socket"
  BY <1>5 DEF writeByte, SocketBus_writeByte
<1>6. CASE from = "pysocket"
  BY <1>6 DEF writeByte, SocketBus_write_byte
<1>7. QED
  BY <1>1, <1>2, <1>3, <1>4, <1>5, <1>6

(***************************************************************************)
(* Sequences of byte numbers.                                              *)
(***************************************************************************)
LEMMA SeqGrows ==
  ASSUME NEW n \in Nat, NEW s \in Seq(1..n)
  PROVE  /\ s \in Seq(1..(n + 1))
         /\ Append(s, n + 1) \in Seq(1..(n + 1))
         /\ Len(s) \in Nat
         /\ Len(Append(s, n + 1)) = Len(s) + 1
OBVIOUS

\* Empty buffers fit.
LEMMA EmptyBuffers ==
  \A n : <<>> \in Seq(1..n) /\ Len(<<>>) <= FifoCap /\ Len(<<>>) <= RxCap
<1>1. \A n : <<>> \in Seq(1..n)
  OBVIOUS
<1>2. Len(<<>>) = 0
  OBVIOUS
<1>3. QED
  BY <1>1, <1>2, Constants

-----------------------------------------------------------------------------
(***************************************************************************)
(* IInv holds initially, and every action preserves it.                    *)
(***************************************************************************)
LEMMA InitInv == Init => IInv
<1>1. SUFFICES ASSUME Init PROVE IInv
  OBVIOUS
<1>2. <<from, to>> \in Ends
  BY <1>1 DEF Init, Ends
<1>3. pushed \in BOOLEAN /\ (from # "usb" => pushed)
  BY <1>1, Zenon DEF Init
<1>4. TypeOK
  <2>1. fifo = <<>> /\ rx = <<>> /\ written = 0 /\ left = 0 /\ link = "up"
        /\ writer = "idle" /\ reader = "top"
    BY <1>1 DEF Init
  <2>2. fifo \in Seq(1..written) /\ Len(fifo) <= FifoCap
        /\ rx \in Seq(1..written) /\ Len(rx) <= RxCap
    BY <2>1, Constants
  <2>3. QED
    BY <1>2, <1>3, <2>1, <2>2, Constants DEF TypeOK
<1>5. written \in Nat /\ received \in Seq(Nat) /\ faulty \in BOOLEAN
  <2>1. written \in Nat /\ received \in Seq(Nat)
    BY <1>1 DEF Init
  <2>2. faulty \in BOOLEAN
    BY <1>1, Zenon DEF Init
  <2>3. QED
    BY <2>1, <2>2
<1>6. link = "up" /\ reader = "top" /\ writer = "idle"
  BY <1>1 DEF Init
<1>7. QED
  BY <1>4, <1>5, <1>6 DEF IInv

\* A writer that begins a packet has asked for space, if it asks.
LEMMA WritePacketInv == IInv /\ WritePacket => IInv'
<1>1. SUFFICES ASSUME IInv, WritePacket PROVE IInv'
  OBVIOUS
<1>2. UNCHANGED <<from, to, asks, link, written, fifo, pushed, rx, reader, received, faulty>>
  BY <1>1 DEF WritePacket, kinds
<1>3. writer' = "writing" /\ left' = PacketLen
  BY <1>1 DEF WritePacket
<1>4. TypeOK'
  BY <1>1, <1>2, <1>3, Constants DEF IInv, TypeOK
<1>5. asks /\ ~Room => link = "down" /\ ~Core(from)
  BY <1>1 DEF WritePacket, isSpaceAvailable, Polled, Core
<1>6. (asks /\ writer = "writing" /\ left = PacketLen /\ ~Room
         => link = "down" /\ ~Core(from))'
  BY <1>2, <1>5 DEF Room, Core
<1>7. QED
  BY <1>1, <1>2, <1>4, <1>6 DEF IInv, Core

\* writeByte finds the space that isSpaceAvailable promised.
LEMMA WriteByteInv == IInv /\ WriteByte => IInv'
<1>1. SUFFICES ASSUME IInv, WriteByte PROVE IInv'
  OBVIOUS
<1>2. PICK outcome \in writeByte \ {"waits"} :
        /\ fifo' = IF outcome = "sent" THEN Append(fifo, written') ELSE fifo
        /\ writer' = CASE outcome = "kills"  -> "killed"
                       [] outcome = "raises" -> "idle"
                       [] OTHER              -> writer
        /\ left' = remaining(outcome)
  BY <1>1 DEF WriteByte
<1>3. /\ UNCHANGED <<from, to, asks, link, pushed, rx, reader, received>>
      /\ writer = "writing" /\ left > 0 /\ written' = written + 1
  BY <1>1 DEF WriteByte, kinds
<1>4. /\ outcome \in {"sent", "dropped", "kills", "raises"}
      /\ outcome = "sent" => Room
  BY <1>1, Outcomes DEF IInv, TypeOK
<1>5. /\ writer' \in {"idle", "writing", "killed"}
      /\ left' \in 0..PacketLen /\ left' # PacketLen
      /\ writer' # "writing" => left' = 0
  <2>1. left \in 0..PacketLen
    BY <1>1 DEF IInv, TypeOK
  <2>2. CASE outcome \in {"kills", "raises"}
    <3>1. writer' \in {"idle", "killed"} /\ left' = 0
      BY <1>2, <2>2 DEF remaining
    <3>2. QED
      BY <3>1, Constants
  <2>3. CASE outcome \notin {"kills", "raises"}
    <3>1. writer' = writer /\ left' = left - 1
      BY <1>2, <1>4, <2>3 DEF remaining
    <3>2. QED
      BY <1>3, <2>1, <3>1, Constants
  <2>4. QED
    BY <2>2, <2>3
<1>6. fifo' \in Seq(1..written') /\ Len(fifo') <= FifoCap /\ rx' \in Seq(1..written')
  <2>1. written \in Nat /\ fifo \in Seq(1..written) /\ rx \in Seq(1..written)
        /\ Len(fifo) <= FifoCap /\ Len(fifo) \in Nat
    BY <1>1 DEF IInv, TypeOK
  <2>2. fifo \in Seq(1..written') /\ rx' \in Seq(1..written')
    BY <1>3, <2>1, SeqGrows
  <2>3. CASE outcome = "sent"
    <3>1. fifo' = Append(fifo, written + 1) /\ Len(fifo) < FifoCap
      BY <1>2, <1>3, <1>4, <2>3 DEF Room
    <3>2. Append(fifo, written + 1) \in Seq(1..(written + 1))
          /\ Len(Append(fifo, written + 1)) = Len(fifo) + 1
      BY <2>1, SeqGrows
    <3>3. QED
      BY <1>3, <2>1, <2>2, <3>1, <3>2, Constants
  <2>4. CASE outcome # "sent"
    BY <1>2, <2>1, <2>2, <2>4
  <2>5. QED
    BY <2>3, <2>4
<1>7. TypeOK'
  BY <1>1, <1>3, <1>5, <1>6 DEF IInv, TypeOK
<1>8. faulty' \in BOOLEAN /\ (faulty => faulty')
  BY <1>1, Zenon DEF WriteByte
<1>9. written' \in Nat
  BY <1>1, <1>3 DEF IInv
<1>10. QED
  BY <1>1, <1>3, <1>5, <1>7, <1>8, <1>9 DEF IInv, Core

\* flush does not touch what a reader was promised.
LEMMA FlushInv == IInv /\ Flush => IInv'
<1>1. SUFFICES ASSUME IInv, Flush PROVE IInv'
  OBVIOUS
<1>2. /\ UNCHANGED <<from, to, asks, link, left, written, fifo, rx, reader, received, faulty>>
      /\ left = 0 /\ writer' = "idle"
  BY <1>1 DEF Flush, kinds
<1>3. pushed' \in BOOLEAN /\ (from # "usb" => pushed')
  <2>1. pushed \in BOOLEAN /\ (from # "usb" => pushed) /\ pushed' = flush
    BY <1>1 DEF IInv, TypeOK, Flush
  <2>2. QED
    BY <2>1, Zenon DEF flush
<1>4. TypeOK'
  BY <1>1, <1>2, <1>3 DEF IInv, TypeOK
<1>5. QED
  BY <1>1, <1>2, <1>4 DEF IInv, Core

\* The system moves bytes towards the reader, which never takes what it was promised.
LEMMA TransmitInv == IInv /\ Transmit => IInv'
<1>1. SUFFICES ASSUME IInv, Transmit PROVE IInv'
  OBVIOUS
<1>2. /\ UNCHANGED <<from, to, asks, link, writer, left, written, reader, received>>
      /\ fifo # <<>> /\ fifo' = Tail(fifo)
      /\ \/ rx' = rx
         \/ Len(rx) < RxCap /\ rx' = Append(rx, Head(fifo))
  BY <1>1 DEF Transmit, kinds, writerVars
<1>3. /\ fifo' \in Seq(1..written) /\ Len(fifo') < Len(fifo) /\ Len(fifo) <= FifoCap
      /\ Len(fifo) \in Nat /\ Len(fifo') \in Nat
      /\ Head(fifo) \in 1..written
  BY <1>1, <1>2, HeadTailProperties DEF IInv, TypeOK
<1>4. rx' \in Seq(1..written) /\ Len(rx') <= RxCap /\ (rx' = <<>> => rx = <<>>)
  <2>1. rx \in Seq(1..written) /\ Len(rx) <= RxCap
    BY <1>1 DEF IInv, TypeOK
  <2>2. CASE Len(rx) < RxCap /\ rx' = Append(rx, Head(fifo))
    BY <1>3, <2>1, <2>2, AppendProperties, LenProperties, Constants
  <2>3. QED
    BY <1>2, <2>1, <2>2
<1>5. pushed' \in BOOLEAN /\ (from # "usb" => pushed')
  BY <1>1, Zenon DEF Transmit
<1>6. TypeOK'
  <2>1. Len(fifo') <= FifoCap
    BY <1>3, Constants
  <2>2. QED
    BY <1>1, <1>2, <1>3, <1>4, <1>5, <2>1 DEF IInv, TypeOK
<1>7. faulty' \in BOOLEAN /\ (faulty => faulty')
  BY <1>1, Zenon DEF Transmit, IInv
<1>8. Room'
  BY <1>3, Constants DEF Room
<1>9. QED
  BY <1>1, <1>2, <1>4, <1>6, <1>7, <1>8 DEF IInv, Core

\* A link that goes down empties the buffer of an end without a promise only.
LEMMA DownInv == IInv /\ Down => IInv'
<1>1. SUFFICES ASSUME IInv, Down PROVE IInv'
  OBVIOUS
<1>2. /\ UNCHANGED <<from, to, asks, writer, left, written, fifo, pushed, reader, received>>
      /\ link = "up" /\ link' = "down"
      /\ rx' = IF to = "linux" THEN <<>> ELSE rx
  BY <1>1 DEF Down, kinds, writerVars
<1>3. faulty' = TRUE
  BY <1>1 DEF Down
<1>4. rx' \in Seq(1..written) /\ Len(rx') <= RxCap
  BY <1>1, <1>2, EmptyBuffers DEF IInv, TypeOK
<1>5. TypeOK'
  BY <1>1, <1>2, <1>4 DEF IInv, TypeOK
<1>6. asks /\ writer = "writing" /\ left = PacketLen => Room
  BY <1>1, <1>2 DEF IInv
<1>7. (asks /\ writer = "writing" /\ left = PacketLen => Room)'
  BY <1>2, <1>6 DEF Room
<1>8. (asks /\ reader = "asked" /\ rx = <<>> => link = "down" /\ ~Core(to))'
  <2>1. asks /\ reader = "asked" => rx # <<>>
    BY <1>1, <1>2 DEF IInv
  <2>2. to = "linux" => ~Core(to)
    BY DEF Core
  <2>3. QED
    BY <1>2, <2>1, <2>2 DEF Core
<1>9. QED
  BY <1>1, <1>2, <1>3, <1>5, <1>7, <1>8 DEF IInv

\* A port is not opened between asking and acting.
LEMMA LinuxSerialBus_openInv == IInv /\ LinuxSerialBus_open => IInv'
<1>1. SUFFICES ASSUME IInv, LinuxSerialBus_open PROVE IInv'
  OBVIOUS
<1>2. /\ UNCHANGED <<from, to, asks, writer, left, written, pushed, reader, received, faulty>>
      /\ link = "down" /\ link' = "up" /\ ~Tcp
      /\ IF to = "linux" THEN reader = "top" ELSE writer = "idle"
      /\ IF to = "linux" THEN rx' = <<>> /\ fifo' = fifo ELSE fifo' = <<>> /\ rx' = rx
  BY <1>1 DEF LinuxSerialBus_open, kinds, writerVars
<1>3. TypeOK'
  <2>1. /\ fifo' \in Seq(1..written) /\ Len(fifo') <= FifoCap
        /\ rx' \in Seq(1..written) /\ Len(rx') <= RxCap
    BY <1>1, <1>2, EmptyBuffers DEF IInv, TypeOK
  <2>2. QED
    BY <1>1, <1>2, <2>1 DEF IInv, TypeOK
<1>4. (to = "linux" /\ Core(from)) \/ (from = "linux" /\ Core(to))
  BY <1>1, <1>2, EndKinds DEF IInv, TypeOK
<1>5. CASE to = "linux"
  <2>1. reader' = "top" /\ fifo' = fifo
    BY <1>2, <1>5
  <2>2. asks /\ writer = "writing" /\ left = PacketLen => Room
    <3>1. Core(from)
      BY <1>4, <1>5 DEF Core
    <3>2. QED
      BY <1>1, <3>1 DEF IInv
  <2>3. (asks /\ writer = "writing" /\ left = PacketLen => Room)'
    BY <1>2, <2>1, <2>2 DEF Room
  <2>4. QED
    BY <1>1, <1>2, <1>3, <2>1, <2>3 DEF IInv
<1>6. CASE to # "linux"
  <2>1. writer' = "idle" /\ rx' = rx
    BY <1>2, <1>6
  <2>2. Core(to)
    BY <1>4, <1>6
  <2>3. asks /\ reader = "asked" => rx # <<>>
    BY <1>1, <2>2 DEF IInv
  <2>4. QED
    BY <1>1, <1>2, <1>3, <2>1, <2>3 DEF IInv
<1>7. QED
  BY <1>5, <1>6

\* readByte finds the byte that isDataAvailable promised.
LEMMA ReceivingInv == IInv /\ Receiving => IInv'
<1>1. SUFFICES ASSUME IInv, Receiving PROVE IInv'
  OBVIOUS
<1>2. UNCHANGED <<from, to, asks, link, writer, left, written, fifo, pushed, faulty>>
  BY <1>1 DEF Receiving, IsDataAvailable, ReadByte, ReadNothing, kinds, writerVars
<1>3. (asks /\ writer = "writing" /\ left = PacketLen /\ ~Room
         => link = "down" /\ ~Core(from))'
  BY <1>1, <1>2 DEF IInv, Room, Core
<1>4. CASE IsDataAvailable
  <2>1. UNCHANGED <<rx, received>> /\ reader' = "asked"
    BY <1>4 DEF IsDataAvailable
  <2>2. rx = <<>> => link = "down" /\ ~Core(to)
    BY <1>4 DEF IsDataAvailable, isDataAvailable, Polled, Core
  <2>3. TypeOK'
    BY <1>1, <1>2, <2>1 DEF IInv, TypeOK
  <2>4. QED
    BY <1>1, <1>2, <1>3, <2>1, <2>2, <2>3 DEF IInv, Core
<1>5. CASE ReadByte
  <2>1. /\ rx # <<>> /\ rx' = Tail(rx) /\ reader' = "top"
        /\ received' = Append(received, Head(rx))
    BY <1>5 DEF ReadByte
  <2>2. /\ rx \in Seq(1..written) /\ Len(rx) <= RxCap /\ written \in Nat
        /\ received \in Seq(Nat)
    BY <1>1 DEF IInv, TypeOK
  <2>3. rx' \in Seq(1..written) /\ Len(rx') <= RxCap /\ Head(rx) \in 1..written
    BY <2>1, <2>2, HeadTailProperties, LenProperties, Constants
  <2>4. received' \in Seq(Nat)
    BY <2>1, <2>2, <2>3, AppendProperties
  <2>5. TypeOK'
    BY <1>1, <1>2, <2>1, <2>3 DEF IInv, TypeOK
  <2>6. QED
    BY <1>1, <1>2, <1>3, <2>1, <2>4, <2>5 DEF IInv
<1>6. CASE ReadNothing
  <2>1. UNCHANGED <<rx, received>> /\ rx = <<>> /\ reader' \in {"waiting", "top"}
    BY <1>6 DEF ReadNothing
  <2>2. asks => reader' = "top"
    <3>1. SUFFICES ASSUME asks PROVE reader' = "top"
      OBVIOUS
    <3>2. reader = "asked"
      BY <1>1, <1>6, <3>1 DEF ReadNothing, Reading, IInv
    <3>3. link = "down"
      BY <1>1, <2>1, <3>1, <3>2 DEF IInv
    <3>4. QED
      BY <1>6, <3>3 DEF ReadNothing, Blocks
  <2>3. TypeOK'
    BY <1>1, <1>2, <2>1 DEF IInv, TypeOK
  <2>4. QED
    BY <1>1, <1>2, <1>3, <2>1, <2>2, <2>3 DEF IInv
<1>7. QED
  BY <1>1, <1>4, <1>5, <1>6 DEF Receiving

\* The inductive step: one action after another.
LEMMA NextInv == IInv /\ [Next]_vars => IInv'
<1>1. SUFFICES ASSUME IInv, [Next]_vars PROVE IInv'
  OBVIOUS
<1>2. CASE Next
  BY <1>1, <1>2, WritePacketInv, WriteByteInv, FlushInv, TransmitInv, DownInv,
     LinuxSerialBus_openInv, ReceivingInv
  DEF Next, Writing
<1>3. CASE UNCHANGED vars
  BY <1>1, <1>3 DEF vars, IInv, TypeOK, Room, Core
<1>4. QED
  BY <1>1, <1>2, <1>3

(***************************************************************************)
(* Whatever the buses do, IInv holds: the theorems below rest on it.        *)
(***************************************************************************)
THEOREM Inductive == Spec => []IInv
BY InitInv, NextInv, PTL DEF Spec

(***************************************************************************)
(* Transport's variables keep their types and the buffers their sizes.     *)
(***************************************************************************)
THEOREM TypeCorrect == Spec => []TypeOK
<1>1. IInv => TypeOK
  BY DEF IInv
<1>2. QED
  BY <1>1, Inductive, PTL

(***************************************************************************)
(* What isDataAvailable and isSpaceAvailable said is still so when the     *)
(* application acts on it, on every bus: readByte does not wait, and the   *)
(* first byte of a frame is neither waited for nor dropped for room.       *)
(***************************************************************************)
THEOREM AnswersAreKept == Spec => []AnswersHold
<1>1. IInv => AnswersHold
  BY DEF IInv, AnswersHold
<1>2. QED
  BY <1>1, Inductive, PTL
-----------------------------------------------------------------------------
(***************************************************************************)
(* The two buffers as the one sequence of ByteStream: what appending to,    *)
(* taking from or emptying either of them does to r \o f.                   *)
(***************************************************************************)
LEMMA ConcatAppend ==
  ASSUME NEW r \in Seq(Nat), NEW f \in Seq(Nat), NEW n \in Nat
  PROVE  r \o Append(f, n) = Append(r \o f, n)
<1>1. /\ Append(f, n) = f \o <<n>> /\ <<n>> \in Seq(Nat)
      /\ r \o f \in Seq(Nat)
  BY AppendIsConcat, ConcatProperties
<1>2. Append(r \o f, n) = (r \o f) \o <<n>>
  BY <1>1, AppendIsConcat
<1>3. (r \o f) \o <<n>> = r \o (f \o <<n>>)
  BY <1>1, ConcatAssociative
<1>4. QED
  BY <1>1, <1>2, <1>3

\* Moving the head of one sequence to the end of the one before leaves their concatenation as it is.
LEMMA ConcatShift ==
  ASSUME NEW r \in Seq(Nat), NEW f \in Seq(Nat), f # <<>>
  PROVE  Append(r, Head(f)) \o Tail(f) = r \o f
<1>1. /\ Head(f) \in Nat /\ Tail(f) \in Seq(Nat) /\ Len(f) \in Nat \ {0}
      /\ Len(Tail(f)) = Len(f) - 1 /\ Head(f) = f[1]
      /\ \A i \in 1..(Len(f) - 1) : Tail(f)[i] = f[i + 1]
  BY HeadTailProperties, EmptySeq
<1>2. /\ Append(r, Head(f)) \in Seq(Nat)
      /\ Len(Append(r, Head(f))) = Len(r) + 1 /\ Len(r) \in Nat
      /\ \A i \in 1..Len(r) : Append(r, Head(f))[i] = r[i]
      /\ Append(r, Head(f))[Len(r) + 1] = f[1]
  BY <1>1, AppendProperties, LenProperties
<1>3. /\ r \o f \in Seq(Nat) /\ Len(r \o f) = Len(r) + Len(f)
      /\ \A i \in 1..(Len(r) + Len(f)) :
           (r \o f)[i] = IF i <= Len(r) THEN r[i] ELSE f[i - Len(r)]
  BY ConcatProperties
<1>4. DEFINE a == Append(r, Head(f))
             t == Tail(f)
<1>5. /\ a \o t \in Seq(Nat) /\ Len(a \o t) = Len(a) + Len(t)
      /\ \A i \in 1..(Len(a) + Len(t)) :
           (a \o t)[i] = IF i <= Len(a) THEN a[i] ELSE t[i - Len(a)]
  BY <1>1, <1>2, ConcatProperties
<1>6. Len(a) = Len(r) + 1 /\ Len(t) = Len(f) - 1
  BY <1>1, <1>2
<1>7. ASSUME NEW i \in 1..(Len(r) + Len(f))
      PROVE  (a \o t)[i] = (r \o f)[i]
  <2>0. Len(r) \in Nat /\ Len(f) \in Nat \ {0}
    BY <1>1, <1>2
  <2>1. CASE i <= Len(r)
    <3>1. (a \o t)[i] = a[i] /\ a[i] = r[i]
      BY <1>2, <1>5, <1>6, <2>0, <2>1
    <3>2. QED
      BY <1>3, <2>1, <3>1
  <2>2. CASE i = Len(r) + 1
    <3>1. (a \o t)[i] = a[i] /\ a[i] = f[1]
      BY <1>2, <1>5, <1>6, <2>0, <2>2
    <3>2. (r \o f)[i] = f[1]
      BY <1>3, <2>0, <2>2
    <3>3. QED
      BY <3>1, <3>2
  <2>3. CASE i > Len(r) + 1
    <3>1. (a \o t)[i] = t[i - Len(a)]
      BY <1>5, <1>6, <2>0, <2>3
    <3>2. t[i - Len(a)] = f[i - Len(r)]
      BY <1>1, <1>6, <2>0, <2>3
    <3>3. (r \o f)[i] = f[i - Len(r)]
      BY <1>3, <2>0, <2>3
    <3>4. QED
      BY <3>1, <3>2, <3>3
  <2>4. QED
    BY <2>0, <2>1, <2>2, <2>3
<1>8. Len(a \o t) = Len(r \o f)
  BY <1>1, <1>2, <1>3, <1>5, <1>6
<1>9. QED
  BY <1>3, <1>5, <1>7, <1>8, SeqEqual

\* The head of a concatenation is that of its first part.
LEMMA ConcatTake ==
  ASSUME NEW r \in Seq(Nat), NEW f \in Seq(Nat), r # <<>>
  PROVE  /\ r \o f # <<>>
         /\ Head(r \o f) = Head(r)
         /\ Tail(r \o f) = Tail(r) \o f
<1>1. /\ Head(r) \in Nat /\ Tail(r) \in Seq(Nat) /\ Len(r) \in Nat \ {0} /\ Len(f) \in Nat
      /\ Len(Tail(r)) = Len(r) - 1 /\ Head(r) = r[1]
      /\ \A i \in 1..(Len(r) - 1) : Tail(r)[i] = r[i + 1]
  BY HeadTailProperties, EmptySeq, LenProperties
<1>2. /\ r \o f \in Seq(Nat) /\ Len(r \o f) = Len(r) + Len(f)
      /\ \A i \in 1..(Len(r) + Len(f)) :
           (r \o f)[i] = IF i <= Len(r) THEN r[i] ELSE f[i - Len(r)]
  BY ConcatProperties
<1>3. r \o f # <<>>
  BY <1>1, <1>2, EmptySeq
<1>4. Head(r \o f) = Head(r)
  BY <1>1, <1>2, <1>3
<1>5. /\ Tail(r \o f) \in Seq(Nat) /\ Len(Tail(r \o f)) = Len(r) + Len(f) - 1
      /\ \A i \in 1..(Len(r) + Len(f) - 1) : Tail(r \o f)[i] = (r \o f)[i + 1]
  BY <1>1, <1>2, <1>3, HeadTailProperties
<1>6. DEFINE t == Tail(r)
<1>7. /\ t \o f \in Seq(Nat) /\ Len(t \o f) = Len(t) + Len(f)
      /\ \A i \in 1..(Len(t) + Len(f)) :
           (t \o f)[i] = IF i <= Len(t) THEN t[i] ELSE f[i - Len(t)]
  BY <1>1, ConcatProperties
<1>8. Len(t) = Len(r) - 1
  BY <1>1
<1>9. ASSUME NEW i \in 1..(Len(r) + Len(f) - 1)
      PROVE  Tail(r \o f)[i] = (t \o f)[i]
  <2>1. CASE i <= Len(t)
    <3>1. (t \o f)[i] = t[i] /\ t[i] = r[i + 1]
      BY <1>1, <1>7, <1>8, <2>1
    <3>2. QED
      BY <1>1, <1>2, <1>5, <1>8, <2>1, <3>1
  <2>2. CASE i > Len(t)
    <3>1. (t \o f)[i] = f[i - Len(t)]
      BY <1>1, <1>7, <1>8, <2>2
    <3>2. (r \o f)[i + 1] = f[i - Len(t)]
      BY <1>1, <1>2, <1>8, <2>2
    <3>3. QED
      BY <1>5, <3>1, <3>2
  <2>3. QED
    BY <1>1, <1>8, <2>1, <2>2
<1>10. Len(t \o f) = Len(r) + Len(f) - 1
  BY <1>1, <1>7, <1>8
<1>11. Tail(r \o f) = t \o f
  BY <1>5, <1>7, <1>9, <1>10, SeqEqual
<1>12. QED
  BY <1>3, <1>4, <1>11

\* A concatenation consists of its parts.
LEMMA ConcatParts ==
  ASSUME NEW r \in Seq(Nat), NEW f \in Seq(Nat)
  PROVE  /\ SubSeq(r \o f, 1, Len(r)) = r
         /\ SubSeq(r \o f, Len(r) + 1, Len(r \o f)) = f
<1> DEFINE s == r \o f
           h == SubSeq(s, 1, Len(r))
           t == SubSeq(s, Len(r) + 1, Len(s))
<1>1. /\ Len(r) \in Nat /\ Len(f) \in Nat
      /\ s \in Seq(Nat) /\ Len(s) = Len(r) + Len(f)
      /\ \A i \in 1..(Len(r) + Len(f)) : s[i] = IF i <= Len(r) THEN r[i] ELSE f[i - Len(r)]
  BY ConcatProperties, LenProperties
<1> HIDE DEF s
<1>2. \A i \in 1..Len(s) : s[i] \in Nat
  BY <1>1, ElementOfSeq
<1>3. h = r
  <2>1. \A i \in 1..Len(r) : s[i] \in Nat
    BY <1>1, <1>2
  <2>2. /\ h \in Seq(Nat)
        /\ Len(h) = IF 1 <= Len(r) THEN Len(r) - 1 + 1 ELSE 0
        /\ \A i \in 1..(Len(r) - 1 + 1) : h[i] = s[1 + i - 1]
    BY <1>1, <2>1, SubSeqProperties
  <2>3. Len(h) = Len(r)
    BY <1>1, <2>2
  <2>4. \A i \in 1..Len(h) : h[i] = r[i]
    BY <1>1, <2>2, <2>3
  <2>5. QED
    BY <2>2, <2>3, <2>4, SeqEqual
<1>4. t = f
  <2>1. \A i \in (Len(r) + 1)..Len(s) : s[i] \in Nat
    BY <1>1, <1>2
  <2>2. /\ t \in Seq(Nat)
        /\ Len(t) = IF Len(r) + 1 <= Len(s) THEN Len(s) - (Len(r) + 1) + 1 ELSE 0
        /\ \A i \in 1..(Len(s) - (Len(r) + 1) + 1) : t[i] = s[Len(r) + 1 + i - 1]
    BY <1>1, <2>1, SubSeqProperties
  <2>3. Len(t) = Len(f)
    BY <1>1, <2>2
  <2>4. \A i \in 1..Len(t) : t[i] = f[i]
    <3>1. TAKE i \in 1..Len(t)
    <3>2. t[i] = s[Len(r) + i]
      BY <1>1, <2>2, <2>3
    <3>3. i \in 1..Len(f) /\ Len(r) + i \in 1..(Len(r) + Len(f))
          /\ ~(Len(r) + i <= Len(r)) /\ Len(r) + i - Len(r) = i
      BY <1>1, <2>3
    <3>4. s[Len(r) + i] = f[Len(r) + i - Len(r)]
      BY <1>1, <3>3
    <3>5. QED
      BY <3>2, <3>3, <3>4
  <2>5. QED
    BY <2>2, <2>3, <2>4, SeqEqual
<1>5. QED
  BY <1>3, <1>4 DEF s

\* t is s without a stretch of it, as in ByteStream's Lose.
WithoutStretch(s, t) ==
  \E i \in 0..Len(s) : \E j \in (i + 1)..(Len(s) + 1) :
    t = SubSeq(s, 1, i) \o SubSeq(s, j, Len(s))

\* Leaving out what lies between two parts loses a stretch, as ByteStream has it.
LEMMA StretchLost ==
  ASSUME NEW r \in Seq(Nat), NEW u \in Seq(Nat), NEW f \in Seq(Nat)
  PROVE  WithoutStretch((r \o u) \o f, r \o f)
<1> DEFINE s == (r \o u) \o f
<1>1. /\ r \o u \in Seq(Nat) /\ u \o f \in Seq(Nat)
      /\ Len(r \o u) = Len(r) + Len(u)
      /\ Len(s) = Len(r) + Len(u) + Len(f)
      /\ Len(r) \in Nat /\ Len(u) \in Nat /\ Len(f) \in Nat
  BY ConcatProperties, LenProperties
<1>2. s = r \o (u \o f)
  BY ConcatAssociative
<1> HIDE DEF s
<1>3. SubSeq(s, 1, Len(r)) = r
  BY <1>1, <1>2, ConcatParts
<1>4. SubSeq(s, Len(r) + Len(u) + 1, Len(s)) = f
  BY <1>1, ConcatParts DEF s
<1>5. Len(r) \in 0..Len(s)
      /\ Len(r) + Len(u) + 1 \in (Len(r) + 1)..(Len(s) + 1)
  BY <1>1
<1>6. WithoutStretch(s, r \o f)
  BY <1>3, <1>4, <1>5 DEF WithoutStretch
<1>7. QED
  BY <1>6 DEF s
-----------------------------------------------------------------------------
(***************************************************************************)
(* Every step of the buses and their buffers is one of ByteStream's.       *)
(***************************************************************************)
LEMMA Buffers ==
  ASSUME IInv
  PROVE  /\ fifo \in Seq(Nat) /\ rx \in Seq(Nat)
         /\ written \in Nat /\ received \in Seq(Nat)
         /\ faulty \in BOOLEAN /\ (link = "down" => faulty)
<1>1. \A s \in Seq(1..written) : s \in Seq(Nat)
  BY DEF IInv
<1>2. QED
  BY <1>1 DEF IInv, TypeOK

\* writeByte puts a byte on the stream, or drops it.
LEMMA WriteByteStream == IInv /\ WriteByte => Stream!Put \/ Stream!Refuse
<1>1. SUFFICES ASSUME IInv, WriteByte PROVE Stream!Put \/ Stream!Refuse
  OBVIOUS
<1>2. PICK outcome \in writeByte \ {"waits"} :
        fifo' = IF outcome = "sent" THEN Append(fifo, written') ELSE fifo
  BY <1>1 DEF WriteByte
<1>3. /\ written' = written + 1 /\ rx' = rx /\ received' = received
      /\ outcome \in {"sent", "dropped", "kills", "raises"}
      /\ outcome = "sent" => Room
      /\ outcome # "sent" => link = "down" \/ ~Room
  BY <1>1, Outcomes DEF WriteByte, IInv, TypeOK
<1>4. faulty' = (faulty \/ link = "down" \/ ~Room)
  BY <1>1 DEF WriteByte
<1>5. CASE outcome = "sent"
  <2>1. faulty' = faulty
    BY <1>3, <1>4, <1>5, Buffers, <1>1, Zenon
  <2>2. rx' \o fifo' = Append(rx \o fifo, written')
    BY <1>1, <1>2, <1>3, <1>5, Buffers, ConcatAppend
  <2>3. Stream!Put
    BY <1>3, <2>1, <2>2 DEF Stream!Put
  <2>4. QED
    BY <2>3
<1>6. CASE outcome # "sent"
  <2>1. faulty' = TRUE
    BY <1>3, <1>4, <1>6, Zenon
  <2>2. rx' \o fifo' = rx \o fifo
    BY <1>2, <1>3, <1>6
  <2>3. Stream!Refuse
    BY <1>3, <2>1, <2>2 DEF Stream!Refuse
  <2>4. QED
    BY <2>3
<1>7. QED
  BY <1>5, <1>6

\* Moving bytes changes nothing, or a full receiver loses some.
LEMMA TransmitStream ==
  IInv /\ Transmit => Stream!Lose \/ UNCHANGED Stream!vars
<1>1. SUFFICES ASSUME IInv, Transmit PROVE Stream!Lose \/ UNCHANGED Stream!vars
  OBVIOUS
<1>2. /\ fifo # <<>> /\ fifo' = Tail(fifo)
      /\ written' = written /\ received' = received
  BY <1>1 DEF Transmit, writerVars
<1>3. fifo \in Seq(Nat) /\ rx \in Seq(Nat)
  BY <1>1, Buffers
<1>4. CASE rx' = Append(rx, Head(fifo)) /\ UNCHANGED faulty
  <2>1. rx' \o fifo' = rx \o fifo
    BY <1>2, <1>3, <1>4, ConcatShift
  <2>2. QED
    BY <1>2, <1>4, <2>1 DEF Stream!vars
<1>5. CASE faulty' = TRUE /\ UNCHANGED rx
  <2>1. /\ Head(fifo) \in Nat /\ Tail(fifo) \in Seq(Nat)
        /\ <<Head(fifo)>> \in Seq(Nat) /\ <<>> \in Seq(Nat)
    BY <1>2, <1>3, HeadTailProperties
  <2>2. rx \o fifo = (rx \o <<Head(fifo)>>) \o Tail(fifo)
    <3>1. Append(rx, Head(fifo)) = rx \o <<Head(fifo)>>
      BY <1>3, <2>1, AppendIsConcat
    <3>2. Append(rx, Head(fifo)) \o Tail(fifo) = rx \o fifo
      BY <1>2, <1>3, ConcatShift
    <3>3. QED
      BY <3>1, <3>2
  <2>3. WithoutStretch(rx \o fifo, rx \o Tail(fifo))
    BY <1>3, <2>1, <2>2, StretchLost
  <2>4. Stream!Lose
    BY <1>2, <1>5, <2>3 DEF Stream!Lose, WithoutStretch
  <2>5. QED
    BY <2>4
<1>6. QED
  BY <1>1, <1>4, <1>5, Zenon DEF Transmit

\* A link that goes down loses a stretch of them.
LEMMA DownStream == IInv /\ Down => Stream!Lose
<1>1. SUFFICES ASSUME IInv, Down PROVE Stream!Lose
  OBVIOUS
<1>2. /\ fifo' = fifo /\ written' = written /\ received' = received
      /\ rx' = IF to = "linux" THEN <<>> ELSE rx
      /\ faulty' = TRUE
  BY <1>1 DEF Down, writerVars
<1>3. fifo \in Seq(Nat) /\ rx \in Seq(Nat) /\ <<>> \in Seq(Nat)
  BY <1>1, Buffers
<1>4. <<>> \o rx = rx /\ rx \o <<>> = rx
  BY <1>3, ConcatEmptySeq
<1>5. WithoutStretch(rx \o fifo, rx' \o fifo)
  <2>1. WithoutStretch((<<>> \o rx) \o fifo, <<>> \o fifo)
    BY <1>3, StretchLost
  <2>2. WithoutStretch((rx \o <<>>) \o fifo, rx \o fifo)
    BY <1>3, StretchLost
  <2>3. QED
    BY <1>2, <1>4, <2>1, <2>2
<1>6. QED
  BY <1>2, <1>5 DEF Stream!Lose, WithoutStretch

\* An open that flushes loses a stretch of them.
LEMMA LinuxSerialBus_openStream == IInv /\ LinuxSerialBus_open => Stream!Lose
<1>1. SUFFICES ASSUME IInv, LinuxSerialBus_open PROVE Stream!Lose
  OBVIOUS
<1>2. /\ written' = written /\ received' = received /\ faulty' = faulty /\ link = "down"
      /\ IF to = "linux" THEN rx' = <<>> /\ fifo' = fifo ELSE fifo' = <<>> /\ rx' = rx
  BY <1>1 DEF LinuxSerialBus_open, writerVars
<1>3. fifo \in Seq(Nat) /\ rx \in Seq(Nat) /\ <<>> \in Seq(Nat)
  BY <1>1, Buffers
<1>4. faulty' = TRUE
  BY <1>1, <1>2, Buffers, Zenon
<1>5. <<>> \o rx = rx /\ (rx \o fifo) \o <<>> = rx \o fifo
  BY <1>3, ConcatEmptySeq, ConcatProperties
<1>6. WithoutStretch(rx \o fifo, rx' \o fifo')
  <2>1. WithoutStretch((<<>> \o rx) \o fifo, <<>> \o fifo)
    BY <1>3, StretchLost
  <2>2. WithoutStretch((rx \o fifo) \o <<>>, rx \o <<>>)
    BY <1>3, StretchLost
  <2>3. QED
    BY <1>2, <1>5, <2>1, <2>2
<1>7. QED
  BY <1>2, <1>4, <1>6 DEF Stream!Lose, WithoutStretch

\* readByte takes the oldest.
LEMMA ReadByteStream == IInv /\ ReadByte => Stream!Take
<1>1. SUFFICES ASSUME IInv, ReadByte PROVE Stream!Take
  OBVIOUS
<1>2. /\ rx # <<>> /\ rx' = Tail(rx) /\ received' = Append(received, Head(rx))
      /\ fifo' = fifo /\ written' = written /\ faulty' = faulty
  BY <1>1 DEF ReadByte, writerVars
<1>3. /\ rx \o fifo # <<>>
      /\ Head(rx \o fifo) = Head(rx)
      /\ Tail(rx \o fifo) = Tail(rx) \o fifo
  BY <1>1, <1>2, Buffers, ConcatTake
<1>4. QED
  BY <1>2, <1>3 DEF Stream!Take

\* Every step is one of the stream, or none.
LEMMA NextStream == IInv /\ [Next]_vars => [Stream!Next]_(Stream!vars)
<1>1. SUFFICES ASSUME IInv, [Next]_vars PROVE Stream!Next \/ UNCHANGED Stream!vars
  BY DEF Stream!vars
<1>2. CASE WriteByte \/ Transmit \/ Down \/ LinuxSerialBus_open \/ ReadByte
  BY <1>1, <1>2, WriteByteStream, TransmitStream, DownStream, LinuxSerialBus_openStream,
     ReadByteStream
  DEF Stream!Next
<1>3. CASE WritePacket \/ Flush \/ IsDataAvailable \/ ReadNothing \/ UNCHANGED vars
  <2>1. UNCHANGED <<rx, fifo, written, received, faulty>>
    BY <1>3 DEF WritePacket, Flush, IsDataAvailable, ReadNothing, vars, writerVars
  <2>2. QED
    BY <2>1 DEF Stream!vars
<1>4. QED
  BY <1>1, <1>2, <1>3 DEF Next, Writing, Receiving

(***************************************************************************)
(* Whatever the buses, the buffers and the frames: the bytes readByte gives *)
(* the decoder are bytes that writeByte was given, in order and none twice, *)
(* and none is lost until the link has gone down or a buffer been full.    *)
(***************************************************************************)
THEOREM TransportImplementsStream == Spec => ImplementsStream
<1>1. Init => Stream!Init
  <2>1. SUFFICES ASSUME Init PROVE Stream!Init
    OBVIOUS
  <2>2. written = 0 /\ rx = <<>> /\ fifo = <<>> /\ received = <<>>
    BY <2>1 DEF Init
  <2>3. faulty = FALSE
    BY <2>1 DEF Init
  <2>4. rx \o fifo = <<>>
    BY <2>2, ConcatEmptySeq
  <2>5. QED
    BY <2>2, <2>3, <2>4 DEF Stream!Init
<1>2. QED
  BY <1>1, NextStream, Inductive, PTL DEF Spec, ImplementsStream, Stream!Spec
=============================================================================
