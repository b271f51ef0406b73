----------------------------- MODULE NoisyLink -----------------------------
(***************************************************************************)
(* Link over a stream that is not intact. A byte is lost where a writeByte *)
(* has nowhere to put it (PicoUsbBus::writeByte drops it while the host    *)
(* has not opened the port and ignores the count tud_cdc_n_write returns;  *)
(* LinuxSerialBus::writeByte ignores the result of write), and a serial    *)
(* line may change a byte or add one.                                      *)
(*                                                                         *)
(* first and last are history variables: the lowest and the highest number *)
(* of a packet that a fault hit, in the order of writing, 0 before any.    *)
(***************************************************************************)
EXTENDS Link

CONSTANT MaxFaults      \* bound: faults in a behaviour

ASSUME MaxFaultsAssumption == MaxFaults \in Nat

VARIABLES faults, first, last

noise == <<faults, first, last>>

noisyVars == <<vars, noise>>

NoisyInit == Init /\ faults = 0 /\ first = 0 /\ last = 0

\* A fault strikes the n-th packet.
Hit(n) ==
  /\ faults < MaxFaults
  /\ faults' = faults + 1
  /\ first' = IF first = 0 \/ n < first THEN n ELSE first
  /\ last' = IF n > last THEN n ELSE last

\* writeByte drops the byte, and writePacket's loop goes on regardless.
LoseByte ==
  /\ busy
  /\ Hit(Len(sent))
  /\ enc' = Encoded.enc
  /\ busy' = (Encoded.err = "NOT_DONE")
  /\ UNCHANGED <<dir, wire, dec, err, sent, rcvd, src>>

\* The line turns the oldest byte in flight into another one.
ChangeByte ==
  /\ wire # <<>>
  /\ Hit(Head(src).n)
  /\ \E byte \in Byte \ {Head(wire)} : wire' = <<byte>> \o Tail(wire)
  /\ UNCHANGED <<dir, enc, busy, dec, err, sent, rcvd, src>>

\* The line adds a byte, in a frame or between the last one and the next.
AddByte ==
  /\ Len(wire) < WireCap
  /\ Hit(Current.n)
  /\ \E byte \in Byte : wire' = Append(wire, byte)
  /\ src' = Append(src, Current)
  /\ UNCHANGED <<dir, enc, busy, dec, err, sent, rcvd>>

NoisyNext ==
  \/ Next /\ UNCHANGED noise
  \/ LoseByte
  \/ ChangeByte
  \/ AddByte

NoisySpec == NoisyInit /\ [][NoisyNext]_noisyVars
-----------------------------------------------------------------------------
Quiet == wire = <<>> /\ ~busy

\* a is the end of b.
Ends(a, b) == Len(a) <= Len(b) /\ SubSeq(b, Len(b) - Len(a) + 1, Len(b)) = a

\* A fault reaches neither back in time nor across an intact stream: the packets
\* written before the first one hit arrive as written, ahead of anything the
\* faulty bytes are taken for, and without a fault all of them do.
Unhit ==
  LET sound == IF first = 0 THEN Len(sent) ELSE first - 1
  IN  /\ \A i \in 1..sound : i <= Len(rcvd) => rcvd[i] = sent[i]
      /\ Quiet => Len(rcvd) >= sound

\* The Python decoder recovers: a fault costs the host the packet it hits and
\* at most the one that follows. Every later packet is received, whatever the
\* faulty bytes were taken for: a lost or forged END, a lost, forged or cut
\* escape, a frame too short, too long or with a bad CRC.
HostRecovers ==
  Quiet /\ dir = "toHost" => Ends(SubSeq(sent, last + 2, Len(sent)), rcvd)

=============================================================================
