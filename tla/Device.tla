------------------------------- MODULE Device -------------------------------
(***************************************************************************)
(* A device as its host may take it to be: it answers each command at most  *)
(* once and in the order in which they come, sends messages of its own in   *)
(* between, and loses and cuts frames only if its port was not open all     *)
(* along or had no room for what it wrote. HostBus takes its environment's  *)
(* steps from here; DeviceBus implements it.                                *)
(***************************************************************************)
EXTENDS Naturals, Sequences, Frames

VARIABLES
  received,     \* the number of the latest command
  pending,      \* the commands it has not yet dealt with
  ignored,      \* how many called for no answer
  frames,       \* the frames on the line
  steady        \* the host has had the port open, and read from it, from the beginning

vars == <<received, pending, ignored, frames, steady>>

Init ==
  /\ received = 0 /\ ignored = 0
  /\ pending = <<>> /\ frames = <<>>
  /\ steady \in BOOLEAN

Receive ==
  /\ received' = received + 1
  /\ pending' = Append(pending, received')
  /\ UNCHANGED <<ignored, frames, steady>>

Done == pending # <<>> /\ pending' = Tail(pending)

Answer ==
  /\ Done
  /\ frames' = Append(frames, Response(Head(pending)))
  /\ UNCHANGED <<received, ignored, steady>>

Ignore ==
  /\ Done
  /\ ignored' = ignored + 1
  /\ UNCHANGED <<received, frames, steady>>

Lose ==
  /\ ~steady
  /\ Done
  /\ UNCHANGED <<received, ignored, frames, steady>>

Send(kind) ==
  /\ frames' = Append(frames, Message(kind))
  /\ UNCHANGED <<received, pending, ignored, steady>>

Truncate ==
  /\ ~steady
  /\ frames' = Append(frames, Cut)
  /\ Done \/ UNCHANGED pending
  /\ UNCHANGED <<received, ignored, steady>>

Unplug ==
  /\ steady' = FALSE
  /\ UNCHANGED <<received, pending, ignored, frames>>

Next ==
  \/ Receive \/ Answer \/ Ignore \/ Lose \/ Truncate \/ Unplug
  \/ \E kind \in {"LOG", "EVENT"} : Send(kind)

Spec == Init /\ [][Next]_vars
=============================================================================
