----------------------------- MODULE PacketPipe -----------------------------
(***************************************************************************)
(* What a bus promises while its byte stream is intact: packets arrive     *)
(* whole, once, and in the order in which they were written.               *)
(***************************************************************************)
EXTENDS Naturals, Sequences

CONSTANT Payload        \* the packets that may be written

VARIABLES
  sent,                 \* packets handed to writePacket, in order
  rcvd                  \* packets the decoder completed, in order

vars == <<sent, rcvd>>

Init == sent = <<>> /\ rcvd = <<>>

Send(pkt) ==
  /\ sent' = Append(sent, pkt)
  /\ UNCHANGED rcvd

Deliver ==
  /\ Len(rcvd) < Len(sent)
  /\ rcvd' = Append(rcvd, sent[Len(rcvd) + 1])
  /\ UNCHANGED sent

Next == Deliver \/ \E pkt \in Payload : Send(pkt)

Spec == Init /\ [][Next]_vars

FairSpec == Spec /\ WF_vars(Deliver)
=============================================================================
