------------------------------- MODULE Frames -------------------------------
(***************************************************************************)
(* The frames a device sends, as far as its host can tell them apart: what  *)
(* the packet says (for a response, to which command), and the codes other  *)
(* than NOT_DONE that decoding it ends in.                                 *)
(***************************************************************************)

Response(i) == [kind |-> "RSP", n |-> i, codes |-> <<"NONE">>]
Message(k)  == [kind |-> k, n |-> 0, codes |-> <<"NONE">>]

\* What is left of a frame some of whose pieces are missing.
Cut == [kind |-> "CUT"]
=============================================================================
