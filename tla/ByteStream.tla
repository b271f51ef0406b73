----------------------------- MODULE ByteStream -----------------------------
(***************************************************************************)
(* What a bus relies on of the bytes between two ends: they arrive in the   *)
(* order written and none twice or of itself; some are lost once something *)
(* has gone wrong. NoisyLink's LoseByte is Refuse.                         *)
(***************************************************************************)
EXTENDS Naturals, Sequences

VARIABLES
  put,          \* the number of the latest byte written
  transit,      \* bytes on their way
  taken,        \* bytes read, in order
  faulty        \* something has gone wrong

vars == <<put, transit, taken, faulty>>

Init == put = 0 /\ transit = <<>> /\ taken = <<>> /\ faulty = FALSE

Put ==
  /\ put' = put + 1
  /\ transit' = Append(transit, put')
  /\ UNCHANGED <<taken, faulty>>

Refuse ==
  /\ put' = put + 1
  /\ faulty' = TRUE
  /\ UNCHANGED <<transit, taken>>

\* Any stretch of what is on its way.
Lose ==
  /\ faulty' = TRUE
  /\ \E i \in 0..Len(transit) : \E j \in (i + 1)..(Len(transit) + 1) :
       transit' = SubSeq(transit, 1, i) \o SubSeq(transit, j, Len(transit))
  /\ UNCHANGED <<put, taken>>

Take ==
  /\ transit # <<>>
  /\ taken' = Append(taken, Head(transit))
  /\ transit' = Tail(transit)
  /\ UNCHANGED <<put, faulty>>

Next == Put \/ Refuse \/ Lose \/ Take

Spec == Init /\ [][Next]_vars
=============================================================================
