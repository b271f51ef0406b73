--------------------------- MODULE PayloadCodecMC ---------------------------
(***************************************************************************)
(* Strings to pack, for TLC: with four values of a byte, 0 is the null, 1 a *)
(* character, and 2 and 3 the bytes of another one.                         *)
(***************************************************************************)
EXTENDS PayloadCodec

\* The empty one, a character of each kind, one cut in the middle, a null in front of a
\* character, and too long ones: the length byte is 0, or 1, of which there are two kinds.
MCStrings ==
  {<<>>, <<1>>, <<2, 3>>, <<2>>, <<0, 1>>, <<2, 3, 1>>, <<1, 1, 2, 3>>, <<1, 1, 1, 1, 1>>}
=============================================================================
