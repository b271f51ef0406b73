---------------------------- MODULE DecoderPairMC ----------------------------
(***************************************************************************)
(* Small instance of DecoderPair: the four framing bytes (ESC_END and      *)
(* ESC_ESC are ordinary bytes outside an escape), and a checksum that,     *)
(* like the code's CRC-8, maps zeros to zero and depends on the bytes'     *)
(* order.                                                                  *)
(***************************************************************************)
EXTENDS DecoderPair, SequencesExt

MCByte == 0..3

MCCrc8(crc, data) == FoldLeft(LAMBDA c, b : (3 * (c + b)) % 4, crc, data)
=============================================================================
