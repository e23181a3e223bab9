----------------------------- MODULE MCAuxBitmap ----------------------------
(* Bytes of three bits, so that lengths 1..6 cover whole bytes, slack and   *)
(* both directions of a resize.                                             *)
EXTENDS AuxBitmap
=============================================================================
