------------------------------ MODULE MCAlloc40 -----------------------------
(* A byte of two bits and bitmap blocks that describe four blocks each: a   *)
(* file system of five blocks has two bitmap blocks and one bit of slack.   *)
EXTENDS Alloc40
=============================================================================
