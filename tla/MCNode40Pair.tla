---------------------------- MODULE MCNode40Pair ----------------------------
(* Three objects and nodes of eight bytes: room for two or three items with *)
(* headers of one byte, tails that fit whole, in part or not at all.        *)
EXTENDS Node40Pair
=============================================================================
