------------------------------- MODULE MCTree -------------------------------
(* Nodes of five bytes hold two nodeptrs or two small items, so that a few  *)
(* keys make a tree of three and four levels in which every insertion and   *)
(* removal balances.                                                        *)
EXTENDS Tree
=============================================================================
