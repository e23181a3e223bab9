------------------------------ MODULE MCSemantic ------------------------------
(* Two directories and a file besides the root and lost+found, and two losses. *)
EXTENDS Semantic
MCDirs == {2, 3}
MCFiles == {4}
=============================================================================
