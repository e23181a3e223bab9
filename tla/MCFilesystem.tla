--------------------------- MODULE MCFilesystem ---------------------------
(* Filesystem on a device of 24 blocks, three of which hold backup copies;   *)
(* a file system of 12 blocks has two of them.                               *)
EXTENDS Filesystem
MCLens == {12, 24}
=============================================================================
