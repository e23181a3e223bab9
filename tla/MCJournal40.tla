---------------------------- MODULE MCJournal40 -----------------------------
(* Block 0 is the master super block, 1 the format, 2 and 3 the journal's, *)
(* 4 the allocator's.                                                      *)
EXTENDS Journal40
=============================================================================
