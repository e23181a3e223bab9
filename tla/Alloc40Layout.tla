--------------------------- MODULE Alloc40Layout ----------------------------
(***************************************************************************)
(* Where the bitmap-based allocator (plugin/alloc/alloc40) keeps its       *)
(* blocks.  One bitmap block describes Bpb blocks ((blksize - CRC) * 8 in  *)
(* the code).  The first one is at Start, after the master and the format  *)
(* super blocks, the next ones at the multiples of Bpb.                    *)
(***************************************************************************)
EXTENDS Integers

CONSTANTS Bpb, Start

ASSUME LayoutConstants == Bpb \in Nat /\ Start \in Nat /\ 0 < Start /\ Start < Bpb

(* The blocks alloc40_layout() hands to its callback for a file system of  *)
(* total blocks.  The loop runs to Start + total, not to total.            *)
alloc40_layout(total) ==
  {Start} \cup {k * Bpb : k \in {j \in 1 .. total + Start : j * Bpb < Start + total}}

(* The part of the map a bitmap block holds: start / size / 8.             *)
ChunkOf(blk) == blk \div Bpb

ChunkBits(k) == k * Bpb .. (k + 1) * Bpb - 1

(* The block that describes chunk k.                                       *)
BlockOf(k) == IF k = 0 THEN Start ELSE k * Bpb

(* alloc40_region(): the blocks described together with blk, cut at the    *)
(* end of the file system.                                                 *)
alloc40_region(blk, total) ==
  LET first == (blk \div Bpb) * Bpb
      size  == IF first + Bpb > total THEN total - first ELSE Bpb
  IN  first .. first + size - 1
=============================================================================
