----------------------------- MODULE AuxBitmap ------------------------------
(***************************************************************************)
(* The life of one auxiliary bit map: the ones fsck keeps per pass and the *)
(* ones debugfs takes from the block allocator, inverts, resizes to an     *)
(* unpacked file system, saves to a file and reads back.                   *)
(***************************************************************************)
EXTENDS Bitmap, Sequences, SequencesExt

CONSTANT MaxTotal    \* bound: the longest bit map considered

ASSUME MaxTotalAssumption == MaxTotal \in Nat \ {0}

VARIABLES bm,       \* the bit map in memory
          stream    \* the saved form in the file, <<>> when there is none

vars == <<bm, stream>>

Totals == 1 .. MaxTotal

(* The loop of reiser4_bitmap_pack(): where its n-th run ends.  The odd     *)
(* runs are of marked bits, the even ones of clear bits, and the first may  *)
(* be empty.                                                                *)
NextEnd(b, n, count) ==
  LET next == IF n % 2 = 1 THEN reiser4_bitmap_find_cleared(b, count)
                           ELSE reiser4_bitmap_find_marked(b, count)
  IN  IF next = INVAL_BLK THEN b.total ELSE next

RunEnds(b) ==
  LET end[n \in 0 .. b.total + 1] == IF n = 0 THEN 0 ELSE NextEnd(b, n, end[n - 1])
  IN  end

(* The run that reaches the end of the map is the last one.                 *)
Runs(b) == Min({n \in 1 .. b.total + 1 : RunEnds(b)[n] = b.total})

reiser4_bitmap_pack(b) ==
  <<b.total>> \o [n \in 1 .. Runs(b) |-> RunEnds(b)[n] - RunEnds(b)[n - 1]]

(* One run read from the stream: the odd ones are marked.  A run past the  *)
(* end makes the whole stream corrupted.                                   *)
UnpackRun(acc, count) ==
  IF ~acc.ok \/ acc.bit + count > acc.bm.total
  THEN [acc EXCEPT !.ok = FALSE]
  ELSE [ok  |-> TRUE,
        bit |-> acc.bit + count,
        set |-> ~acc.set,
        bm  |-> IF acc.set THEN reiser4_bitmap_mark_region(acc.bm, acc.bit, count)
                           ELSE acc.bm]

Unpacked(s) ==
  LET read[n \in 0 .. Len(s) - 1] ==
        IF n = 0 THEN [ok |-> TRUE, bit |-> 0, set |-> TRUE, bm |-> reiser4_bitmap_create(s[1])]
        ELSE UnpackRun(read[n - 1], s[n + 1])
  IN  read[Len(s) - 1]

(* Mutant: nothing is said of a stream that ends too early.                *)
UnpackAnyLength(s) ==
  IF s = <<>>
  THEN [ok |-> FALSE, bm |-> reiser4_bitmap_create(0)]
  ELSE [ok |-> Unpacked(s).ok, bm |-> Unpacked(s).bm]

(* ok is FALSE where the code returns NULL.                                *)
reiser4_bitmap_unpack(s) ==
  IF s = <<>>
  THEN [ok |-> FALSE, bm |-> reiser4_bitmap_create(0)]
  ELSE [ok |-> Unpacked(s).ok /\ Unpacked(s).bit = Unpacked(s).bm.total, bm |-> Unpacked(s).bm]

Init ==
  /\ bm \in {reiser4_bitmap_create(len) : len \in Totals}
  /\ stream = <<>>

Mark == \E b \in 0 .. MaxTotal :
  bm' = reiser4_bitmap_mark(bm, b) /\ UNCHANGED stream

Clear == \E b \in 0 .. MaxTotal :
  bm' = reiser4_bitmap_clear(bm, b) /\ UNCHANGED stream

MarkRegion == \E s, c \in 0 .. MaxTotal :
  bm' = reiser4_bitmap_mark_region(bm, s, c) /\ UNCHANGED stream

ClearRegion == \E s, c \in 0 .. MaxTotal :
  bm' = reiser4_bitmap_clear_region(bm, s, c) /\ UNCHANGED stream

Invert == bm' = reiser4_bitmap_invert(bm) /\ UNCHANGED stream

Resize == \E len \in Totals :
  bm' = reiser4_bitmap_resize(bm, len) /\ UNCHANGED stream

Pack == stream' = reiser4_bitmap_pack(bm) /\ UNCHANGED bm

Unpack ==
  LET got == reiser4_bitmap_unpack(stream)
  IN  got.ok /\ bm' = got.bm /\ UNCHANGED stream

Next ==
  \/ Mark \/ Clear \/ MarkRegion \/ ClearRegion
  \/ Invert \/ Resize \/ Pack \/ Unpack

Spec == Init /\ [][Next]_vars

-----------------------------------------------------------------------------

(* The cached counter of marked bits (bitmap->marked), which every function *)
(* adjusts by a difference and only calc_marked() recomputes, is the number *)
(* of valid bits that are set, whatever the order of region updates,        *)
(* inversions, resizes and reloads; and reiser4_bitmap_test_region(), which *)
(* searches for the next bit of the other colour, answers for every region  *)
(* as its comment says.                                                     *)
MarkedExact ==
  /\ bm.marked = Cardinality(bm.map \cap Bits(bm.total))
  /\ \A s \in Bits(bm.total) : \A c \in 1 .. bm.total - s :
       /\ reiser4_bitmap_test_region(bm, s, c, TRUE) <=> Region(s, c) \subseteq bm.map
       /\ reiser4_bitmap_test_region(bm, s, c, FALSE) <=> Region(s, c) \cap bm.map = {}

(* Reading a saved bit map back gives the same length, the same bits and    *)
(* the same counter; and a file cut short is refused: no proper prefix of   *)
(* what was saved is accepted by reiser4_bitmap_unpack().                   *)
PackRoundTrip ==
  LET s   == reiser4_bitmap_pack(bm)
      got == reiser4_bitmap_unpack(s)
  IN  /\ got.ok
      /\ got.bm = [bm EXCEPT !.map = @ \cap Bits(bm.total)]
      /\ \A n \in 0 .. Len(s) - 1 : ~reiser4_bitmap_unpack(SubSeq(s, 1, n)).ok
=============================================================================
