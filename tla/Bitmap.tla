------------------------------- MODULE Bitmap -------------------------------
(***************************************************************************)
(* The bit map of libreiser4/bitmap.c as operators on a value              *)
(*    [map |-> set of the raised bits, marked |-> cached count,            *)
(*     total |-> number of valid bits].                                    *)
(* The map is kept in whole bytes, so it has room for Room(total) bits:    *)
(* the ones from total on are the slack of the last byte, which no bound   *)
(* check lets a caller reach but which copying and loading do carry along. *)
(* A byte holds ByteBits bits, 8 in the code.                              *)
(***************************************************************************)
EXTENDS Integers, FiniteSets, FiniteSetsExt

CONSTANT ByteBits

ASSUME ByteBitsAssumption == ByteBits \in Nat \ {0}

(* ~0ull: larger than every block number, and the only result that is not  *)
(* a block.                                                                *)
INVAL_BLK == -1

Size(total) == (total + ByteBits - 1) \div ByteBits

Room(total) == Size(total) * ByteBits

Bits(total) == 0 .. total - 1

Region(start, count) == start .. start + count - 1

BitmapType == [map : SUBSET Nat, marked : Int, total : Nat]

(* Both bound checks of the region functions.  The last bit is computed in *)
(* 64 bits without sign, so that the empty region at 0 ends at ~0ull and   *)
(* is refused.                                                             *)
InBounds(bm, start, count) ==
  /\ start < bm.total
  /\ start + count > 0
  /\ start + count - 1 < bm.total

reiser4_bitmap_create(len) == [map |-> {}, marked |-> 0, total |-> len]

reiser4_bitmap_test(bm, bit) == bit < bm.total /\ bit \in bm.map

reiser4_bitmap_mark(bm, bit) ==
  IF bit < bm.total /\ bit \notin bm.map
  THEN [bm EXCEPT !.map = @ \cup {bit}, !.marked = @ + 1]
  ELSE bm

reiser4_bitmap_clear(bm, bit) ==
  IF bit < bm.total /\ bit \in bm.map
  THEN [bm EXCEPT !.map = @ \ {bit}, !.marked = @ - 1]
  ELSE bm

reiser4_bitmap_calc(bm, start, count, marked) ==
  Cardinality({b \in Region(start, count) : reiser4_bitmap_test(bm, b) = marked})

(* Mutant: the counter grows by the length of the region, not by its clear *)
(* bits.                                                                   *)
MarkRegionCountsAll(bm, start, count) ==
  IF InBounds(bm, start, count)
  THEN [bm EXCEPT !.map = @ \cup Region(start, count), !.marked = @ + count]
  ELSE bm

reiser4_bitmap_mark_region(bm, start, count) ==
  IF InBounds(bm, start, count)
  THEN [bm EXCEPT !.map = @ \cup Region(start, count),
                  !.marked = @ + reiser4_bitmap_calc(bm, start, count, FALSE)]
  ELSE bm

(* Mutant: the end of the region is taken as inclusive.                    *)
ClearRegionInclusive(bm, start, count) ==
  IF InBounds(bm, start, count)
  THEN [bm EXCEPT !.map = @ \ (start .. start + count),
                  !.marked = @ - reiser4_bitmap_calc(bm, start, count + 1, TRUE)]
  ELSE bm

reiser4_bitmap_clear_region(bm, start, count) ==
  IF InBounds(bm, start, count)
  THEN [bm EXCEPT !.map = @ \ Region(start, count),
                  !.marked = @ - reiser4_bitmap_calc(bm, start, count, TRUE)]
  ELSE bm

(* The first bit of S, or the failure value. *)
FirstOf(S) == IF S = {} THEN INVAL_BLK ELSE Min(S)

reiser4_bitmap_find_cleared(bm, start) ==
  FirstOf({b \in start .. bm.total - 1 : b \notin bm.map})

reiser4_bitmap_find_marked(bm, start) ==
  FirstOf({b \in start .. bm.total - 1 : b \in bm.map})

(* Are all bits of the region marked (marked) or all clear (~marked)?      *)
reiser4_bitmap_test_region(bm, start, count, marked) ==
  LET next == IF marked THEN reiser4_bitmap_find_cleared(bm, start)
                        ELSE reiser4_bitmap_find_marked(bm, start)
  IN  /\ InBounds(bm, start, count)
      /\ ~(next >= start /\ next < start + count)

(* libaal's aal_find_zero_bits(): the first run of clear bits at or after  *)
(* start, cut at count; count 0 when there is none.                        *)
aal_find_zero_bits(bm, start, count) ==
  LET first == reiser4_bitmap_find_cleared(bm, start)
      stop  == reiser4_bitmap_find_marked(bm, first)
      last  == IF stop = INVAL_BLK THEN bm.total ELSE stop
  IN  IF first = INVAL_BLK
      THEN [start |-> start, count |-> 0]
      ELSE [start |-> first, count |-> IF last - first < count THEN last - first ELSE count]

reiser4_bitmap_calc_marked(bm) ==
  [bm EXCEPT !.marked = reiser4_bitmap_calc(bm, 0, bm.total, TRUE)]

reiser4_bitmap_cleared(bm) == bm.total - bm.marked

(* The copy takes whole bytes.  Only a map that grows in bytes has its old *)
(* slack cleared, and only one that does not is counted again.             *)
reiser4_bitmap_resize(bm, len) ==
  LET enlarge == Size(len) > Size(bm.total)
      copied  == bm.map \cap (0 .. Room(len) - 1)
      fixed   == copied \ (bm.total .. Room(bm.total) - 1)
  IN  IF enlarge
      THEN [map |-> fixed, marked |-> bm.marked, total |-> len]
      ELSE reiser4_bitmap_calc_marked([map |-> copied, marked |-> bm.marked, total |-> len])

reiser4_bitmap_invert(bm) ==
  [bm EXCEPT !.map = Bits(bm.total) \ @, !.marked = bm.total - @]
=============================================================================
