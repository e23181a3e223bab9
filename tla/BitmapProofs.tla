----------------------------- MODULE BitmapProofs ----------------------------
(***************************************************************************)
(* What the functions of libreiser4/bitmap.c do to the map and to the      *)
(* cached counter, for maps and bytes of every size.                       *)
(***************************************************************************)
EXTENDS Bitmap, Basics

USE ByteBitsAssumption

(* A map of total bits: it has room for whole bytes of them.                *)
MapsOf(total) == [map : SUBSET (0 .. Room(total) - 1), marked : Int, total : {total}]

(* The cached counter counts the valid bits that are set.                   *)
Exact(b) == b.marked = Cardinality(b.map \cap Bits(b.total))

(* Whole bytes have room for every bit, and not for a byte more.            *)
LEMMA RoomCovers ==
  ASSUME NEW total \in Nat
  PROVE  Room(total) \in Nat /\ total =< Room(total) /\ Room(total) < total + ByteBits
<1> DEFINE a == total + ByteBits - 1
<1>1. a \in Nat
  OBVIOUS
<1>2. /\ a \div ByteBits \in Nat /\ (a \div ByteBits) * ByteBits =< a
      /\ a < (a \div ByteBits) * ByteBits + ByteBits
  BY <1>1, DivBounds
<1>3. (a \div ByteBits) * ByteBits \in Nat
  BY <1>2
<1>4. Room(total) = (a \div ByteBits) * ByteBits
  BY DEF Room, Size
<1> HIDE DEF a
<1>5. a = total + ByteBits - 1
  BY DEF a
<1> QED
  BY <1>2, <1>3, <1>4, <1>5

(* A map that grows in bytes grows past the slack of its last byte.         *)
LEMMA RoomGrows ==
  ASSUME NEW m \in Nat, NEW n \in Nat
  PROVE  IF Size(n) > Size(m) THEN Room(m) < n ELSE Room(n) =< Room(m)
<1>1. Size(m) \in Nat /\ Size(n) \in Nat
  <2>1. m + ByteBits - 1 \in Nat /\ n + ByteBits - 1 \in Nat
    OBVIOUS
  <2> QED
    BY <2>1, DivBounds DEF Size
<1>2. Room(m) = Size(m) * ByteBits /\ Room(n) = Size(n) * ByteBits
  BY DEF Room
<1>3. CASE Size(n) > Size(m)
  <2> DEFINE d == Size(n) - (Size(m) + 1)
  <2>1. d \in Nat /\ Size(n) = Size(m) + 1 + d
    BY <1>1, <1>3
  <2>2. d * ByteBits \in Nat
    BY <2>1
  <2> HIDE DEF d
  <2>3. Size(n) * ByteBits = Size(m) * ByteBits + ByteBits + d * ByteBits
    BY <1>1, <2>1
  <2>4. Size(m) * ByteBits \in Nat
    BY <1>1
  <2> QED
    BY <1>2, <1>3, <2>2, <2>3, <2>4, RoomCovers
<1>4. CASE ~(Size(n) > Size(m))
  <2> DEFINE d == Size(m) - Size(n)
  <2>1. d \in Nat /\ Size(m) = Size(n) + d
    BY <1>1, <1>4
  <2>2. d * ByteBits \in Nat
    BY <2>1
  <2> HIDE DEF d
  <2>3. Size(m) * ByteBits = Size(n) * ByteBits + d * ByteBits
    BY <1>1, <2>1
  <2>4. Size(n) * ByteBits \in Nat
    BY <1>1
  <2> QED
    BY <1>2, <1>4, <2>2, <2>3, <2>4
<1> QED
  BY <1>3, <1>4

(* The valid bits are slots of the map; sets of them can be counted.        *)
LEMMA BitsCount ==
  ASSUME NEW total \in Nat
  PROVE  /\ Bits(total) \subseteq 0 .. Room(total) - 1
         /\ Cardinality(Bits(total)) = total
         /\ \A S \in SUBSET Bits(total) : IsFiniteSet(S) /\ Cardinality(S) \in Nat
<1>1. Bits(total) \subseteq 0 .. Room(total) - 1
  BY RoomCovers DEF Bits
<1>2. IsFiniteSet(Bits(total)) /\ Cardinality(Bits(total)) = total
  BY FS_Interval DEF Bits
<1> QED
  BY <1>1, <1>2, FS_Subset, FS_CardinalityType

-----------------------------------------------------------------------------

(* reiser4_bitmap_create() makes an empty map with a counter of zero.       *)
LEMMA CreateExact ==
  ASSUME NEW total \in Nat
  PROVE  reiser4_bitmap_create(total) \in MapsOf(total) /\ Exact(reiser4_bitmap_create(total))
<1>1. Cardinality({}) = 0 /\ {} \cap Bits(total) = {}
  BY FS_EmptySet
<1> QED
  BY <1>1 DEF reiser4_bitmap_create, MapsOf, Exact

(* Adding a set of valid bits that were clear, and counting them, keeps the *)
(* counter exact.                                                           *)
LEMMA AddedExact ==
  ASSUME NEW total \in Nat, NEW b \in MapsOf(total), Exact(b),
         NEW new \in SUBSET Bits(total), new \cap b.map = {}
  PROVE  LET r == [map |-> b.map \cup new, marked |-> b.marked + Cardinality(new), total |-> total]
         IN  r \in MapsOf(total) /\ Exact(r)
<1> DEFINE old == b.map \cap Bits(total)
           r == [map |-> b.map \cup new, marked |-> b.marked + Cardinality(new), total |-> total]
<1>1. /\ IsFiniteSet(old) /\ IsFiniteSet(new)
      /\ Cardinality(old) \in Nat /\ Cardinality(new) \in Nat
  BY BitsCount
<1>2. (b.map \cup new) \cap Bits(total) = old \cup new /\ old \cap new = {}
  OBVIOUS
<1>3. Cardinality(old \cup new) = Cardinality(old) + Cardinality(new)
  <2>1. Cardinality(old \cap new) = 0
    BY <1>2, FS_EmptySet
  <2>2. Cardinality(old \cup new) = Cardinality(old) + Cardinality(new) - Cardinality(old \cap new)
    BY <1>1, FS_Union
  <2> HIDE DEF old
  <2> QED
    BY <1>1, <2>1, <2>2
<1>4. b.marked = Cardinality(old) /\ b.map \subseteq 0 .. Room(total) - 1
  BY DEF Exact, MapsOf
<1>5. new \subseteq 0 .. Room(total) - 1
  BY BitsCount
<1>6. Exact(r)
  <2> HIDE DEF old
  <2> QED
    BY <1>2, <1>3, <1>4 DEF Exact
<1>7. r \in MapsOf(total)
  <2> DEFINE m == b.map \cup new
             n == b.marked + Cardinality(new)
  <2>1. m \subseteq 0 .. Room(total) - 1
    BY <1>4, <1>5
  <2>2. b.marked \in Int
    BY DEF MapsOf
  <2>3. n \in Int
    BY <1>1, <2>2
  <2> HIDE DEF m, n
  <2>4. [map |-> m, marked |-> n, total |-> total] \in MapsOf(total)
    BY <2>1, <2>3 DEF MapsOf
  <2> QED
    BY <2>4 DEF m, n
<1> QED
  BY <1>6, <1>7

(* So does removing a set of valid bits that were set.                      *)
LEMMA RemovedExact ==
  ASSUME NEW total \in Nat, NEW b \in MapsOf(total), Exact(b),
         NEW gone \in SUBSET Bits(total), gone \subseteq b.map
  PROVE  LET r == [map |-> b.map \ gone, marked |-> b.marked - Cardinality(gone), total |-> total]
         IN  r \in MapsOf(total) /\ Exact(r)
<1> DEFINE old == b.map \cap Bits(total)
           r == [map |-> b.map \ gone, marked |-> b.marked - Cardinality(gone), total |-> total]
<1>1. /\ IsFiniteSet(old) /\ IsFiniteSet(gone)
      /\ Cardinality(old) \in Nat /\ Cardinality(gone) \in Nat
  BY BitsCount
<1>2. (b.map \ gone) \cap Bits(total) = old \ gone /\ old \cap gone = gone
  OBVIOUS
<1>3. Cardinality(old \ gone) = Cardinality(old) - Cardinality(gone)
  BY <1>1, <1>2, FS_Difference
<1>4. b.marked = Cardinality(old) /\ b.map \subseteq 0 .. Room(total) - 1
  BY DEF Exact, MapsOf
<1>5. Exact(r)
  <2> HIDE DEF old
  <2> QED
    BY <1>2, <1>3, <1>4 DEF Exact
<1>6. r \in MapsOf(total)
  BY <1>1, <1>4 DEF MapsOf
<1> QED
  BY <1>5, <1>6

(* reiser4_bitmap_mark() and reiser4_bitmap_clear() keep the counter exact. *)
LEMMA MarkExact ==
  ASSUME NEW total \in Nat, NEW b \in MapsOf(total), Exact(b), NEW bit \in Nat
  PROVE  LET r == reiser4_bitmap_mark(b, bit) IN r \in MapsOf(total) /\ Exact(r)
<1>1. CASE bit < b.total /\ bit \notin b.map
  <2>1. {bit} \in SUBSET Bits(total) /\ {bit} \cap b.map = {}
    BY <1>1 DEF MapsOf, Bits
  <2>2. Cardinality({bit}) = 1
    BY FS_Singleton
  <2>3. reiser4_bitmap_mark(b, bit) = [map |-> b.map \cup {bit}, marked |-> b.marked + 1, total |-> total]
    BY <1>1 DEF reiser4_bitmap_mark, MapsOf
  <2> QED
    BY <2>1, <2>2, <2>3, AddedExact
<1> QED
  BY <1>1 DEF reiser4_bitmap_mark

LEMMA ClearExact ==
  ASSUME NEW total \in Nat, NEW b \in MapsOf(total), Exact(b), NEW bit \in Nat
  PROVE  LET r == reiser4_bitmap_clear(b, bit) IN r \in MapsOf(total) /\ Exact(r)
<1>1. CASE bit < b.total /\ bit \in b.map
  <2>1. {bit} \in SUBSET Bits(total) /\ {bit} \subseteq b.map
    BY <1>1 DEF MapsOf, Bits
  <2>2. Cardinality({bit}) = 1
    BY FS_Singleton
  <2>3. reiser4_bitmap_clear(b, bit) = [map |-> b.map \ {bit}, marked |-> b.marked - 1, total |-> total]
    BY <1>1 DEF reiser4_bitmap_clear, MapsOf
  <2> QED
    BY <2>1, <2>2, <2>3, RemovedExact
<1> QED
  BY <1>1 DEF reiser4_bitmap_clear

(* reiser4_bitmap_mark_region() keeps the counter exact.                    *)
LEMMA MarkRegionExact ==
  ASSUME NEW total \in Nat, NEW b \in MapsOf(total), Exact(b), NEW start \in Nat, NEW count \in Nat
  PROVE  LET r == reiser4_bitmap_mark_region(b, start, count)
         IN  /\ r \in MapsOf(total) /\ Exact(r)
             /\ r.map = IF InBounds(b, start, count) THEN b.map \cup Region(start, count) ELSE b.map
<1> DEFINE r == reiser4_bitmap_mark_region(b, start, count)
           new == {x \in Region(start, count) : reiser4_bitmap_test(b, x) = FALSE}
<1>1. CASE ~InBounds(b, start, count)
  BY <1>1 DEF reiser4_bitmap_mark_region
<1>2. CASE InBounds(b, start, count)
  <2>1. Region(start, count) \subseteq Bits(total)
    BY <1>2 DEF InBounds, Region, Bits, MapsOf
  <2>2. new = Region(start, count) \ b.map
    BY <2>1 DEF reiser4_bitmap_test, Bits, MapsOf
  <2>3. r = [map |-> b.map \cup Region(start, count), marked |-> b.marked + Cardinality(new), total |-> total]
    BY <1>2 DEF reiser4_bitmap_mark_region, reiser4_bitmap_calc, MapsOf
  <2>4. b.map \cup Region(start, count) = b.map \cup new /\ new \cap b.map = {} /\ new \in SUBSET Bits(total)
    BY <2>1, <2>2
  <2> HIDE DEF new, r
  <2>5. r \in MapsOf(total) /\ Exact(r)
    BY <2>3, <2>4, AddedExact
  <2>6. r.map = b.map \cup Region(start, count)
    BY <2>3
  <2> QED
    BY <1>2, <2>5, <2>6 DEF r
<1> QED
  BY <1>1, <1>2

(* reiser4_bitmap_clear_region() keeps the counter exact.                   *)
LEMMA ClearRegionExact ==
  ASSUME NEW total \in Nat, NEW b \in MapsOf(total), Exact(b), NEW start \in Nat, NEW count \in Nat
  PROVE  LET r == reiser4_bitmap_clear_region(b, start, count)
         IN  /\ r \in MapsOf(total) /\ Exact(r)
             /\ r.map = IF InBounds(b, start, count) THEN b.map \ Region(start, count) ELSE b.map
<1> DEFINE r == reiser4_bitmap_clear_region(b, start, count)
           gone == {x \in Region(start, count) : reiser4_bitmap_test(b, x) = TRUE}
<1>1. CASE ~InBounds(b, start, count)
  BY <1>1 DEF reiser4_bitmap_clear_region
<1>2. CASE InBounds(b, start, count)
  <2>1. Region(start, count) \subseteq Bits(total)
    BY <1>2 DEF InBounds, Region, Bits, MapsOf
  <2>2. gone = Region(start, count) \cap b.map
    BY <2>1 DEF reiser4_bitmap_test, Bits, MapsOf
  <2>3. r = [map |-> b.map \ Region(start, count), marked |-> b.marked - Cardinality(gone), total |-> total]
    BY <1>2 DEF reiser4_bitmap_clear_region, reiser4_bitmap_calc, MapsOf
  <2>4. b.map \ Region(start, count) = b.map \ gone /\ gone \subseteq b.map /\ gone \in SUBSET Bits(total)
    BY <2>1, <2>2
  <2> HIDE DEF gone, r
  <2>5. r \in MapsOf(total) /\ Exact(r)
    BY <2>3, <2>4, RemovedExact
  <2>6. r.map = b.map \ Region(start, count)
    BY <2>3
  <2> QED
    BY <1>2, <2>5, <2>6 DEF r
<1> QED
  BY <1>1, <1>2

(* reiser4_bitmap_invert() keeps the counter exact.                         *)
LEMMA InvertExact ==
  ASSUME NEW total \in Nat, NEW b \in MapsOf(total), Exact(b)
  PROVE  LET r == reiser4_bitmap_invert(b) IN r \in MapsOf(total) /\ Exact(r)
<1> DEFINE r == reiser4_bitmap_invert(b)
<1>1. r = [map |-> Bits(total) \ b.map, marked |-> total - b.marked, total |-> total]
  <2>1. b.total = total /\ b.map \subseteq 0 .. Room(total) - 1 /\ b.marked \in Int
    BY DEF MapsOf
  <2> DEFINE m == Bits(total) \ b.map
             n == total - b.marked
  <2>2. r = [b EXCEPT !.map = m, !.marked = n]
    BY <2>1 DEF reiser4_bitmap_invert
  <2> HIDE DEF m, n, r
  <2>3. r = [map |-> m, marked |-> n, total |-> total]
    BY <2>2 DEF MapsOf
  <2> QED
    BY <2>3 DEF m, n
<1>2. /\ b.marked = Cardinality(b.map \cap Bits(total)) /\ b.marked \in Int
      /\ (Bits(total) \ b.map) \cap Bits(total) = Bits(total) \ b.map
  BY DEF Exact, MapsOf
<1>3. Cardinality(Bits(total) \ b.map) = total - Cardinality(Bits(total) \cap b.map)
  BY BitsCount, FS_Difference
<1>4. Bits(total) \cap b.map = b.map \cap Bits(total)
  OBVIOUS
<1> HIDE DEF r
<1>5. Exact(r)
  <2>1. r.map \cap Bits(r.total) = Bits(total) \ b.map /\ r.marked = total - b.marked
    BY <1>1, <1>2
  <2> QED
    BY <2>1, <1>2, <1>3, <1>4 DEF Exact
<1>6. r \in MapsOf(total)
  BY <1>1, <1>2, BitsCount DEF MapsOf
<1> QED
  BY <1>5, <1>6 DEF r

(* reiser4_bitmap_resize() keeps the counter exact, though it is counted    *)
(* again only when the map does not grow in bytes.                          *)
LEMMA ResizeExact ==
  ASSUME NEW total \in Nat, NEW b \in MapsOf(total), Exact(b), NEW len \in Nat
  PROVE  LET r == reiser4_bitmap_resize(b, len) IN r \in MapsOf(len) /\ Exact(r)
<1> DEFINE r == reiser4_bitmap_resize(b, len)
           copied == b.map \cap (0 .. Room(len) - 1)
           fixed == copied \ (total .. Room(total) - 1)
<1>1. b.total = total /\ b.map \subseteq 0 .. Room(total) - 1 /\ b.marked \in Int
      /\ b.marked = Cardinality(b.map \cap Bits(total))
  BY DEF MapsOf, Exact
<1>2. total =< Room(total) /\ Room(total) \in Nat /\ len =< Room(len) /\ Room(len) \in Nat
  BY RoomCovers
<1>3. CASE Size(len) > Size(total)
  <2>1. r = [map |-> fixed, marked |-> b.marked, total |-> len]
    BY <1>1, <1>3 DEF reiser4_bitmap_resize
  <2>2. Room(total) < len
    BY <1>3, RoomGrows
  <2>3. fixed \cap Bits(len) = b.map \cap Bits(total)
    BY <1>1, <1>2, <2>2 DEF Bits
  <2> HIDE DEF fixed
  <2>4. Exact(r)
    BY <2>1, <2>3, <1>1 DEF Exact
  <2>5. fixed \subseteq 0 .. Room(len) - 1
    BY DEF fixed
  <2>6. r \in MapsOf(len)
    BY <2>1, <2>5, <1>1 DEF MapsOf
  <2> QED
    BY <2>4, <2>6
<1>4. CASE ~(Size(len) > Size(total))
  <2> DEFINE c == [map |-> copied, marked |-> b.marked, total |-> len]
             set == {x \in Region(0, len) : reiser4_bitmap_test(c, x) = TRUE}
  <2>1. r = [map |-> copied, marked |-> Cardinality(set), total |-> len]
    BY <1>1, <1>4 DEF reiser4_bitmap_resize, reiser4_bitmap_calc_marked, reiser4_bitmap_calc
  <2>2. set = copied \cap Bits(len)
    <3>1. c.total = len /\ c.map = copied
      OBVIOUS
    <3> HIDE DEF c, copied
    <3> QED
      BY <3>1 DEF Region, Bits, reiser4_bitmap_test
  <2>3. Cardinality(set) \in Nat
    BY <2>2, BitsCount
  <2> HIDE DEF set, copied
  <2>4. Exact(r)
    BY <2>1, <2>2 DEF Exact
  <2>5. copied \subseteq 0 .. Room(len) - 1
    BY DEF copied
  <2>6. r \in MapsOf(len)
    BY <2>1, <2>3, <2>5 DEF MapsOf
  <2> QED
    BY <2>4, <2>6
<1> QED
  BY <1>3, <1>4

-----------------------------------------------------------------------------

(* reiser4_bitmap_find_cleared() and _find_marked(): the first bit from     *)
(* start on that is clear, or set, or the failure value.                    *)
LEMMA FirstOfSet ==
  ASSUME NEW S \in SUBSET Nat
  PROVE  IF S = {} THEN FirstOf(S) = INVAL_BLK
                   ELSE FirstOf(S) \in S /\ \A x \in S : FirstOf(S) =< x
  BY MinExists DEF FirstOf

(* reiser4_bitmap_test_region() answers as its comment says.                *)
LEMMA TestRegionExact ==
  ASSUME NEW total \in Nat, NEW b \in MapsOf(total),
         NEW s \in Bits(total), NEW c \in 1 .. total - s
  PROVE  /\ reiser4_bitmap_test_region(b, s, c, TRUE) <=> Region(s, c) \subseteq b.map
         /\ reiser4_bitmap_test_region(b, s, c, FALSE) <=> Region(s, c) \cap b.map = {}
<1> DEFINE clear == {x \in s .. total - 1 : x \notin b.map}
           set == {x \in s .. total - 1 : x \in b.map}
<1>1. b.total = total /\ s \in Nat /\ c \in Nat /\ s + c =< total /\ c > 0
  BY DEF MapsOf, Bits
<1>2. InBounds(b, s, c)
  BY <1>1 DEF InBounds
<1>3. reiser4_bitmap_find_cleared(b, s) = FirstOf(clear) /\ reiser4_bitmap_find_marked(b, s) = FirstOf(set)
  BY <1>1 DEF reiser4_bitmap_find_cleared, reiser4_bitmap_find_marked
<1>4. clear \in SUBSET Nat /\ set \in SUBSET Nat
  BY <1>1
<1>5. \A x \in Region(s, c) : x \in clear <=> x \notin b.map
  BY <1>1 DEF Region
<1>6. \A x \in Region(s, c) : x \in set <=> x \in b.map
  BY <1>1 DEF Region
<1>7. \A x \in clear : x \in Nat /\ x >= s /\ (x < s + c => x \in Region(s, c))
  BY <1>1 DEF Region
<1>8. \A x \in set : x \in Nat /\ x >= s /\ (x < s + c => x \in Region(s, c))
  BY <1>1 DEF Region
<1>9. \A x \in Region(s, c) : x \in Nat /\ x >= s /\ x < s + c
  BY <1>1 DEF Region
<1> HIDE DEF clear, set
<1>10. ~(FirstOf(clear) >= s /\ FirstOf(clear) < s + c) <=> Region(s, c) \subseteq b.map
  <2>1. CASE clear = {}
    BY <2>1, <1>1, <1>4, <1>5, FirstOfSet DEF INVAL_BLK
  <2>2. CASE clear # {}
    <3>1. FirstOf(clear) \in clear /\ \A x \in clear : FirstOf(clear) =< x
      BY <2>2, <1>4, FirstOfSet
    <3> QED
      BY <3>1, <1>1, <1>5, <1>7, <1>9
  <2> QED
    BY <2>1, <2>2
<1>11. ~(FirstOf(set) >= s /\ FirstOf(set) < s + c) <=> Region(s, c) \cap b.map = {}
  <2>1. CASE set = {}
    BY <2>1, <1>1, <1>4, <1>6, FirstOfSet DEF INVAL_BLK
  <2>2. CASE set # {}
    <3>1. FirstOf(set) \in set /\ \A x \in set : FirstOf(set) =< x
      BY <2>2, <1>4, FirstOfSet
    <3> QED
      BY <3>1, <1>1, <1>6, <1>8, <1>9
  <2> QED
    BY <2>1, <2>2
<1> QED
  BY <1>2, <1>3, <1>10, <1>11 DEF reiser4_bitmap_test_region
=============================================================================
