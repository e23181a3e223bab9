---------------------------- MODULE Alloc40Proofs ---------------------------
(***************************************************************************)
(* What Alloc40's runs check on five blocks, proved for every size of      *)
(* file system, bitmap block and byte.                                     *)
(***************************************************************************)
EXTENDS Alloc40, FiniteSetTheorems, TLAPS

USE ByteBitsAssumption, LayoutConstants, AllocConstants

(* The bits the map has room for, the slack of its last byte included.     *)
Slots == 0 .. Room(Total) - 1

(* Division leaves a remainder smaller than the divisor.                    *)
LEMMA DivBounds ==
  ASSUME NEW a \in Nat, NEW d \in Nat \ {0}
  PROVE  /\ a \div d \in Nat
         /\ (a \div d) * d =< a
         /\ a < (a \div d) * d + d
  OBVIOUS

(* Whole bytes have room for every block.                                   *)
LEMMA RoomCovers == Room(Total) \in Nat /\ Total =< Room(Total)
<1> DEFINE a == Total + ByteBits - 1
<1>1. a \in Nat
  OBVIOUS
<1>2. a \div ByteBits \in Nat /\ a < (a \div ByteBits) * ByteBits + ByteBits
  BY <1>1, DivBounds
<1>3. (a \div ByteBits) * ByteBits \in Nat
  BY <1>2
<1>4. Room(Total) = (a \div ByteBits) * ByteBits
  BY DEF Room, Size
<1> HIDE DEF a
<1>5. a = Total + ByteBits - 1
  BY DEF a
<1> QED
  BY <1>2, <1>3, <1>4, <1>5

(* A bitmap block's chunk is a natural number.                              *)
LEMMA ChunksNat == Chunks \subseteq Nat
<1> SUFFICES ASSUME NEW b \in alloc40_layout(Total) PROVE ChunkOf(b) \in Nat
  BY DEF Chunks
<1>1. b \in Nat
  BY DEF alloc40_layout
<1> QED
  BY <1>1, DivBounds DEF ChunkOf

(* No block is described by two bitmap blocks.                              *)
LEMMA ChunksDisjoint ==
  ASSUME NEW j \in Nat, NEW k \in Nat, j # k
  PROVE  ChunkBits(j) \cap ChunkBits(k) = {}
<1>1. ASSUME NEW m \in Nat, NEW n \in Nat, m < n
      PROVE  (m + 1) * Bpb =< n * Bpb
  <2> DEFINE d == n - (m + 1)
  <2>1. d \in Nat /\ n = (m + 1) + d
    BY <1>1
  <2> HIDE DEF d
  <2>2. n * Bpb = (m + 1) * Bpb + d * Bpb /\ d * Bpb \in Nat
    BY <2>1
  <2> QED
    BY <2>2
<1>2. CASE j < k
  BY <1>2, <1>1 DEF ChunkBits
<1>3. CASE k < j
  BY <1>3, <1>1 DEF ChunkBits
<1> QED
  BY <1>2, <1>3

(* The smallest element of a set of naturals is one of its elements.        *)
LEMMA MinExists ==
  ASSUME NEW S \in SUBSET Nat, S # {}
  PROVE  Min(S) \in S /\ \A y \in S : Min(S) =< y
<1>1. PICK x \in S : \A y \in S : ~(<<y, x>> \in OpToRel(<, Nat))
  BY NatLessThanWellFounded, WFMin
<1>2. \A y \in S : y < x => <<y, x>> \in OpToRel(<, Nat)
  BY Zenon DEF OpToRel
<1>3. \A y \in S : ~(y < x)
  BY <1>1, <1>2, Zenon
<1>4. \A y \in S : x =< y
  BY <1>3
<1> QED
  BY <1>4 DEF Min

(* What the caller of alloc40_allocate() is given lies inside the map.      *)
LEMMA FoundInBounds ==
  ASSUME NEW b, b.total = Total, NEW count \in Nat \ {0},
         aal_find_zero_bits(b, 0, count).count > 0
  PROVE  LET found == aal_find_zero_bits(b, 0, count)
         IN  /\ found.start \in Blocks /\ found.count \in Nat
             /\ InBounds(b, found.start, found.count)
<1> DEFINE clear == {x \in 0 .. b.total - 1 : x \notin b.map}
           first == Min(clear)
           set   == {x \in first .. b.total - 1 : x \in b.map}
           stop  == IF set = {} THEN INVAL_BLK ELSE Min(set)
           last  == IF stop = INVAL_BLK THEN b.total ELSE stop
           len   == IF last - first < count THEN last - first ELSE count
<1>1. clear # {}
  BY DEF aal_find_zero_bits, reiser4_bitmap_find_cleared, FirstOf, INVAL_BLK
<1>2. first \in clear
  <2>1. clear \in SUBSET Nat
    OBVIOUS
  <2> QED
    BY <1>1, <2>1, MinExists
<1>3. first \in 0 .. Total - 1 /\ first # INVAL_BLK
  BY <1>2 DEF INVAL_BLK
<1> HIDE DEF first
<1>4. set # {} => Min(set) \in set
  <2>1. set \in SUBSET Nat
    BY <1>3
  <2> QED
    BY <2>1, MinExists
<1>5. last \in first .. Total
  BY <1>3, <1>4 DEF INVAL_BLK
<1>6. aal_find_zero_bits(b, 0, count) = [start |-> first, count |-> len]
  BY <1>1, <1>3 DEF aal_find_zero_bits, reiser4_bitmap_find_cleared,
                    reiser4_bitmap_find_marked, FirstOf, first
<1> HIDE DEF last
<1>7. len \in Nat /\ len > 0 /\ first + len =< Total
  BY <1>3, <1>5, <1>6
<1> HIDE DEF len
<1> QED
  BY <1>3, <1>6, <1>7 DEF InBounds, Blocks, Bits

-----------------------------------------------------------------------------

(* The map in memory, as TypeOK describes it.                               *)
Maps == [map : SUBSET Slots, marked : Int, total : {Total}]

Counted(b) == b.marked = Cardinality(b.map \cap Blocks)

(* The blocks of the file system have a slot in the map; sets of them count.*)
LEMMA BlocksFinite ==
  /\ Blocks \subseteq Slots
  /\ \A S \in SUBSET Blocks : IsFiniteSet(S) /\ Cardinality(S) \in Nat
<1>1. Blocks \subseteq Slots
  BY RoomCovers DEF Blocks, Bits, Slots
<1>2. IsFiniteSet(Blocks)
  BY FS_Interval DEF Blocks, Bits
<1> QED
  BY <1>1, <1>2, FS_Subset, FS_CardinalityType

(* reiser4_bitmap_mark_region() keeps the counter exact.                    *)
LEMMA MarkRegionCounts ==
  ASSUME NEW b \in Maps, Counted(b), NEW start \in Nat, NEW count \in Nat
  PROVE  LET r == reiser4_bitmap_mark_region(b, start, count)
         IN  /\ r \in Maps /\ Counted(r)
             /\ r.map = IF InBounds(b, start, count)
                        THEN b.map \cup Region(start, count) ELSE b.map
<1> DEFINE r == reiser4_bitmap_mark_region(b, start, count)
           new == {x \in Region(start, count) : reiser4_bitmap_test(b, x) = FALSE}
           old == b.map \cap Blocks
<1>1. CASE ~InBounds(b, start, count)
  BY <1>1 DEF reiser4_bitmap_mark_region
<1>2. CASE InBounds(b, start, count)
  <2>1. Region(start, count) \subseteq Blocks
    BY <1>2 DEF InBounds, Region, Blocks, Bits, Maps
  <2>2. new = Region(start, count) \ b.map
    BY <2>1 DEF reiser4_bitmap_test, Blocks, Bits, Maps
  <2>3. /\ r.map = b.map \cup Region(start, count)
        /\ r.marked = b.marked + Cardinality(new)
        /\ r = [map |-> r.map, marked |-> r.marked, total |-> Total]
    BY <1>2 DEF reiser4_bitmap_mark_region, reiser4_bitmap_calc, Maps
  <2>4. r.map \cap Blocks = old \cup new /\ old \cap new = {}
    BY <2>1, <2>2, <2>3
  <2>5. Cardinality(old \cup new) = Cardinality(old) + Cardinality(new)
    <3>1. /\ IsFiniteSet(old) /\ IsFiniteSet(new)
          /\ Cardinality(old) \in Nat /\ Cardinality(new) \in Nat
      BY <2>1, <2>2, BlocksFinite
    <3>2. Cardinality(old \cup new) =
            Cardinality(old) + Cardinality(new) - Cardinality(old \cap new)
      BY <3>1, FS_Union
    <3>3. Cardinality(old \cap new) = 0
      BY <2>4, FS_EmptySet
    <3> HIDE DEF old, new
    <3> QED
      BY <3>1, <3>2, <3>3
  <2>6. Cardinality(new) \in Nat /\ r.map \subseteq Slots
    BY <2>1, <2>2, <2>3, BlocksFinite DEF Maps
  <2>7. r \in Maps /\ Counted(r)
    BY <2>3, <2>4, <2>5, <2>6 DEF Maps, Counted
  <2> QED
    BY <1>2, <2>3, <2>7
<1> QED
  BY <1>1, <1>2

(* reiser4_bitmap_clear_region() keeps the counter exact.                   *)
LEMMA ClearRegionCounts ==
  ASSUME NEW b \in Maps, Counted(b), NEW start \in Nat, NEW count \in Nat
  PROVE  LET r == reiser4_bitmap_clear_region(b, start, count)
         IN  /\ r \in Maps /\ Counted(r)
             /\ r.map = IF InBounds(b, start, count)
                        THEN b.map \ Region(start, count) ELSE b.map
<1> DEFINE r == reiser4_bitmap_clear_region(b, start, count)
           gone == {x \in Region(start, count) : reiser4_bitmap_test(b, x) = TRUE}
           old == b.map \cap Blocks
<1>1. CASE ~InBounds(b, start, count)
  BY <1>1 DEF reiser4_bitmap_clear_region
<1>2. CASE InBounds(b, start, count)
  <2>1. Region(start, count) \subseteq Blocks
    BY <1>2 DEF InBounds, Region, Blocks, Bits, Maps
  <2>2. gone = Region(start, count) \cap b.map
    BY <2>1 DEF reiser4_bitmap_test, Blocks, Bits, Maps
  <2>3. r = [map    |-> b.map \ Region(start, count),
              marked |-> b.marked - Cardinality(gone),
              total  |-> Total]
    BY <1>2 DEF reiser4_bitmap_clear_region, reiser4_bitmap_calc, Maps
  <2>4. (b.map \ Region(start, count)) \cap Blocks = old \ gone /\ old \cap gone = gone
    BY <2>1, <2>2
  <2>5. /\ Cardinality(old \ gone) = Cardinality(old) - Cardinality(gone)
        /\ Cardinality(old) \in Nat /\ Cardinality(gone) \in Nat
    <3>1. IsFiniteSet(old) /\ IsFiniteSet(gone)
          /\ Cardinality(old) \in Nat /\ Cardinality(gone) \in Nat
      BY <2>1, <2>2, BlocksFinite
    <3>2. Cardinality(old \ gone) = Cardinality(old) - Cardinality(old \cap gone)
      BY <3>1, FS_Difference
    <3> QED
      BY <3>1, <3>2, <2>4
  <2>6. b.map \subseteq Slots /\ b.marked \in Int /\ b.marked = Cardinality(old)
    BY DEF Maps, Counted
  <2>7. r \in Maps /\ Counted(r)
    <3> DEFINE m == b.map \ Region(start, count)
               n == b.marked - Cardinality(gone)
    <3>1. m \subseteq Slots /\ n \in Int /\ n = Cardinality(m \cap Blocks)
      <4>1. m \subseteq Slots
        BY <2>6
      <4>2. m \cap Blocks = old \ gone
        BY <2>4
      <4>3. n \in Int /\ n = Cardinality(old \ gone)
        <5> HIDE DEF gone, old
        <5> QED
          BY <2>5, <2>6
      <4> HIDE DEF m, n, gone, old
      <4> QED
        BY <4>1, <4>2, <4>3
    <3>2. r = [map |-> m, marked |-> n, total |-> Total]
      BY <2>3
    <3> HIDE DEF m, n, r
    <3> QED
      BY <3>1, <3>2 DEF Maps, Counted
  <2> QED
    BY <1>2, <2>3, <2>7
<1> QED
  BY <1>1, <1>2

-----------------------------------------------------------------------------

(* A bitmap block never speaks of blocks outside its chunk, and the bytes   *)
(* past the end of the map stay 0xff.                                       *)
DiskShape == \A k \in Chunks :
  /\ disk[k].bits \subseteq ChunkBits(k)
  /\ ChunkBits(k) \ Slots \subseteq disk[k].bits

(* Inside alloc40_sync() the map is dirty; outside there is nothing left to *)
(* write.                                                                   *)
SyncDirty == state = "sync" => dirty

(* While the map is clean, the checksums remembered from the load are those *)
(* of the device, or the device has been written since and its own are      *)
(* right.                                                                   *)
CrcKnown == state = "open" /\ ~dirty =>
  \A k \in Chunks : crc[k] = disk[k].crc \/ disk[k].crc = disk[k].bits

(* The inductive invariant.                                                 *)
IInv ==
  /\ TypeOK /\ UsedExact /\ HeldMarked
  /\ CleanIsSaved /\ SyncPrefix /\ CheckedIsValid
  /\ DiskShape /\ SyncDirty /\ CrcKnown

(* TypeOK and UsedExact in the words of the lemmas above.                   *)
LEMMA TypeMaps == TypeOK <=>
  /\ state \in {"closed", "open", "sync"}
  /\ bm \in Maps
  /\ crc \in [Chunks -> SUBSET Nat]
  /\ dirty \in BOOLEAN
  /\ disk \in [Chunks -> [crc : SUBSET Nat, bits : SUBSET Nat]]
  /\ todo \subseteq Chunks
  /\ held \subseteq Blocks
  /\ checked \in BOOLEAN
  BY Zenon DEF TypeOK, Maps, Slots

(* reiser4_bitmap_create() makes an empty map with a counter of zero.       *)
LEMMA EmptyMap == NoMap \in Maps /\ Counted(NoMap) /\ NoMap.map = {} /\ NoMap.total = Total
<1>1. Cardinality({}) = 0
  BY FS_EmptySet
<1>2. {} \cap Blocks = {}
  OBVIOUS
<1> QED
  BY <1>1, <1>2 DEF NoMap, reiser4_bitmap_create, Maps, Counted

(* What is saved for chunk k: bits of the chunk, naturals, padding included. *)
LEMMA ImageShape ==
  ASSUME NEW b \in Maps, NEW k \in Chunks
  PROVE  /\ Image(b, k) \in SUBSET Nat
         /\ Image(b, k) \subseteq ChunkBits(k)
         /\ ChunkBits(k) \ Slots \subseteq Image(b, k)
         /\ Image(b, k) \cap Slots = b.map \cap ChunkBits(k)
<1>1. k \in Nat /\ k * Bpb \in Nat /\ (k + 1) * Bpb \in Nat
  BY ChunksNat
<1>2. ChunkBits(k) \subseteq Nat
  BY <1>1 DEF ChunkBits
<1>3. Image(b, k) = (b.map \cap ChunkBits(k)) \cup (ChunkBits(k) \ Slots)
  BY DEF Image, Slots
<1>4. b.map \subseteq Slots
  BY DEF Maps
<1> QED
  BY <1>2, <1>3, <1>4

(* The bitmap blocks of a fresh file system are blocks of it.               *)
LEMMA FormattedMap == Formatted \in Maps
<1> DEFINE L == alloc40_layout(Total)
<1>1. L \subseteq Nat
  BY DEF alloc40_layout
<1>2. L \subseteq Blocks
  <2> HIDE DEF L
  <2>1. \A b \in L : b < Total
    BY DEF L
  <2> QED
    BY <1>1, <2>1 DEF Blocks, Bits
<1>3. Cardinality(L) \in Nat /\ L \subseteq Slots
  BY <1>2, BlocksFinite
<1>4. Formatted = [map |-> L, marked |-> Cardinality(L), total |-> Total]
  <2>1. Formatted = [NoMap EXCEPT !.map = L, !.marked = Cardinality(L)]
    BY DEF Formatted
  <2> HIDE DEF L
  <2> QED
    BY <2>1 DEF NoMap, reiser4_bitmap_create
<1> HIDE DEF L
<1> QED
  BY <1>3, <1>4 DEF Maps

(* Loading the map gives back, chunk by chunk, what the blocks hold.        *)
LEMMA FetchedMap ==
  ASSUME TypeOK, DiskShape
  PROVE  /\ Fetched \in Maps /\ Counted(Fetched)
         /\ \A k \in Chunks : disk[k].bits \cap Slots = Fetched.map \cap ChunkBits(k)
<1> DEFINE raised == (UNION {disk[k].bits : k \in Chunks}) \cap Slots
           loaded == [map |-> raised, marked |-> 0, total |-> Total]
           lit    == {x \in Region(0, Total) : reiser4_bitmap_test(loaded, x) = TRUE}
           n      == Cardinality(lit)
<1>1. Fetched = [map |-> raised, marked |-> n, total |-> Total]
  <2> HIDE DEF raised
  <2>1. loaded = [NoMap EXCEPT !.map = raised]
    BY DEF NoMap, reiser4_bitmap_create
  <2>2. Fetched = reiser4_bitmap_calc_marked(loaded)
    BY <2>1 DEF Fetched, raised, Slots
  <2>3. reiser4_bitmap_calc(loaded, 0, loaded.total, TRUE) = n
    BY DEF reiser4_bitmap_calc
  <2>4. reiser4_bitmap_calc_marked(loaded) = [loaded EXCEPT !.marked = n]
    BY <2>3 DEF reiser4_bitmap_calc_marked
  <2> HIDE DEF n
  <2> QED
    BY <2>2, <2>4
<1>2. lit = raised \cap Blocks
  <2> HIDE DEF raised
  <2> QED
    BY DEF Region, Blocks, Bits, reiser4_bitmap_test
<1>3. n \in Nat /\ n = Cardinality(raised \cap Blocks)
  BY <1>2, BlocksFinite
<1>4. raised \subseteq Slots
  OBVIOUS
<1>5. Fetched \in Maps /\ Counted(Fetched)
  <2> HIDE DEF raised, n
  <2> QED
    BY <1>1, <1>3, <1>4 DEF Maps, Counted
<1>6. \A k \in Chunks : disk[k].bits \cap Slots = raised \cap ChunkBits(k)
  <2> TAKE k \in Chunks
  <2>1. disk[k].bits \subseteq ChunkBits(k)
    BY DEF DiskShape
  <2>2. \A j \in Chunks : j # k => disk[j].bits \cap ChunkBits(k) = {}
    <3> TAKE j \in Chunks
    <3> HAVE j # k
    <3>1. disk[j].bits \subseteq ChunkBits(j)
      BY DEF DiskShape
    <3>2. ChunkBits(j) \cap ChunkBits(k) = {}
      BY ChunksNat, ChunksDisjoint
    <3> QED
      BY <3>1, <3>2
  <2>3. \A x : x \in raised <=> x \in Slots /\ \E j \in Chunks : x \in disk[j].bits
    BY Zenon
  <2> HIDE DEF raised
  <2> QED
    BY <2>1, <2>2, <2>3
<1> QED
  BY <1>1, <1>5, <1>6

-----------------------------------------------------------------------------

(* A freshly formatted device satisfies the inductive invariant.            *)
LEMMA InitIInv == Init => IInv
<1> SUFFICES ASSUME Init PROVE IInv
  OBVIOUS
<1>1. TypeOK
  BY EmptyMap, FormattedMap, ImageShape, TypeMaps DEF Init
<1>2. UsedExact /\ HeldMarked
  BY EmptyMap DEF Init, UsedExact, HeldMarked, Counted
<1>3. DiskShape
  BY FormattedMap, ImageShape DEF Init, DiskShape
<1>4. CleanIsSaved /\ SyncPrefix /\ CheckedIsValid /\ SyncDirty /\ CrcKnown
  BY DEF Init, CleanIsSaved, SyncPrefix, CheckedIsValid, SyncDirty, CrcKnown
<1> QED
  BY <1>1, <1>2, <1>3, <1>4 DEF IInv

(* The steps that only change the map in memory and mark it dirty.          *)
LEMMA MapChange ==
  ASSUME IInv, state = "open", dirty' = TRUE,
         bm' \in Maps, Counted(bm'), held' \subseteq Blocks, held' \subseteq bm'.map,
         UNCHANGED <<state, crc, disk, todo, checked>>
  PROVE  IInv'
<1>1. TypeOK'
  <2>1. /\ crc' \in [Chunks -> SUBSET Nat]
        /\ disk' \in [Chunks -> [crc : SUBSET Nat, bits : SUBSET Nat]]
        /\ todo' \subseteq Chunks /\ checked' \in BOOLEAN
    BY DEF IInv, TypeOK
  <2> QED
    BY <2>1 DEF TypeOK, Maps, Slots
<1>2. UsedExact' /\ HeldMarked'
  BY DEF UsedExact, HeldMarked, Counted
<1>3. DiskShape'
  BY DEF IInv, DiskShape
<1>4. CleanIsSaved' /\ SyncPrefix' /\ CheckedIsValid' /\ SyncDirty' /\ CrcKnown'
  BY DEF CleanIsSaved, SyncPrefix, CheckedIsValid, SyncDirty, CrcKnown
<1> QED
  BY <1>1, <1>2, <1>3, <1>4 DEF IInv

(* The steps that forget the map: close and crash.                          *)
LEMMA ForgetStep ==
  ASSUME IInv, Forget, UNCHANGED disk
  PROVE  IInv'
<1>1. TypeOK'
  <2>1. disk' \in [Chunks -> [crc : SUBSET Nat, bits : SUBSET Nat]]
    BY DEF IInv, TypeOK
  <2> QED
    BY <2>1, EmptyMap DEF Forget, TypeOK, Maps, Slots
<1>2. UsedExact' /\ HeldMarked'
  BY EmptyMap DEF Forget, UsedExact, HeldMarked, Counted
<1>3. DiskShape'
  BY DEF IInv, DiskShape
<1>4. CleanIsSaved' /\ SyncPrefix' /\ CheckedIsValid' /\ SyncDirty' /\ CrcKnown'
  BY DEF Forget, CleanIsSaved, SyncPrefix, CheckedIsValid, SyncDirty, CrcKnown
<1> QED
  BY <1>1, <1>2, <1>3, <1>4 DEF IInv

(* Every step of a run keeps the inductive invariant: one case per action.  *)
LEMMA NextIInv == IInv /\ [Next]_vars => IInv'
<1> SUFFICES ASSUME IInv, [Next]_vars PROVE IInv'
  OBVIOUS
<1>0. /\ bm \in Maps /\ Counted(bm) /\ bm.total = Total
      /\ held \subseteq Blocks /\ held \subseteq bm.map
      /\ disk \in [Chunks -> [crc : SUBSET Nat, bits : SUBSET Nat]]
      /\ TypeOK /\ DiskShape
  BY TypeMaps DEF IInv, UsedExact, HeldMarked, Counted, Maps
<1>1. CASE alloc40_create
  <2>1. bm' \in Maps /\ Counted(bm') /\ held' \subseteq bm'.map
    BY <1>1, EmptyMap DEF alloc40_create, NoMap
  <2>2. TypeOK'
    BY <1>1, <1>0, <2>1 DEF alloc40_create, TypeOK, Maps, Slots
  <2> QED
    BY <1>1, <1>0, <2>1, <2>2 DEF alloc40_create, IInv, UsedExact, HeldMarked, Counted,
       CleanIsSaved, SyncPrefix, CheckedIsValid, DiskShape, SyncDirty, CrcKnown
<1>2. CASE alloc40_open
  <2>1. bm' \in Maps /\ Counted(bm') /\ held' = bm'.map \cap Blocks
    BY <1>2, <1>0, FetchedMap DEF alloc40_open
  <2>2. TypeOK'
    BY <1>2, <1>0, <2>1 DEF alloc40_open, TypeOK, Maps, Slots
  <2>3. CleanIsSaved'
    BY <1>2, <1>0, FetchedMap DEF alloc40_open, CleanIsSaved, Slots
  <2>4. CrcKnown'
    BY <1>2 DEF alloc40_open, CrcKnown
  <2> QED
    BY <1>2, <1>0, <2>1, <2>2, <2>3, <2>4 DEF alloc40_open, IInv, UsedExact, HeldMarked,
       Counted, SyncPrefix, CheckedIsValid, DiskShape, SyncDirty
<1>3. ASSUME NEW start \in Blocks, NEW count \in 0 .. Total + 1,
             alloc40_occupy(start, count)
      PROVE  IInv'
  <2>1. start \in Nat /\ count \in Nat
    BY DEF Blocks, Bits
  <2>2. InBounds(bm, start, count) => Region(start, count) \subseteq Blocks
    BY <1>0, <2>1 DEF InBounds, Region, Blocks, Bits
  <2>3. bm' \in Maps /\ Counted(bm') /\ held' \subseteq bm'.map /\ held' \subseteq Blocks
    BY <1>0, <1>3, <2>1, <2>2, MarkRegionCounts DEF alloc40_occupy
  <2> QED
    BY <1>3, <2>3, MapChange DEF alloc40_occupy
<1>4. ASSUME NEW start \in Blocks, NEW count \in 0 .. Total + 1,
             alloc40_release(start, count)
      PROVE  IInv'
  <2>1. start \in Nat /\ count \in Nat
    BY DEF Blocks, Bits
  <2>2. bm' \in Maps /\ Counted(bm') /\ held' \subseteq bm'.map /\ held' \subseteq Blocks
    BY <1>0, <1>4, <2>1, ClearRegionCounts DEF alloc40_release
  <2> QED
    BY <1>4, <2>2, MapChange DEF alloc40_release
<1>5. ASSUME NEW count \in 1 .. Total, alloc40_allocate(count) PROVE IInv'
  <2> DEFINE found == aal_find_zero_bits(bm, 0, count)
  <2>1. /\ found.start \in Nat /\ found.count \in Nat
        /\ InBounds(bm, found.start, found.count)
    BY <1>0, <1>5, FoundInBounds DEF alloc40_allocate, Blocks, Bits
  <2> HIDE DEF found
  <2>2. Region(found.start, found.count) \subseteq Blocks
    BY <1>0, <2>1 DEF InBounds, Region, Blocks, Bits
  <2>3. bm' = reiser4_bitmap_mark_region(bm, found.start, found.count)
    BY <1>5 DEF alloc40_allocate, found
  <2>4. held' = held \cup Region(found.start, found.count)
    BY <1>5 DEF alloc40_allocate, found
  <2>5. bm' \in Maps /\ Counted(bm') /\ bm'.map = bm.map \cup Region(found.start, found.count)
    BY <1>0, <2>1, <2>3, MarkRegionCounts
  <2> QED
    BY <1>0, <1>5, <2>2, <2>4, <2>5, MapChange DEF alloc40_allocate
<1>6. ASSUME NEW map \in SUBSET Blocks, alloc40_assign(map) PROVE IInv'
  <2>1. Cardinality(map) \in Nat /\ map \subseteq Slots /\ map \cap Blocks = map
    BY BlocksFinite
  <2>2. bm' \in Maps /\ Counted(bm') /\ held' \subseteq bm'.map /\ held' \subseteq Blocks
    <3>1. bm' = [map |-> map, marked |-> Cardinality(map), total |-> Total] /\ held' = map
      BY <1>6 DEF alloc40_assign
    <3>2. bm'.map = map /\ bm'.marked = Cardinality(map)
      BY <3>1
    <3>3. bm' \in Maps
      BY <2>1, <3>1 DEF Maps
    <3>4. Counted(bm')
      BY <2>1, <3>2 DEF Counted
    <3> QED
      BY <1>6, <3>1, <3>2, <3>3, <3>4
  <2> QED
    BY <1>6, <2>2, MapChange DEF alloc40_assign
<1>7. CASE alloc40_check_struct
  <2>1. TypeOK'
    BY <1>7, <1>0 DEF alloc40_check_struct, TypeOK
  <2>2. UsedExact' /\ HeldMarked' /\ DiskShape'
    BY <1>7 DEF alloc40_check_struct, IInv, UsedExact, HeldMarked, DiskShape
  <2>3. CleanIsSaved' /\ SyncPrefix' /\ SyncDirty' /\ CrcKnown'
    BY <1>7 DEF alloc40_check_struct, IInv, CleanIsSaved, SyncPrefix, SyncDirty, CrcKnown
  <2>4. CheckedIsValid'
    <3> SUFFICES ASSUME ~dirty', NEW k \in Chunks PROVE disk[k].crc = disk[k].bits
      BY <1>7 DEF alloc40_check_struct, CheckedIsValid
    <3>1. ~dirty /\ crc[k] = Image(bm, k) /\ state = "open"
      BY <1>7 DEF alloc40_check_struct, alloc40_valid, cb_valid_block
    <3>2. crc[k] = disk[k].crc \/ disk[k].crc = disk[k].bits
      BY <3>1 DEF IInv, CrcKnown
    <3>3. disk[k].bits \cap Slots = bm.map \cap ChunkBits(k)
      BY <3>1 DEF IInv, CleanIsSaved, Slots
    <3>4. Image(bm, k) = disk[k].bits
      BY <1>0, <3>3, ImageShape DEF DiskShape
    <3> QED
      BY <3>1, <3>2, <3>4
  <2> QED
    BY <2>1, <2>2, <2>3, <2>4 DEF IInv
<1>8. CASE reiser4_alloc_sync
  <2>1. TypeOK'
    BY <1>8, <1>0 DEF reiser4_alloc_sync, TypeOK
  <2>2. UsedExact' /\ HeldMarked' /\ DiskShape'
    BY <1>8 DEF reiser4_alloc_sync, IInv, UsedExact, HeldMarked, DiskShape
  <2> QED
    BY <1>8, <2>1, <2>2 DEF reiser4_alloc_sync, IInv, CleanIsSaved, SyncPrefix,
       CheckedIsValid, SyncDirty, CrcKnown
<1>9. CASE cb_sync_bitmap
  <2> DEFINE w == Min(todo)
  <2>1. /\ state = "sync" /\ UNCHANGED <<state, bm, crc, dirty, held, checked>>
        /\ disk' = [disk EXCEPT ![w] = [crc |-> Image(bm, w), bits |-> Image(bm, w)]]
        /\ todo' = todo \ {w}
    BY <1>9 DEF cb_sync_bitmap
  <2> HIDE DEF w
  <2>2. ASSUME NEW k \in Chunks
        PROVE  /\ k = w => disk'[k] = [crc |-> Image(bm, k), bits |-> Image(bm, k)]
               /\ k # w => disk'[k] = disk[k]
    BY <1>0, <2>1
  <2>3. disk' \in [Chunks -> [crc : SUBSET Nat, bits : SUBSET Nat]]
    <3>1. ASSUME NEW k \in Chunks PROVE disk'[k] \in [crc : SUBSET Nat, bits : SUBSET Nat]
      <4>1. Image(bm, k) \in SUBSET Nat
        BY <1>0, ImageShape
      <4>2. disk[k] \in [crc : SUBSET Nat, bits : SUBSET Nat]
        BY <1>0
      <4>3. CASE k = w
        <5>1. disk'[k] = [crc |-> Image(bm, k), bits |-> Image(bm, k)]
          BY <2>2, <4>3, Zenon
        <5> QED
          BY <4>1, <5>1
      <4>4. CASE k # w
        <5>1. disk'[k] = disk[k]
          BY <2>2, <4>4, Zenon
        <5> QED
          BY <4>2, <5>1
      <4> QED
        BY <4>3, <4>4
    <3> QED
      BY <1>0, <2>1, <3>1
  <2>4. TypeOK'
    BY <1>0, <2>1, <2>3 DEF TypeOK
  <2>5. UsedExact' /\ HeldMarked'
    BY <2>1 DEF IInv, UsedExact, HeldMarked
  <2>6. DiskShape'
    <3> SUFFICES ASSUME NEW k \in Chunks
                 PROVE  /\ disk'[k].bits \subseteq ChunkBits(k)
                        /\ ChunkBits(k) \ Slots \subseteq disk'[k].bits
      BY DEF DiskShape
    <3>1. CASE k = w
      <4>1. /\ Image(bm, k) \subseteq ChunkBits(k)
            /\ ChunkBits(k) \ Slots \subseteq Image(bm, k)
        BY <1>0, ImageShape
      <4>2. disk'[k] = [crc |-> Image(bm, k), bits |-> Image(bm, k)]
        BY <2>2, <3>1, Zenon
      <4>3. disk'[k].bits = Image(bm, k)
        BY <4>2
      <4> QED
        BY <4>1, <4>3
    <3>2. CASE k # w
      BY <1>0, <2>2, <3>2 DEF DiskShape
    <3> QED
      BY <3>1, <3>2
  <2>7. SyncPrefix'
    <3> SUFFICES ASSUME NEW k \in Chunks \ todo'
                 PROVE  disk'[k] = [crc |-> Image(bm, k), bits |-> Image(bm, k)]
      BY <2>1 DEF SyncPrefix, Image
    <3>1. k = w \/ k \in Chunks \ todo
      BY <2>1
    <3> QED
      BY <2>1, <2>2, <3>1 DEF IInv, SyncPrefix
  <2>8. CleanIsSaved' /\ CheckedIsValid' /\ SyncDirty' /\ CrcKnown'
    BY <2>1 DEF IInv, CleanIsSaved, CheckedIsValid, SyncDirty, CrcKnown
  <2> QED
    BY <2>4, <2>5, <2>6, <2>7, <2>8 DEF IInv
<1>10. CASE SyncFails
  <2>1. TypeOK'
    BY <1>10, <1>0 DEF SyncFails, TypeOK
  <2>2. UsedExact' /\ HeldMarked' /\ DiskShape'
    BY <1>10 DEF SyncFails, IInv, UsedExact, HeldMarked, DiskShape
  <2> QED
    BY <1>10, <2>1, <2>2 DEF SyncFails, IInv, CleanIsSaved, SyncPrefix,
       CheckedIsValid, SyncDirty, CrcKnown
<1>11. CASE SyncDone
  <2>1. TypeOK'
    BY <1>11, <1>0 DEF SyncDone, TypeOK
  <2>2. UsedExact' /\ HeldMarked' /\ DiskShape'
    BY <1>11 DEF SyncDone, IInv, UsedExact, HeldMarked, DiskShape
  <2>3. \A k \in Chunks : disk[k] = [crc |-> Image(bm, k), bits |-> Image(bm, k)]
    BY <1>11 DEF SyncDone, IInv, SyncPrefix
  <2>4. \A k \in Chunks : /\ disk[k].crc = disk[k].bits
                          /\ disk[k].bits \cap Slots = bm.map \cap ChunkBits(k)
    BY <1>0, <2>3, ImageShape
  <2>5. CleanIsSaved' /\ CheckedIsValid' /\ CrcKnown'
    BY <1>11, <2>4 DEF SyncDone, CleanIsSaved, CheckedIsValid, CrcKnown, Slots
  <2> QED
    BY <1>11, <2>1, <2>2, <2>5 DEF SyncDone, IInv, SyncPrefix, SyncDirty
<1>12. CASE alloc40_close
  BY <1>12, ForgetStep DEF alloc40_close
<1>13. CASE Crash
  BY <1>13, ForgetStep DEF Crash
<1>14. ASSUME NEW c \in Chunks, NEW b \in Blocks, Corrupt(c, b) PROVE IInv'
  <2>1. /\ state = "closed" /\ UNCHANGED <<state, bm, crc, dirty, todo, held, checked>>
        /\ disk' = [disk EXCEPT ![c].bits = @ \ {b}]
    BY <1>14 DEF Corrupt
  <2>2. disk' \in [Chunks -> [crc : SUBSET Nat, bits : SUBSET Nat]]
    BY <1>0, <2>1
  <2>3. TypeOK'
    BY <1>0, <2>1, <2>2 DEF TypeOK
  <2>4. DiskShape'
    <3> SUFFICES ASSUME NEW k \in Chunks
                 PROVE  /\ disk'[k].bits \subseteq ChunkBits(k)
                        /\ ChunkBits(k) \ Slots \subseteq disk'[k].bits
      BY DEF DiskShape
    <3>1. disk'[k].bits = disk[k].bits \/ disk'[k].bits = disk[k].bits \ {b}
      BY <1>0, <2>1
    <3>2. b \in Slots
      BY BlocksFinite
    <3> QED
      BY <1>0, <3>1, <3>2 DEF DiskShape
  <2>5. UsedExact' /\ HeldMarked'
    BY <2>1 DEF IInv, UsedExact, HeldMarked
  <2> QED
    BY <2>1, <2>3, <2>4, <2>5 DEF IInv, CleanIsSaved, SyncPrefix, CheckedIsValid,
       SyncDirty, CrcKnown
<1>15. CASE UNCHANGED vars
  BY <1>15 DEF vars, IInv, TypeOK, UsedExact, HeldMarked, CleanIsSaved, SyncPrefix,
     CheckedIsValid, DiskShape, SyncDirty, CrcKnown, Image
<1> QED
  BY <1>1, <1>2, <1>3, <1>4, <1>5, <1>6, <1>7, <1>8, <1>9, <1>10, <1>11, <1>12,
     <1>13, <1>14, <1>15 DEF Next

-----------------------------------------------------------------------------

(* The invariant that carries the others through every order of calls,      *)
(* failed saves, crashes and lost bits of alloc40.                          *)
THEOREM Invariance == Spec => []IInv
  BY InitIInv, NextIInv, PTL DEF Spec

(* The variables keep their types, the map keeps inside its whole bytes and *)
(* no client owns a block outside the file system.                          *)
THEOREM AllocTypeCorrect == Spec => []TypeOK
  BY Invariance, PTL DEF IInv

(* The counter alloc40_used() and alloc40_free() report is the number of    *)
(* marked blocks, whatever the size of the file system.                     *)
THEOREM CounterExact == Spec => []UsedExact
  BY Invariance, PTL DEF IInv

(* alloc40_allocate() never hands out a block somebody owns.                *)
THEOREM NoDoubleOwner == Spec => []HeldMarked
  BY Invariance, PTL DEF IInv

(* reiser4_alloc_sync() skips writing only what is on the device already,   *)
(* and a save cut by a failed write or a crash leaves every block it has    *)
(* gone past complete, checksum included.                                   *)
THEOREM SkippedSaveIsHarmless == Spec => []WrittenIsSaved
<1>1. IInv => WrittenIsSaved
  BY DEF IInv, WrittenIsSaved
<1> QED
  BY <1>1, Invariance, PTL

(* After alloc40_check_struct() a clean map means right checksums on the    *)
(* device.                                                                  *)
THEOREM ChecksumsGetFixed == Spec => []CheckedIsValid
  BY Invariance, PTL DEF IInv
=============================================================================
