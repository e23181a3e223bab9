------------------------------ MODULE Alloc40 -------------------------------
(***************************************************************************)
(* The block allocator: libreiser4/alloc.c over plugin/alloc/alloc40.      *)
(* The map lives in memory between open and close, its blocks on the       *)
(* device each carry a checksum of their own, and saving them is a loop of *)
(* writes that an I/O error or a crash may cut anywhere.                   *)
(*                                                                         *)
(* A bitmap block is its checksum and the set of raised bits of its chunk; *)
(* the checksum (adler32) is modelled as the content it was computed from, *)
(* that is, without collisions.                                            *)
(***************************************************************************)
EXTENDS Bitmap, Alloc40Layout

CONSTANT Total       \* blocks of the file system

Blocks == Bits(Total)

Chunks == {ChunkOf(b) : b \in alloc40_layout(Total)}

(* The file system has room for its first bitmap block, the map is cut in  *)
(* whole bytes, and alloc40_layout() stays inside the file system (what    *)
(* happens otherwise is the subject of MCAlloc40Layout).                   *)
ASSUME AllocConstants ==
  /\ Total \in Nat /\ Start < Total
  /\ Bpb % ByteBits = 0
  /\ \A b \in alloc40_layout(Total) : b < Total

VARIABLES state,   \* "closed", "open", or "sync" inside alloc40_sync()
          bm,      \* alloc->bitmap
          crc,     \* alloc->crc: the checksums found when the map was loaded
          dirty,   \* ENTITY_DIRTY
          disk,    \* the bitmap blocks on the device
          todo,    \* chunks alloc40_sync() has still to write
          held,    \* what clients own: allocated or occupied, not released
          checked  \* fsck has been through alloc40_check_struct()

vars == <<state, bm, crc, dirty, disk, todo, held, checked>>

(* What the block of chunk k holds when it is saved: the bytes of the map, *)
(* then 0xff up to the end of the block.                                   *)
Image(b, k) ==
  (b.map \cap ChunkBits(k)) \cup (ChunkBits(k) \ (0 .. Room(Total) - 1))

NoMap == reiser4_bitmap_create(Total)

(* A freshly made file system: the bitmap blocks themselves are in use.    *)
Formatted == [NoMap EXCEPT !.map = alloc40_layout(Total),
                           !.marked = Cardinality(alloc40_layout(Total))]

(* cb_valid_block(): the checksum found at load time against the map.      *)
cb_valid_block(k) == crc[k] = Image(bm, k)

alloc40_valid == \A k \in Chunks : cb_valid_block(k)

-----------------------------------------------------------------------------

Init ==
  /\ state = "closed"
  /\ bm = NoMap
  /\ crc = [k \in Chunks |-> {}]
  /\ dirty = FALSE
  /\ disk = [k \in Chunks |-> [crc |-> Image(Formatted, k), bits |-> Image(Formatted, k)]]
  /\ todo = {}
  /\ held = {}
  /\ checked = FALSE

(* mkfs: an empty map, dirty; nothing is read.                             *)
alloc40_create ==
  /\ state = "closed"
  /\ state' = "open"
  /\ bm' = reiser4_bitmap_create(Total)
  /\ crc' = [k \in Chunks |-> {}]
  /\ dirty' = TRUE
  /\ held' = {}
  /\ checked' = FALSE
  /\ UNCHANGED <<disk, todo>>

(* cb_fetch_bitmap() on every block, then the counter is computed.         *)
Fetched ==
  LET raised == (UNION {disk[k].bits : k \in Chunks}) \cap (0 .. Room(Total) - 1)
  IN  reiser4_bitmap_calc_marked([NoMap EXCEPT !.map = raised])

alloc40_open ==
  /\ state = "closed"
  /\ state' = "open"
  /\ bm' = Fetched
  /\ crc' = [k \in Chunks |-> disk[k].crc]
  /\ dirty' = FALSE
  /\ held' = Fetched.map \cap Blocks
  /\ checked' = FALSE
  /\ UNCHANGED <<disk, todo>>

(* reiser4_alloc_occupy(): the region is marked whatever it was before.    *)
alloc40_occupy(start, count) ==
  /\ state = "open"
  /\ bm' = reiser4_bitmap_mark_region(bm, start, count)
  /\ dirty' = TRUE
  /\ held' = IF InBounds(bm, start, count) THEN held \cup Region(start, count) ELSE held
  /\ UNCHANGED <<state, crc, disk, todo, checked>>

(* reiser4_alloc_release() of a region its caller owns.                    *)
alloc40_release(start, count) ==
  /\ state = "open"
  /\ Region(start, count) \subseteq held
  /\ bm' = reiser4_bitmap_clear_region(bm, start, count)
  /\ dirty' = TRUE
  /\ held' = IF InBounds(bm, start, count) THEN held \ Region(start, count) ELSE held
  /\ UNCHANGED <<state, crc, disk, todo, checked>>

(* reiser4_alloc_allocate(): the search starts at 0; the caller owns the   *)
(* run found, which may be shorter than it asked for.  With nothing free   *)
(* the caller is told 0 and nothing changes.                               *)
alloc40_allocate(count) ==
  LET found == aal_find_zero_bits(bm, 0, count)
  IN  /\ state = "open"
      /\ found.count > 0
      /\ bm' = reiser4_bitmap_mark_region(bm, found.start, found.count)
      /\ dirty' = TRUE
      /\ held' = held \cup Region(found.start, found.count)
      /\ UNCHANGED <<state, crc, disk, todo, checked>>

(* reiser4_alloc_assign(): fsck replaces the map by the one it built, which *)
(* covers at least what is in use.                                          *)
alloc40_assign(map) ==
  /\ state = "open"
  /\ held \subseteq map
  /\ bm' = [map |-> map, marked |-> Cardinality(map), total |-> Total]
  /\ dirty' = TRUE
  /\ held' = map
  /\ UNCHANGED <<state, crc, disk, todo, checked>>

(* Mutant: a wrong checksum is reported, but not fixed.                    *)
CheckForgetsDirty ==
  /\ state = "open"
  /\ checked' = TRUE
  /\ UNCHANGED <<state, bm, crc, dirty, disk, todo, held>>

(* alloc40_check_struct() in a mode that fixes: a wrong checksum is put    *)
(* right by saving the map later.                                          *)
alloc40_check_struct ==
  /\ state = "open"
  /\ dirty' = (dirty \/ ~alloc40_valid)
  /\ checked' = TRUE
  /\ UNCHANGED <<state, bm, crc, disk, todo, held>>

(* reiser4_alloc_sync(): only a dirty map is written.                      *)
reiser4_alloc_sync ==
  /\ state = "open"
  /\ dirty
  /\ state' = "sync"
  /\ todo' = Chunks
  /\ UNCHANGED <<bm, crc, dirty, disk, held, checked>>

(* The blocks are written in the order of the layout.                      *)
cb_sync_bitmap ==
  LET k == Min(todo)
  IN  /\ state = "sync"
      /\ todo # {}
      /\ disk' = [disk EXCEPT ![k] = [crc |-> Image(bm, k), bits |-> Image(bm, k)]]
      /\ todo' = todo \ {k}
      /\ UNCHANGED <<state, bm, crc, dirty, held, checked>>

(* Mutant: the result of the layout loop is not looked at.                 *)
SyncIgnoresError ==
  /\ state = "sync"
  /\ todo # {}
  /\ state' = "open"
  /\ todo' = {}
  /\ dirty' = FALSE
  /\ UNCHANGED <<bm, crc, disk, held, checked>>

(* A write failed: the loop stops and the map stays dirty.                 *)
SyncFails ==
  /\ state = "sync"
  /\ todo # {}
  /\ state' = "open"
  /\ todo' = {}
  /\ UNCHANGED <<bm, crc, dirty, disk, held, checked>>

SyncDone ==
  /\ state = "sync"
  /\ todo = {}
  /\ state' = "open"
  /\ dirty' = FALSE
  /\ UNCHANGED <<bm, crc, disk, todo, held, checked>>

Forget ==
  /\ state' = "closed"
  /\ bm' = NoMap
  /\ crc' = [k \in Chunks |-> {}]
  /\ dirty' = FALSE
  /\ todo' = {}
  /\ held' = {}
  /\ checked' = FALSE

(* reiser4_alloc_close() throws the map away, saved or not.                *)
alloc40_close == state = "open" /\ Forget /\ UNCHANGED disk

Crash == state # "closed" /\ Forget /\ UNCHANGED disk

(* The device loses a bit of a bitmap block, checksum and all unchanged.   *)
Corrupt(k, b) ==
  /\ state = "closed"
  /\ b \in disk[k].bits
  /\ disk' = [disk EXCEPT ![k].bits = @ \ {b}]
  /\ UNCHANGED <<state, bm, crc, dirty, todo, held, checked>>

Next ==
  \/ alloc40_create \/ alloc40_open
  \/ \E start \in Blocks, count \in 0 .. Total + 1 :
       alloc40_occupy(start, count) \/ alloc40_release(start, count)
  \/ \E count \in 1 .. Total : alloc40_allocate(count)
  \/ \E map \in SUBSET Blocks : alloc40_assign(map)
  \/ alloc40_check_struct
  \/ reiser4_alloc_sync \/ cb_sync_bitmap \/ SyncFails \/ SyncDone
  \/ alloc40_close \/ Crash
  \/ \E k \in Chunks : \E b \in Blocks : Corrupt(k, b)

Spec == Init /\ [][Next]_vars

-----------------------------------------------------------------------------

TypeOK ==
  /\ state \in {"closed", "open", "sync"}
  /\ bm \in [map : SUBSET (0 .. Room(Total) - 1), marked : Int, total : {Total}]
  /\ crc \in [Chunks -> SUBSET Nat]
  /\ dirty \in BOOLEAN
  /\ disk \in [Chunks -> [crc : SUBSET Nat, bits : SUBSET Nat]]
  /\ todo \subseteq Chunks
  /\ held \subseteq Blocks
  /\ checked \in BOOLEAN

(* alloc40_used() and alloc40_free() report a counter that is only ever     *)
(* adjusted by differences; it is the number of blocks marked in the map    *)
(* through every order of allocation, release, assignment and reload.       *)
UsedExact == bm.marked = Cardinality(bm.map \cap Blocks)

(* A block somebody owns is marked, so that alloc40_allocate() cannot hand  *)
(* it out a second time.                                                    *)
HeldMarked == held \subseteq bm.map

(* ENTITY_DIRTY off means the device already has the map: what             *)
(* reiser4_alloc_sync() skips writing needs no writing, also after a save   *)
(* that failed half way.                                                    *)
CleanIsSaved ==
  state # "closed" /\ ~dirty =>
    \A k \in Chunks : disk[k].bits \cap (0 .. Room(Total) - 1) = bm.map \cap ChunkBits(k)

(* The blocks alloc40_sync() has gone past hold the current map with its    *)
(* checksum: a crash in the middle leaves each block old or new, none with  *)
(* a checksum of something else.                                            *)
SyncPrefix ==
  state = "sync" => \A k \in Chunks \ todo :
    disk[k] = [crc |-> Image(bm, k), bits |-> Image(bm, k)]

(* No block is taken for saved that is not: neither by the dirty flag, which *)
(* tells reiser4_alloc_sync() to skip all of them, nor by the loop of        *)
(* alloc40_sync(), which does not come back to those it has gone past.       *)
WrittenIsSaved == CleanIsSaved /\ SyncPrefix

(* "Checksums will be fixed later" (alloc40_repair.c:328): once fsck has     *)
(* checked the allocator, a map that is not dirty has no block with a wrong  *)
(* checksum left on the device.                                              *)
CheckedIsValid ==
  state = "open" /\ checked /\ ~dirty =>
    \A k \in Chunks : disk[k].crc = disk[k].bits
=============================================================================
