# A TLA+ model of reiser4progs

reiser4progs are the user level tools of the reiser4 file system (mkfs, fsck,
debugfs, resizefs, cpfs, measurefs) over the libraries `libreiser4` (the file
system), `librepair` (fsck's passes) and a set of plugins (`plugin/`: formats
of nodes, items, allocators, journals, objects). This directory models the
libraries' core logic, checks it with TLC on small instances and proves part
of it with TLAPS.

The programs are single threaded. What makes them hard is not scheduling but

* callbacks that change what the caller is looking at: connecting a node to
  the tree's cache may call the memory pressure function, which unloads every
  node nothing has locked; fsck's walk over names adds and removes entries of
  the directories it is reading;
* long chains of operations on shared structure: an insert that shifts items
  into neighbours, allocates nodes, grows the tree, inserts nodeptrs by calling
  itself one level up, and updates keys, parent places, sibling pointers and
  lock counters on the way;
* counters and caches kept by differences: used blocks, free blocks, free space
  of a node, lock counts, marked bits, link counts;
* writes that may fail or be cut by a crash between any two blocks, calls that
  fail half way and are undone, and programs started again after that;
* fsck's input: a device on which anything may be damaged, and which an earlier
  fsck may have left half repaired.

## Inventory

| component | source | state | operations | what makes it correct |
|---|---|---|---|---|
| bit map | `libreiser4/bitmap.c` | bits, cached count, length | mark, clear, regions, search, resize, invert, pack, unpack | the count is the number of set bits; a packed map reads back; a damaged one is refused |
| block allocator | `libreiser4/alloc.c`, `plugin/alloc/alloc40` | bit map, checksums, dirty flag, blocks on the device | open, create, occupy, release, allocate, assign, sync, close, check | nothing is handed out twice; skipping a save is harmless; checksums match what they are stored with |
| node | `plugin/node/node40` | items, free space counter | insert, write, truncate, remove, shift | space counter exact; a shift moves data without losing any, keeps order and the insert point |
| tail items | `plugin/item/tail40`, `plain40`, `body40` | bytes | split, merge, truncate | unit keys; never two mergeable items in a node |
| directory items | `plugin/item/cde40` | entry heads, offsets, names in one region of bytes | insert, remove, shift, merge, lookup, check, merging of found items | no gap and no overlap; the check tells good from bad |
| tree | `libreiser4/tree.c`, `node.c`, `place.c` | root, height, nodes; cache of node objects with parent place, siblings, locks | lookup, insert, write, cut, remove, grow, dry out, attach, detach, next place, adjust | it is a key store; delimiting keys; levels; cache agrees with nodes; no block leaks |
| file bodies | `libreiser4/flow.c`, `plugin/item/extent40` | items of one object | read, write, cut, convert | a body has no gaps; size and form agree |
| objects | `libreiser4/object.c`, `semantic.c`, `plugin/object` | stat data, directory entries, link counts | create, link, unlink, lookup, readdir, write, truncate, convert | link counts equal the entries, also after a call failed; reading a directory misses nothing |
| file system | `libreiser4/filesystem.c`, `format.c`, `status.c`, `master.c`, `backup.c` and their counterparts in `librepair` | master, format super block, status, backup copies | open, create, sync, check, regenerate | what is called consistent opens; the identity survives; no mixture of two file systems opens |
| journal | `plugin/journal/journal40`, `libreiser4/journal.c` | committed and flushed transaction headers, log records | replay, check, update | replay in commit order, repeatable after a crash; broken transactions cut off |
| object ids | `plugin/oid/oid40` | next, used | allocate, sync | an id is never given to two objects |
| repair passes | `librepair` | block maps per pass, tree under construction | filter, disk scan, twig scan, add missing, cleanup | each pass hands on what it promises; the result is a sound tree, with all that could be read |
| semantic pass | `librepair/semantic.c`, `object.c`, `plugin/object/*/*_repair.c` | objects and their flags, the recursion | walk, uplink, lost+found, scan, counting links | all is named from where it belongs, links are exact, the pass ends |
| plugins of single values | keys, hashes, fibres, policies, stat data extensions | - | pack, compare, hash | pure functions |
| tools | `progs`, `demos`, `libmisc`, `libaux` | options | user interface | modelled where they order the calls of the libraries |

How they interact: tools open a file system, which opens master, format,
journal (replayed first), allocator and oid allocator; objects call the tree
through `tree_ops`; the tree calls node plugins, those call item plugins; the
tree takes blocks from the format's free counter at once and from the allocator
when a node is written; memory pressure calls back into the tree. fsck opens
and checks the super blocks, replays the journal, filters the tree, reads nodes
off the device and inserts them into the tree it keeps, walks the names, and
saves everything in order.

## Modules

| module | models | uses |
|---|---|---|
| `Bitmap` | `bitmap.c` as operators on a value | |
| `AuxBitmap` | the life of one bit map, with its saved form | `Bitmap` |
| `Alloc40Layout` | which blocks belong to the allocator | |
| `Alloc40` | the allocator over a device that loses bits, with block-wise saving, failures and crashes | `Bitmap`, `Alloc40Layout` |
| `Basics` | lemmas about strides, folds, sequences and recursive functions that the proofs share | |
| `BitmapProofs` | lemmas about the operators of `Bitmap` | `Bitmap`, `Basics` |
| `AuxBitmapProofs` | theorems about `AuxBitmap` | `AuxBitmap`, `BitmapProofs` |
| `Alloc40Proofs` | theorems about `Alloc40` | `Alloc40` |
| `Node40` | a node and its items as operators | |
| `Node40Shift` | `node40_shift()` | `Node40` |
| `Node40Pair` | two neighbours being filled, cut and rebalanced | `Node40Shift` |
| `Node40PairProofs` | theorems about `Node40Pair` | `Node40Pair`, `Basics` |
| `TreeCache` | tree value, cache, loading and unloading, neighbours, lookup, next place | `Node40Shift` |
| `TreeBalance` | insertion, removal, balancing, growing, drying out | `TreeCache` |
| `KeyStore` | the abstract specification: units under keys | |
| `Tree` | the tree under its callers, next to the key store it implements | `TreeBalance`, `KeyStore` |
| `JournalStructure` | what the journal keeps on the device, and the walks over transactions and log records | |
| `JournalCheck` | `journal40_check_struct()` and the description of a right journal it is to establish | `JournalStructure` |
| `CommittedStore` | the abstract specification: blocks change only when a transaction commits | |
| `Journal40` | fsck's start: open, check, replay block by block, save; kernel, crashes and damage as environment | `JournalCheck`, `CommittedStore` |
| `Journal40Proofs` | theorems about `Journal40` | `Journal40`, `Basics` |
| `SuperBlocks` | master, format super block, status and backup copies: opening, checking, regenerating, as functions of the device | |
| `Filesystem` | mkfs and fsck over a device, one block written at a time, with crashes and damage | `SuperBlocks` |
| `FilesystemProofs` | theorem about `Filesystem` | `Filesystem`, `Basics` |
| `RepairTree` | nodes, items and the tree as fsck's passes change them | |
| `Repair` | the passes, the block maps they hand on, and fsck killed and started again | `RepairTree` |
| `Cde40Body` | the body of a directory item, region by region, and what the item plugin does to it | |
| `Cde40Check` | fsck's check of a body | `Cde40Body` |
| `Cde40` | the items of one directory in two nodes | `Cde40Check` |
| `Directory` | the entries of a directory as `dir40` sees them: lookup with collisions, reading entry by entry | |
| `Objects` | objects, names and file bodies under the programs that make, link, remove, write and truncate | `Directory` |
| `ObjectsProofs` | theorem about `Objects` | `Objects`, `Basics` |
| `Semantic` | fsck's semantic pass | |
| `MC...` | the values of constants for TLC | |

Operators and actions carry the names of the C functions they stand for.
Operators whose comment begins with *Mutant*, *A broken* or *As a slip would
have it* are deliberate mistakes, used to see that a property notices them;
nothing refers to them.

### How the state corresponds

*Bit map.* `[map, marked, total]` are `bitmap->map`, `->marked`, `->total`; the
map may hold bits from `total` up to the end of its last byte, as in the code.
A byte has `ByteBits` bits.

*Allocator.* `bm`, `crc`, `dirty` are `alloc->bitmap`, `alloc->crc` and the
entity's dirty bit. `disk` has the content and the checksum of every bitmap
block; the checksum is modelled as the content it was computed from. `held` is
a history variable: the blocks clients own. `state = "sync"` lies between two
writes of `alloc40_sync()`, so that a failure or a crash can come there.

*Node.* `[items, free]`; an item is `[key, kind, len]`, in a tree with `ptr`.
Offsets inside the block are abstracted to lengths. Keys are numbers: the
quotient by `KeySpan` is the object, the remainder the offset. Kinds: `"sd"`
(any unsplittable leaf item), `"tail"` (splittable, a unit per byte), `"ext"`
(an extent of one unit, on twig level), `"ptr"`.

*Tree.* One value with the contents of all nodes (`nodes`, `level`), the node
objects in memory (`mem`: parent place, siblings, lock counter, hashed), the
root pointers, the free block counter, and flags `bug` and `stale` that are
raised where the code asserts or would touch a node object that is gone.
Operators take a tree and return one, in the order of the code's statements, so
that a callback in the middle of an operation sees what the code would see.
Between operations node identifiers are renamed to tree order (`Renamed`),
which only merges states that differ by names. A node is identified by itself,
not by its block number. The tree's callers are the actions of `Tree`: creating
and removing stat data, writing extents, appending to, cutting and converting
tails, fsck's attaching of leaves, lookups, and unloading between operations.
`pressure` says whether `mpc_func()` reports memory pressure during the
operation.

*Journal.* `disk` maps blocks to contents: a TxH, a log record, the journal's
header and footer, the format super block (root and one number for the counters
that always travel together), or data, numbered by the transaction that wrote
it. `header`, `footer`, `dirty` are the journal entity, `format`, `fdirty` and
`alloc`, `adirty` what the format and the allocator entities hold in memory.
`phase` is the place in `fsck_check_init()` and `reiser4_fs_sync()`; `txs`,
`logblk`, `pairs` are `tx_list`, `log_blk` and the entries left in
`journal40_traverse()` during the replay, which takes one step for each block it
reads or writes, so that a crash or an error can come there. The walks of the
check change nothing on the device and are one step; the order in which they
visit blocks is kept (`Visits`), and a walk that would not end gives the phase
`"hung"`. The kernel (`Commit`, `Flush`) is outside the repository: it is
modelled by what the tools expect to find, and never runs together with them.

*Super blocks and file system.* `dev` is the device: master, format super block,
status block, allocator map, tree, journal and the places of backup copies. A
field's value only has to be told apart from others; a value above 100 is one no
program wrote. Tree and map carry the number of the mkfs that made them (`gen`),
so that a mixture can be seen. `fs` is the handle with its dirty parts, `todo`
the blocks `reiser4_fs_sync()` has still to write in its order, `pc` and `job`
the place in which program. What the passes over the tree do is here one step
with their result (`RepairCheck`): a build gives the tree its map, a check and a
fix count a map that differs from the blocks in use as fatal, and a fix adds those
blocks to the map all the same (`United`; a map that then belongs to no one mkfs is
`MixedMap`). The bytes of a map that `repair_bitmap_compare()` does not see are
left to `Repair`. `truth` and `hurt` are history: the backup of
the last completed mkfs, and the blocks damaged and not written since.

*Repair passes.* `dev` is the device, `t` the file system in memory, `todo` what
`reiser4_fs_sync()` or a flush of the tree has still to write: dirty nodes, children
first, then bitmap blocks, then the format with root, height and counter, one block
a step (`Write`); nothing else goes on meanwhile, but fsck may be killed before any
of them. The nodes filter and scans close are written at once, one in a step
(`reiser4_node_fini`). A new node has a number past the device until a flush gives
it a block (`cb_node_adjust`); flushes come at the ends of the passes, before add
missing gives up, and whenever memory is short (`Pressure`, between two nodes of
add missing or two items of cleanup). `bm` has the maps `bm_twig`, `bm_leaf`, `bm_met`
and `bm_scan`, and `t.used`, `t.alloc` are `bm_used` and the allocator. `stack`
is the recursion of `reiser4_tree_trav_node()`, one step for each item the
filter's callbacks see. A node takes any number of items here: how nodes are
split and packed is `Tree`'s subject. `before` is history: the keys that can be
saved; `torn` too: nodes of add missing have begun to be written, and the map and the
format that go with them are not complete yet.

*Directory items.* A body is a sequence of cells, one for each field of the
structures in `cde40.h`; sizes are scaled down in a way that keeps every
comparison the code makes. Operations copy and move cells as the code copies
bytes, so a wrong length shows as a wrong body. `pend` and `point` are an insert
between the lookup and the insertion, while balancing shifts units.

*Objects.* `objs` gives each object id its kind, link count, size, entries or
body. Calls return the set of their outcomes; a call that fails before it
changes anything is one of `Faults`, and the operation then undoes what it did
as far as the code does. `scan` is a handle reading the root directory between
operations. `broke` marks files on which a write or conversion failed.

*Semantic pass.* `objs` gives each object id what is left of it: stat data
(`sd`), `..` (`up`, a set of none or one), entries by key, link count, and the
flags kept on the stat data item (checked, attached, attaching, traversed).
`stack` is the recursion through `reiser4_object_traverse()`,
`cb_object_traverse()`, `repair_semantic_uptraverse()` and
`repair_semantic_uplink()`, with what each call has read before the next one
changes it: flags (`seen`) and the position of the walk. `hash` varies where
"lost+found" and the names in it come among the others, since that decides what
the walk meets first.

## Runs

| run | question | bounds | states |
|---|---|---|---|
| `aux_bitmap` | counter, region tests, packing | lengths 1..6 in bytes of 3 bits: whole bytes, slack, growing and shrinking in bits and in bytes | 27 432 |
| `alloc40` | ownership, counter, dirty flag, saves, checksums | 5 blocks, 4 per bitmap block, bytes of 2 bits: two bitmap blocks, one bit of slack | 229 894 |
| `node40_pair` | shifting in every mode | nodes of 8 bytes, 3 objects, tails of up to 2 bytes | 23 195 |
| `tree_stat` | unsplittable items, pressure | nodes of 5 bytes (two entries), 5 keys, 12 blocks; trees reach level 4 | 1 374 |
| `tree_body` | extents and tails | 2 stat data, an extent between them, a tail of up to 3 bytes that shares leaves with stat data and is split; 10 blocks | 3 170 |
| `journal40` | replay under crashes; fsck comes to its end | 3 transactions about the super block and an allocator block, with one or two log records; 1 crash or failed write | 42 270 |
| `journal40_damage` | check and replay of damaged journals | 2 transactions, any 2 fields damaged, with a TxH, a log record, a wandered block or a block behind the end as junk; also with an allocator to be fixed | 4 527 748 |
| `repair_passes` | rebuilding, checking, being killed | a tree of three levels with 6 nodes, extents and a hole, 11 blocks in two regions of the map; any 2 damages, kills or objects left behind; fix, or build and then check | 846 729 |
| `filesystem` | mkfs and fsck on a failing device | 24 blocks with 3 backup copies, file systems of 12 and 24; damages, crashes and further calls of mkfs, the n-th of a kind weighing n, together up to 3 | 633 546 |
| `cde40` | bodies of directory items, their check | 4 entries, two with short and two with long names, items of at most 18 cells; any 2 cells damaged, with any value of an offset | 270 377 |
| `objects` | names, counts, directory reading, file bodies | 2 names and 2 of one key, 5 object ids, files of up to 4 units in blocks of 2, 1 call that fails | 82 958 |
| `semantic` | fsck's semantic pass | every tree of 2 directories and a file with up to 2 names besides the root and lost+found; any 2 losses, or one entry or `..` astray | 542 903 |

Why these are enough: a node with room for two entries is the smallest that can
be full, half full and empty, so each insert beyond the second splits and each
removal packs; five keys make four levels, where updating keys and places over
more than one level happens. In `node40_pair`, tails with lengths from one byte
to more than a node's rest make the merge, the split and the "header fits, no
byte does" cases of `node40_unite()`. Three transactions are enough for a block
to be written by two of them while a third is pending, one crash for a replay to
be done again from any point it was interrupted at; two damaged fields are
needed for a log record to be shared by transactions of which neither is right.
In `repair_passes` two damages reach every pair of what the passes tell apart:
pointers, levels, keys, items and nodes, root, height, map and counter, and a
twig has more items than two damages can take. Of the keys one is nobody's, so that
a damaged item can come between two items of a leaf and make add missing split it.
Two blocks are free, so a tree that needs more nodes than that runs out of space and
add missing gives up. A damaged device is not checked first, as checking it writes
nothing and no property says anything of it; what a rebuild leaves is.
Three copies are the smallest
number of which most can survive one damage; by the weights a damage, a crash and
another mkfs can come together in any order, or two of a kind. Two short
names and two long ones make the change from one to the other in the middle of a
body, which is where offsets are guessed. Two directories below the root make a
chain, a cycle, and a parent that is met before or after its child; with
lost+found first or last among the names each of them is met from above, from
below and by the scan.

In the tree runs the file system begins with its root directory, whose stat data
has the smallest key (`RootKey`), as mkfs makes it. Once an operation has
returned an error the tool gives up (`failed`). Deadlock is not checked where
the programs really stop: a tool gives up after an error or on a device without
a super block, and fsck's passes come to their end.

### What the properties say

`AuxBitmap`: `MarkedExact`, the counter and the tests of regions agree with the
bits through every history of updates, inversions and resizes; `PackRoundTrip`,
the saved form reads back and no part of it does. Both are proved, see below.

`Alloc40`: `UsedExact`, `HeldMarked`, `WrittenIsSaved`,
`CheckedIsValid`; all are proved, see below.

`Node40Pair`: `NodesSound` (space counter, nothing mergeable left apart),
`ShiftKeepsUnits` (a shift loses, doubles and reorders no unit) and `PointKept` (the
insert point exists afterwards and separates the same units); all are proved, see
below.

`Tree`: `Implements` relates the whole contents, in tree order, to the store of
the abstract specification `KeyStore`. The others say why lookups and walks can
rely on it: `Shape` (delimiting keys, levels, no block leaked), `NextPlaceSteps`,
`CacheExact` (parents, locks and siblings in memory are those of the tree), and
`NoBug`: no assertion fails and no unloaded node is used.

`Journal40`: `Implements` maps the device, with what is pending applied to it,
to the store of `CommittedStore`, which changes only by commits; so flushing,
replaying, crashing in the middle and replaying again must all be stuttering
steps. `CheckedIsSound` and `SoundIsKept` say that the check leaves a journal as
its description wants it and cuts none that was (a device whose header block was
overwritten has no list of transactions to keep), `HangsNeedTwo` that it comes
to its end as long as only one field is damaged; `NeverRefused` and
`ReplayApplies` that such a journal can be replayed, and that doing it block by
block gives what putting all wandered blocks in place at once would;
`Terminates` that fsck's walks end.

`Repair`: `RebuiltIsSound` (the tree, the allocator and the counter on the
device agree after a rebuild, wherever between two written blocks earlier ones were
killed), `NothingLost` (whatever could be read is in the tree before the semantic
pass), `RecheckIsClean`, `AssertsHold`. fsck may be killed between any two steps and
any two blocks it writes, and memory may be short at any time in add missing.
`NothingLost` has one exception, which is the code's: when fsck is killed while the
nodes of add missing are being written (`torn`), the next run has to save only what
is then still in a node that is known to be in use. Without the exception TLC
refutes it, see the disagreements.

`Filesystem`: `ConsistentOpens`, `IdentityKept`, `OpensWhole`,
`FullBuildSucceeds`; the comments at the definitions say for which histories.

`Cde40`: `BodyExact`, and `CheckSound`: the check has nothing to say about good
items, and an item it has nothing to say about is good.

`Objects`: `CountsExact` (links, sizes, order, parents, also after an operation
failed and was undone), `NoneMissed` (a directory read while it changes),
`FileExact` (units and form of a file's body).

`Semantic`: `RecheckIsClean` for whatever damage; `NothingCutOff`,
`LinksCounted` and `Finishes` when things were only lost.

### Fairness

`Journal40` assumes weak fairness of the steps of the running tool (`Tool`),
because a program that is running goes on; crashes, damage and starting fsck are
never required. `Semantic` assumes weak fairness of its next step: the pass is
one sequential program with no one to wait for, and whether its recursion ends
is the question. The other libraries' operations are function calls that
return; no liveness is claimed for them.

## Disagreements found

Met while translating or when TLC refuted a stronger property; the properties
above are stated so that they hold, and what they leave out is said here.

*Allocator.* `alloc40_layout()` loops to `start + total` instead of `total`
(`alloc40.c:50`), so for sizes just below a multiple of the blocks per bitmap
block it visits a block behind the end. `alloc40_create()` rounds the number of
checksums down where opening rounds up (`alloc40.c:190`).

*Tree.* Inserting in front of the first item of a full root attaches the new
node behind the old root, so the new root's keys are out of order
(`tree.c:2961`); mkfs makes the smallest key first, and the instances do too.
Inserting an extent between two leaves leaves their sibling pointers, and
`reiser4_tree_adjust_place()` follows the old pointer past the extent
(`tree.c:733`); siblings are checked in trees without extents.

*Journal.* The replay gives the format the footer's counters before it updates
the footer (`journal40.c:595`), so those of the last transaction are lost; the
allocator is opened before the replay and not read again
(`librepair/filesystem.c:80`), so an fsck that fixes a checksum saves the old
map over the replayed one: `journal40` has nothing to fix there. Nothing stops
the walk over log records (the FIXME at `journal40.c:337`), so with two damaged
fields the nested walk of the check may go round for ever (phase `"hung"`). A
replayed block that cannot be written is freed twice (`journal40.c:540`).

*Super blocks.* A build that found no super block at all wipes the master before
the rest is written. Cut off while the copies are updated, the next
`--build-sb` takes the version back (`format40_repair.c:114`). `--build-fs`
without `--build-sb` spreads a damaged policy into the copies. On a file system
with a single copy, one damaged copy outvotes good super blocks. When the plugin
set of the root differs from the backup outside build mode, `fsck_check_fini()`
uses a tree that has none (report `"died"`). The table at
`librepair/backup.c:250` describes a branch that is commented out.

*Repair passes.* An inner node that loses all its pointers is detached while the
traversal goes on, and another pointer is removed at a place that has moved
(`filter.c:443`): the instance has more pointers in each node than damages,
so the clause of `AssertsHold` about it is not put to the test. A kill while add
missing writes its nodes can lose items. A flush writes the nodes of the tree one
after the other in the order of their keys (`tree.c:1377`): when a leaf was split,
its left half goes over the whole leaf before the right half, a new node, is
written, and is all that is left of it if fsck is killed then. Besides, the blocks of leaves inserted item by item are free
from then on (`add_missing.c:280`), while the nodes with these items get their
blocks at the flush (`tree.c:1280`) and may get just those. And a new node is in use
only for the map in memory, which is written behind the nodes; if fsck is killed
before that and no node written points to the new one yet, the next run scans its
block only if the map lacks another block of the same region.
`filter.c:624` takes a root one block behind the end for legal.
`repair_item_check_layout()` forgets that it fixed a unit when it then removes
one; extents of the instance have one unit, so no property depends on it. The last
partial byte of two maps is compared at numbers counted in bytes
(`repair.c:74`).

*Directory items.* In build mode a body whose keys change between short and long
out of order is cut at the wrong length (`cde40_repair.c:700`). Removing unit 0
returns a fatal error with the message "Fixed.". `CheckSound` is claimed for
check and fix mode.

*Objects.* `cde40_collision()` steps through the units with `pos.unit` and
compares `pos.item` (`cde40.c:937`), and `reiser4_tree_collision()` takes
whatever position inside of the item for a match (`tree.c:1639`): a name that is
not there is found if another has its key, and removing it removes the other.
The programs' names have keys of their own in the instance; the kernel's file
has two names of one key. `dir40_clobber()` wants two links where
`dir40_linked()` calls one unlinked, so a removed directory is never erased, and
making a directory under a name that is taken leaks one. `rm` removes a
directory that is not empty. When the second half of a call fails after its
first half changed something (`dir40.c:495`, `555`, `577`), nothing undoes the
first. A conversion that fails loses the block it cut (`flow.c:454`); growing by
truncation ignores a short write (`obj40.c:779`); `flow_cut()` counts in 32 bits,
so more than 4 GiB cannot be cut: `obj40_truncate()` asks for everything behind
the new size (`obj40.c:787`) and one call takes at most `CutMax` units of it. The
instance and the theorem about files have `UpToBlock(MaxSize) =< CutMax`.

*Semantic pass.* When the name or the body of a directory below lost+found is
lost and the scan meets the child first, the child stays without a name: the
loop that looks for the link stops at the first entry that names something else
(`semantic.c:250`), so "EOF was reached. Add entry to the parent." happens only
in an empty directory. `NothingCutOff` lets a directory be known by its `..`. An
object whose `..` is lost may be found by the scan before its parent is and is
then walked twice, since the scan does not mark it traversed: links are counted
twice. When a `..` or an entry names the wrong object, more goes wrong: the pass
is given up when `..` names a file, or the name in lost+found is taken; and when
the new name is added behind the last entry of the directory being read, that
entry is read again and again with its links counted up, because the position
after the last entry is the old key plus one (`dir40.c:166`). In check and fix
mode nothing marks what was traversed, so a cycle of directories is walked for
ever.

## Proofs

`Alloc40Proofs` proves for every number of blocks, bits per byte and blocks per
bitmap block, from `ByteBitsAssumption`, `LayoutConstants` and `AllocConstants`:

* `Invariance`: `Spec => []IInv`. `IInv` has the type invariant, the properties
  below, and what they need to be inductive: `DiskShape` (the bits a block holds
  on the device lie within its own chunk and include all padding bits past the
  end of the map), `SyncDirty` (a save is only under way while the map is dirty)
  and `CrcKnown` (while the map is open and clean, the checksum remembered for a
  block is the one on the device, or the one on the device is right). Without
  `DiskShape`, loading could raise bits of another chunk and what is in memory
  would not be what was saved; without `SyncDirty`, a save cut short could leave
  a clean map; without `CrcKnown`, a check that finds nothing to fix would say
  nothing about the device.
* `AllocTypeCorrect`, `CounterExact` (`UsedExact`), `NoDoubleOwner`
  (`HeldMarked`), `SkippedSaveIsHarmless` (`WrittenIsSaved`, which is
  `CleanIsSaved` and `SyncPrefix`), `ChecksumsGetFixed` (`CheckedIsValid`).

The argument goes action by action; lemmas state what marking and clearing a
region do to the counter (`MarkRegionCounts`, `ClearRegionCounts`, with finite
set cardinalities), that what `aal_find_zero_bits()` finds is inside the map
(`FoundInBounds`), that no two bitmap blocks describe one block
(`ChunksDisjoint`), and that loading gives back what the blocks hold
(`FetchedMap`).

`AuxBitmapProofs` proves for maps and bytes of every size, from
`ByteBitsAssumption` and `MaxTotalAssumption`:

* `CountersStayExact` (`MarkedExact`) and `SavedMapsReadBack` (`PackRoundTrip`).
  The inductive invariant says that `marked` is the number of bits below `total`,
  that no bit lies past the last byte, and that a saved form is one that packing a
  map gives. Bits between `total` and the end of the last byte are allowed, as in
  the code: inverting and resizing must not count them, which is where the
  argument is (`BitmapProofs` has a lemma for each operator). The runs of equal
  bits that packing writes are a recursive function; that two such functions with
  the same steps agree is `Basics`' part.

`FilesystemProofs` proves `CutOffMkfsOpensWhole` (`OpensWhole`) for every device,
size of bitmap block, place of the first copy and set of sizes mkfs is asked for.
The invariant `IInv` has one part per phase. `Building`: between the moment the old
master is wiped and the first write, there is no master on the device and all
entities are dirty, so all will be written. `Writing`: while blocks are written,
there is no master until the last write, and whatever else is on the device is
either unusable (no root, no root directory) or of this mkfs. `Stopped`: what the
property says, when nothing runs. Each action keeps it; damage afterwards can only
take away. The assumptions on the constants are facts of the code:

* `2 < BackupStart < RegionLen`: the first copy is behind the format's own blocks
  and inside of the first region (`REISER4_BACKUP_START` is 64 KiB and six blocks,
  a region `8 * (blksize - 4)` blocks);
* `BackupStart < MinLen <= DevLen`: mkfs refuses a device that is smaller;
* `MaxTrouble < 49`: the instance marks damaged numbers by values from 100 on;
  less trouble than that keeps the numbers of an mkfs below. It is a bound of the
  model, not of the code.

`ObjectsProofs` proves `FilesStayExact`: `OneCutSuffices => (Spec => []FileExact)`,
for blocks, tails, files and sets of names of every size. `OneCutSuffices` is
`UpToBlock(MaxSize) =< CutMax`: one call cuts a whole file, true of files below
4 GiB and needed, since `flow_cut()` counts in 32 bits. The invariant `FilesInv`
says that every object is a record of its kind, that every file is exact, and that
ids from the next one on are unused, so that a new object never lands on an old
body. The operators that make, link, unlink and attach are shown to leave bodies
alone (`SameFiles`); writing, converting between tails and extents, and truncating
each have a lemma on what units are in the tree afterwards, also when the call
failed half way.

`Node40PairProofs` proves `SpaceStaysExact` (`NodesSound`), `KeysStayOrdered`
(the items of both nodes, one after the other, are in the order of their keys),
`ShiftLosesNothing` (`ShiftKeepsUnits`) and `PointStaysInPlace` (`PointKept`) for
nodes, item headers, objects and tails of every size. The assumptions are facts of
the code: a header is smaller than a node, and a node smaller than `MAX_UINT32`, the
unit that stands for a whole item (`NodeConstants`; the free counter of the node
header, which an empty node fills, has 16 bits); how many objects there are and how
long tails get are natural numbers (`PairConstants`).

The invariant `Pair` says of each node that its items are stat data or tails whose
keys stay inside their object, that neighbours are `Tight` (the first ends before
the second starts, and they could not be merged), and that the free counter and the
weight of the items make up the node; and of the two that the last item of the left
one ends before the first of the right one starts (`Border`). The two nodes may well
meet in items that could be merged: that is what the first pass of `node40_shift()`
is for. So the argument about a shift is what each pass leaves at the border. The
first pass only appends: behind it the border items cannot be merged (`Joined`), or
the destination is full or the insert point stopped the pass (`Stuck`). A pass that
is stuck lets no whole item go either, so those that go in the second pass arrive
`Tight`, and what `node40_predict()` counted fits (`Counting`: the counter in
the hint and the bytes of the items taken make up the destination's space, turn by
turn). The third pass makes a new tail of some units, which takes a header more.
Each change of a node is an exchange of an item for one that fits (`Exchange`),
items taken out (`Drops`) or put in (`Inserts`, `Expanded`), with the counter moved
by the same bytes. For writes and cuts the premise is the callers': a body is
written behind its last unit and cut at either end (`flow.c`), without which a key
could run into the next item.

That no unit is lost rides on the same argument: `Sane`, the invariant between the
passes of a shift, also says that the two nodes hold the units they held before
(`Held`). The units of a sequence of items are those of its parts put together
(`FlatOf`), so a pass need only say what goes over: units of the border tail that
are in the tail of the neighbour afterwards, whose key moves by as many when it
grows at its start (`LeftHeld`, `RightHeld`), or the items of one end (`StaysWhole`,
`WholeHeld`). For this the theorem needs the invariant `Pair`: where the border
items did not fit one another in their keys, the units would come out wrong.

For the insert point the invariant between the passes is `Carries`: where a shift
updates the point and may not move it, it exists (`There`) and has as many units of
both nodes in front of it as before (`Mark`). What leaves the left end of the source
in front of the point counts on the other side instead, and the point goes back by
as many items or units. What leaves the right end was behind it: the prediction
takes no item that the point is in or in front of (`Spared`). Where the point may
move, into a new neighbour, it is at the end of its node, where alone the code makes
such a shift (`Rightmost`): then no pass takes an item or a unit, and the point stays
or becomes the start of the new node (`NewShift`, `Ahead`).

`Journal40Proofs` proves, for journals and devices of every size, any number of
transactions, damaged fields and crashes, and any blocks as originals and log area
that keep apart from the format's (`JournalConstants`, `Journal40Assumption`):

* `TypeCorrect`: the types, and that a device no medium has damaged has a header
  and a footer, and pairs in its log records that the kernel may write.
* `CheckedIsRight` (`CheckedIsSound`) and `RightIsKept` (`SoundIsKept`), with
  nothing assumed about the device: the check is shown to do what the description
  says for every content of the blocks. A list of transactions is a `Chain`, which
  is unique, so a prefix of it is what cutting leaves; its walk over log records is
  a `Circle` back to the transaction. Both are bounded because a walk that is longer
  than the device repeats a block (`RecordsRepeat`, pigeonhole). `SoundList` is put
  in terms of the sequence of all blocks visited (`Visits`): a list is right exactly
  when every visit is fine (`FineIsSound`, and back), and the callback objects to a
  visit exactly when it is not, also when the first is met by the nested walk.
* `ReplayIsNeverRefused` (`NeverRefused`) and `ReplayDoesApply` (`ReplayApplies`).
  The invariant `Replaying` speaks of the device `d0` as it was when this replay
  began, which the program does not keep: the transactions, log records and pairs
  not yet replayed are a suffix of those of `d0` (`InReplay`), the blocks it will
  still read are on the device as in `d0` (`Same`), since no original block
  replayed earlier is visited later as anything else (`Safe`, from the check), and
  putting what is left (`Left`) in place makes `goal` of the device. Each step takes
  the first of the pairs, the log records or the transactions off (`PairStep`, and
  the like for a record and a transaction). The list a replay starts with is right
  as the check left it; a crash in the middle needs nothing more, since fsck checks
  again.

`IInv` is the conjunction of these with `Opened` (the header in memory is the one on
the device) and `Quiet` (no pairs are left between replays). The walks are recursive
functions over numbers, which `Basics` shows to agree with any function that takes the
same steps, and concatenations of what is visited (`FlattenSeq`), which it takes apart.

What is only model-checked, and why:

* Liveness under fairness, ENABLED and induction over data are out of the prover's
  reach. The tree modules declare RECURSIVE operators, which the prover cannot
  take; so `Tree` stays with TLC.
* `Filesystem`: `ConsistentOpens` is no theorem for every value of the constants;
  it depends on the copies the layout of the instance has and on the regions of the
  device agreeing with those of the file system. `IdentityKept` and
  `FullBuildSucceeds` weigh fields against one another by how many copies agree,
  which needs counting over a damaged set.
* `Objects`: `CountsExact` and `NoneMissed` need keys without collisions among the
  programs' names, and cardinalities over entries of all directories.
* `Journal40`: `Implements` would have the invariant say of every moment between
  two writes what a fresh check and replay of the half replayed device give, and of
  a torn update of header and footer; `Terminates` is liveness. `HangsNeedTwo`
  compares a damaged journal to the one before the damage, field by field.
* `Cde40`: its walk along the cells of a body is a recursive function of two
  arguments, and what it says for every body is an induction over data.
* `Repair` and `Semantic`: passes over a tree of recursively defined depth.

## Plan

Done: bit map and allocator with proofs, node40 with the proofs of `NodesSound`,
`ShiftKeepsUnits` and `PointKept`, tree, journal, super blocks and file system with the proof of `OpensWhole`, the proofs
of the journal's check and replay, repair passes, directory items, objects with the proof of `FileExact`, semantic pass. Next:

1. Proofs: that the journal implements `CommittedStore`, link
   counts of `Objects`, the identity of a file system (`IdentityKept`).
2. `extent40` with units of several blocks, splitting a unit by a write into its
   middle, and merging in fsck (`extent40_repair.c`, `tail40_repair.c`).
3. Delayed allocation in `Tree` (`Repair` has it): block numbers given when a node is
   written, and the free counter promised before; resizing (`reiser4_fs_resize()`).
4. `node40_check_struct()` byte by byte, and reading a tree with
   `reiser4_tree_trav()` under callbacks that change it.

## Not modelled

On-disk layouts of single records, key packing, hashes and fibres (pure
functions of one value), user interface, printing, plugin tables, compressed
items and files (never written by the tools), black box items, node41 (node40
with a checksum), resizing and copying of file systems, packing and unpacking of
metadata for debugfs. In `Repair`: what shifting between full nodes changes in a
flush (nodes take any number of items), memory pressure in the middle of an
operation (`Tree` has it), and what the semantic pass itself writes into the tree
(`Semantic` has its decisions).
