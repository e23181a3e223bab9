------------------------------- MODULE Repair -------------------------------
(***************************************************************************)
(* fsck's passes (librepair/repair.c): filter, twig scan, disk scan, twig  *)
(* scan of what was found, add missing, semantic, cleanup, update.  The    *)
(* environment damages the device before, and may kill fsck between any    *)
(* two steps and any two blocks it writes.  What the semantic pass keeps   *)
(* is an arbitrary choice here, Semantic models how it is made.            *)
(***************************************************************************)
EXTENDS RepairTree

CONSTANTS InitDisk,    \* a sound tree: block -> node or NoNode
          InitRoot, InitHeight,
          InitAlloc,   \* the blocks in use
          ByteBits,    \* blocks per byte of a bit map
          RegionLen,   \* blocks per bitmap block of the allocator
          Modes,       \* modes the user may start fsck in first
          MaxFaults    \* bound on damages, kills and what the semantic pass leaves behind, together

ASSUME RepairConstants ==
  /\ InitDisk \in [Blocks -> {NoNode} \cup {InitDisk[b] : b \in Blocks}]
  /\ InitAlloc \subseteq Blocks /\ FormatArea \subseteq InitAlloc
  /\ ByteBits \in Nat \ {0} /\ RegionLen \in Nat \ {0}
  /\ Modes \subseteq {"check", "fix", "build"}

VARIABLES t,        \* the file system in memory, see RepairTree
          dev,      \* what has been written to the device: [d, root, height, alloc, free]
          todo,     \* what reiser4_fs_sync() still has to write
          mode,     \* repair->mode
          phase,    \* the pass repair_check() is in
          bm,       \* the other bit maps: [twig, leaf, met, scan]
          stack,    \* reiser4_tree_trav_node(): the path to the node it is in
          fd,       \* the filter: [level, flags]
          errors,   \* repair->fatal, repair->fixable
          garbage,  \* what the semantic pass leaves unchecked
          bug,      \* an assertion of the code fails
          damaged, kills,
          torn,     \* history: new nodes are being written, the map that knows them is not
          before,   \* history: the keys a rebuild has to save
          last      \* history: the last run that came to its end

vars == <<t, dev, todo, mode, phase, bm, stack, fd, errors, garbage, bug,
          damaged, kills, torn, before, last>>

Build == mode = "build"
Check == mode = "check"

(* reiser4_fs_sync() writes the dirty nodes of the tree, children first,    *)
(* then the bitmap blocks, then the format with root, height and counter.   *)
NodeWrite(b) == [part |-> "node", at |-> b]

NodeWrites(u) ==
  LET order == reiser4_tree_walk_node(u, FALSE) IN [i \in DOMAIN order |-> NodeWrite(order[i])]

MapWrites ==
  [i \in 1 .. (NBlocks - 1) \div RegionLen + 1 |-> [part |-> "map", at |-> i - 1]]

FormatWrite == [part |-> "format", at |-> 0]

Region(r) == {b \in Blocks : b \div RegionLen = r}

After(v, u, w) ==
  CASE w.part = "node"   -> [v EXCEPT !.d[w.at] = u.d[w.at]]
    [] w.part = "map"    -> [v EXCEPT !.alloc = (@ \ Region(w.at)) \cup (u.alloc \cap Region(w.at))]
    [] w.part = "format" -> [v EXCEPT !.root = u.root, !.height = u.height, !.free = u.free]

(* Starts to write some of u, of which closed nodes are not part of the     *)
(* tree any more; what the device has already is left out.                  *)
Flush(u, writes) ==
  LET kept == {writes[i].at : i \in {i \in DOMAIN writes : writes[i].part = "node"}}
      left == SelectSeq(writes, LAMBDA w : After(dev, u, w) # dev)
  IN  /\ t' = [u EXCEPT !.d = [b \in Blocks |-> IF b \in kept THEN u.d[b] ELSE dev.d[b]]]
      /\ todo' = left

(* reiser4_fs_sync() of u after the blocks of some closed nodes; no pass    *)
(* calls it in check mode.                                                  *)
SyncAfter(closed, u) ==
  LET f == Adjusted(u)
  IN  IF Check THEN t' = u /\ UNCHANGED todo
      ELSE Flush(f, closed \o NodeWrites(f) \o MapWrites \o <<FormatWrite>>)

reiser4_fs_sync(u) == SyncAfter(<<>>, u)

(* reiser4_node_fini() writes one node.                                     *)
reiser4_node_fini(b, u) == dev' = IF Check THEN dev ELSE [dev EXCEPT !.d[b] = u.d[b]]

InitFs ==
  [d |-> InitDisk, root |-> InitRoot, height |-> InitHeight, alloc |-> InitAlloc,
   free |-> NBlocks - Cardinality(InitAlloc)]

NoMaps == [twig |-> {}, leaf |-> {}, met |-> {}, scan |-> {}]

Loaded(v) == [d |-> v.d, root |-> v.root, height |-> v.height, alloc |-> v.alloc,
              used |-> FormatArea, free |-> v.free, err |-> FALSE]

Init ==
  /\ dev = InitFs /\ t = Loaded(InitFs) /\ todo = <<>>
  /\ mode = "check" /\ phase = "idle" /\ bm = NoMaps /\ stack = <<>>
  /\ fd = [level |-> 0, flags |-> {}] /\ errors = [fatal |-> 0, fixable |-> 0]
  /\ garbage = {} /\ bug = FALSE /\ damaged = 0 /\ kills = 0 /\ torn = FALSE /\ before = {} /\ last = "none"

-----------------------------------------------------------------------------
(* The environment *)

(* The keys items of a kind have, and those no item has                     *)
KeysOf(kinds) ==
  {i.key : i \in {i \in UNION {ToSet(InitDisk[b].items) : b \in Blocks} : i.kind \in kinds}}

DamagedKeys(kind) == KeysOf({kind}) \cup ((1 .. MaxKey) \ KeysOf({"sd", "ext", "ptr"}))

Damages(v) ==
     {[v EXCEPT !.d[b].state = s] : b \in Blocks \ FormatArea, s \in {"none", "fatal"}}
     \cup {[v EXCEPT !.d[b].level = l] :
          b \in {b \in Blocks \ FormatArea : v.d[b].state = "node"}, l \in 1 .. InitHeight + 1}
     \cup {[v EXCEPT !.alloc = (@ \cup {b}) \ (@ \cap {b})] : b \in Blocks \ FormatArea}
     \cup {[v EXCEPT !.root = b] : b \in 0 .. NBlocks}
     \cup {[v EXCEPT !.height = h] : h \in 1 .. InitHeight + 1}
     \cup {[v EXCEPT !.free = @ + 1]}
     \cup UNION {{[v EXCEPT !.d[b].items[i].sound = FALSE]}
                 \cup {[v EXCEPT !.d[b].items[i].to = x] :
                        x \in IF v.d[b].items[i].kind = "sd" THEN {} ELSE 1 .. NBlocks}
                 \cup {[v EXCEPT !.d[b].items[i].key = k] :
                        k \in IF v.d[b].items[i].kind = "ext" THEN {}
                              ELSE DamagedKeys(v.d[b].items[i].kind)}
                 : <<b, i>> \in {<<b, i>> \in Blocks \X (1 .. MaxKey) : i \in DOMAIN v.d[b].items}}

Extents(items) == {i.to : i \in {i \in ToSet(items) : i.kind = "ext"}} \ {0}

(* Something on the device is not what was written there.                   *)
Damage ==
  /\ phase = "idle" /\ last = "none" /\ kills = 0 /\ damaged < MaxFaults
  /\ \E v \in Damages(dev) \ {dev} : dev' = v /\ t' = Loaded(v)
  /\ damaged' = damaged + 1
  /\ UNCHANGED <<todo, mode, phase, bm, stack, fd, errors, garbage, bug, kills, torn, before, last>>

(* The keys in nodes that can be repaired and are known to be in use, and   *)
(* that no extent claims as its data.                                       *)
Readable(v) ==
  LET claimed == UNION {Extents(v.d[c].items) : c \in Blocks}
  IN  {b \in v.alloc \ (FormatArea \cup claimed) :
         /\ v.d[b].state = "node" /\ repair_tree_data_level(v.d[b].level)
         /\ ~repair_node_check_struct(v.d[b], TRUE).fatal}

SavedKeys(v) ==
  {i.key : i \in {i \in UNION {ToSet(v.d[b].items) : b \in Readable(v)} :
                    i.sound /\ ~reiser4_item_branch(i)}}

(* fsck is started: repair_filter_prepare().                                *)
repair_filter_prepare(m) ==
  /\ phase = "idle"
  /\ CASE last = "none"  -> m \in (IF kills > 0 THEN {mode} ELSE Modes)
       [] last = "build" -> m = "check"
       [] OTHER          -> FALSE
  /\ mode' = m /\ phase' = "filter"
  /\ t' = Loaded(dev)
  /\ bm' = [NoMaps EXCEPT !.met = FormatArea]
  /\ stack' = <<>> /\ fd' = [level |-> 0, flags |-> {}]
  /\ errors' = [fatal |-> 0, fixable |-> 0]
  /\ before' = IF last = "none" /\ kills = 0 THEN SavedKeys(dev) ELSE before
  /\ UNCHANGED <<dev, todo, garbage, bug, damaged, kills, torn, last>>

(* One block of a synchronization.                                          *)
Write ==
  /\ todo # <<>>
  /\ dev' = After(dev, t, Head(todo)) /\ todo' = Tail(todo)
  /\ torn' = (torn /\ (phase = "nodes" \/ Tail(todo) # <<>>))
  /\ UNCHANGED <<t, mode, phase, bm, stack, fd, errors, garbage, bug, damaged, kills, before, last>>

(* fsck is killed, or started again after it gave up: what it has not       *)
(* written is lost.  Where new nodes were being written, so may be items    *)
(* that are not, or no longer, in a node that is known to be in use: what   *)
(* the next run has to save is what is left.                                *)
Kill ==
  /\ phase # "idle" /\ Build /\ damaged + kills < MaxFaults
  /\ kills' = kills + 1 /\ phase' = "idle"
  /\ t' = Loaded(dev) /\ todo' = <<>> /\ bm' = NoMaps /\ stack' = <<>>
  /\ before' = IF torn THEN before \cap SavedKeys(dev) ELSE before
  /\ torn' = FALSE
  /\ fd' = [level |-> 0, flags |-> {}] /\ garbage' = {} /\ errors' = [fatal |-> 0, fixable |-> 0]
  /\ UNCHANGED <<dev, mode, bug, damaged, last>>

-----------------------------------------------------------------------------
(* Filter: librepair/filter.c                                               *)

(* repair_filter_node_handle(): RM_MARK, RM_BAD, RM_CLEAR.                  *)
Marked(u, m, b, level) ==
  [t |-> [u EXCEPT !.used = @ \cup {b}],
   bm |-> [m EXCEPT !.met = @ \cup {b},
                    !.leaf = IF level = LEAF_LEVEL THEN @ \cup {b} ELSE @,
                    !.twig = IF level = TWIG_LEVEL THEN @ \cup {b} ELSE @]]

(* *Mutant* of Unmarked: a node that does not fit its place stays met.      *)
UnmarkedKeepsMet(u, m, b, clear) ==
  [t |-> [u EXCEPT !.used = @ \ {b}], bm |-> [m EXCEPT !.leaf = @ \ {b}, !.twig = @ \ {b}]]

(* *Mutant* of Unmarked: the maps of leaves and twigs are forgotten.        *)
UnmarkedKeepsLeaf(u, m, b, clear) ==
  [t |-> [u EXCEPT !.used = @ \ {b}], bm |-> [m EXCEPT !.met = IF clear THEN @ \ {b} ELSE @]]

Unmarked(u, m, b, clear) ==
  [t |-> [u EXCEPT !.used = @ \ {b}],
   bm |-> [m EXCEPT !.met = IF clear THEN @ \ {b} ELSE @, !.leaf = @ \ {b}, !.twig = @ \ {b}]]

(* repair_filter_node_open(): why a pointer cannot be followed.             *)
BadPointer(u, b) == b \notin Blocks \/ b \in u.used \/ u.d[b].state = "none"

(* repair_filter_node_check() of the node b under a path; expected is the   *)
(* level it should have, 0 for the root.  The flag is what the node is      *)
(* thrown away for, none if it stays.                                       *)
repair_filter_node_check(u, m, b, path, expected) ==
  LET level == u.d[b].level
      c     == repair_node_check_struct(u.d[b], Build)
      v     == IF Build THEN [u EXCEPT !.d[b] = c.node] ELSE u
      dk    == repair_tree_dknode_check(v.d, path, c.node.items)
      bad   == Unmarked(v, m, b, FALSE)
      clear == Unmarked(v, m, b, TRUE)
  IN  IF expected # 0 /\ expected # level
      THEN LET x == Unmarked(u, m, b, TRUE) IN [t |-> x.t, bm |-> x.bm, flag |-> "ptr"]
      ELSE IF c.node.items = <<>> THEN [t |-> Unmarked(u, m, b, FALSE).t, bm |-> bad.bm, flag |-> "empty"]
      ELSE IF c.fatal THEN [t |-> bad.t, bm |-> bad.bm, flag |-> "fatal"]
      ELSE IF dk = "fatal" \/ (dk = "fix" /\ ~Build)
      THEN [t |-> clear.t, bm |-> clear.bm, flag |-> "dkeys"]
      ELSE [t |-> IF dk = "fix" THEN [v EXCEPT !.d = reiser4_tree_update_keys(@, path, c.node.items[1].key)]
                  ELSE v,
            bm |-> m, flag |-> "none"]

Counted(n) == [errors EXCEPT !.fatal = @ + n]

(* repair_filter_traverse() up to the root's check.  A root that lies       *)
(* outside, in the format area, or cannot be read ends the pass.            *)
FilterRoot ==
  LET r == Marked(t, bm, t.root, t.d[t.root].level)
      c == repair_filter_node_check(r.t, r.bm, t.root, <<>>, 0)
  IN  /\ phase = "filter"
      /\ IF t.root \notin 1 .. NBlocks \/ t.root \in t.used \/ t.root = NBlocks
            \/ t.d[t.root].state = "none"
         THEN /\ fd' = [fd EXCEPT !.flags = {"ptr"}]
              /\ errors' = Counted(1) /\ phase' = "filtered"
              /\ UNCHANGED <<t, bm, stack>>
         ELSE /\ t' = c.t /\ bm' = c.bm
              /\ fd' = [level |-> t.d[t.root].level + (IF c.flag = "none" THEN 0 ELSE 1),
                        flags |-> {c.flag} \ {"none"}]
              /\ errors' = Counted(IF c.flag = "none" THEN 0 ELSE 1)
              /\ IF c.flag = "none"
                 THEN stack' = <<[blk |-> t.root, pos |-> 1]>> /\ phase' = "walk"
                 ELSE stack' = <<>> /\ phase' = "filtered"
      /\ UNCHANGED <<dev, todo, mode, garbage, bug, damaged, kills, torn, before, last>>

Top == Last(stack)
TopItems == t.d[Top.blk].items
(* The next item of the node that is a pointer; data is passed by.          *)
Here ==
  Min({i \in Top.pos .. Len(TopItems) : reiser4_item_branch(TopItems[i])} \cup {Len(TopItems) + 1})
At(pos) == [stack EXCEPT ![Len(stack)].pos = pos]

(* repair_filter_update_traverse() when the child is bad: a rebuild removes *)
(* the pointer, and the walk goes on with what comes to its place.          *)
repair_filter_update_traverse(u) ==
  LET cut == RemoveAt(u.d[Top.blk].items, Here)
      d   == [u.d EXCEPT ![Top.blk].items = cut]
  IN  IF ~Build THEN /\ t' = u /\ stack' = At(Here + 1)
      ELSE /\ t' = [u EXCEPT !.d = IF Here > 1 \/ cut = <<>> THEN d
                                   ELSE reiser4_tree_update_keys(d, Front(stack), cut[1].key)]
           /\ stack' = At(Here)

(* One pointer of the node the walk is in: the child is opened and checked, *)
(* and either entered or thrown away.                                       *)
FilterItem ==
  LET here == Here
      b == TopItems[here].to
      r == Marked(t, bm, b, t.d[b].level)
      c == repair_filter_node_check(r.t, r.bm, b, At(here), fd.level - 1)
  IN  /\ phase = "walk" /\ here <= Len(TopItems)
      /\ IF BadPointer(t, b)
         THEN /\ repair_filter_update_traverse(t)
              /\ errors' = Counted(IF Build THEN 0 ELSE 1)
              /\ UNCHANGED <<bm, fd, dev>>
         ELSE IF c.flag # "none"
         THEN /\ repair_filter_update_traverse(c.t) /\ bm' = c.bm
              /\ errors' = Counted(IF Build THEN 0 ELSE 1)
              /\ reiser4_node_fini(b, c.t)
              /\ UNCHANGED fd
         ELSE /\ t' = c.t /\ bm' = c.bm
              /\ stack' = Append(At(Here), [blk |-> b, pos |-> 1])
              /\ fd' = [fd EXCEPT !.level = @ - 1]
              /\ UNCHANGED <<errors, dev>>
      /\ UNCHANGED <<todo, mode, phase, garbage, bug, damaged, kills, torn, before, last>>

(* The node has been walked through: repair_filter_after_traverse(), then   *)
(* the pointer to it is updated.  A node that lost all its items has by     *)
(* then been detached by reiser4_tree_unlock_node(), so that updating       *)
(* removes a second pointer: bug.  An emptied root is only released.        *)
FilterAfter ==
  LET b  == Top.blk
      up == Front(stack)
      r  == reiser4_tree_release_node(Unmarked(t, bm, b, FALSE).t, {b})
  IN  /\ phase = "walk" /\ Here > Len(TopItems)
      /\ IF TopItems # <<>>
         THEN /\ stack' = IF up = <<>> THEN <<>> ELSE [up EXCEPT ![Len(up)].pos = @ + 1]
              /\ phase' = IF up = <<>> THEN "filtered" ELSE "walk"
              /\ IF up = <<>> THEN UNCHANGED dev ELSE reiser4_node_fini(b, t)
              /\ UNCHANGED <<t, bm, errors, bug>>
              /\ fd' = [fd EXCEPT !.level = @ + 1]
         ELSE /\ stack' = <<>> /\ phase' = "filtered" /\ bug' = (up # <<>>)
              /\ t' = [r EXCEPT !.root = INVAL_BLK]
              /\ bm' = Unmarked(t, bm, b, FALSE).bm
              /\ errors' = Counted(1)
              /\ fd' = [level |-> fd.level + 1, flags |-> {"empty"}]
              /\ UNCHANGED dev
      /\ UNCHANGED <<todo, mode, garbage, damaged, kills, torn, before, last>>

(* repair_filter_update(): a root that is thrown away is closed like every  *)
(* other node, unless it is empty; the root pointer and the height in the   *)
(* format.                                                                  *)
repair_filter_update ==
  LET bad    == fd.flags # {}
      closed == IF "fatal" \in fd.flags THEN <<NodeWrite(t.root)>> ELSE <<>>
      u == [t EXCEPT !.root = IF bad /\ Build THEN INVAL_BLK ELSE @,
                     !.height = IF fd.level > 0 /\ ~Check THEN fd.level - 1 ELSE @]
  IN  /\ phase = "filtered" /\ ~bug
      /\ errors' = [fatal |-> errors.fatal - (IF bad /\ Build THEN 1 ELSE 0),
                    fixable |-> errors.fixable +
                      (IF fd.level > 0 /\ t.height # fd.level - 1 /\ Check THEN 1 ELSE 0)]
      /\ SyncAfter(closed, u)
      /\ phase' = "twigs" /\ bm' = [bm EXCEPT !.scan = bm.twig, !.met = IF Build THEN @ ELSE u.used]
      /\ UNCHANGED <<dev, mode, stack, fd, garbage, bug, damaged, kills, torn, before, last>>

-----------------------------------------------------------------------------
(* Twig scan: librepair/twig_scan.c                                         *)

(* extent40_check_layout() with cb_item_region_check() for the extents of a *)
(* twig, in order: blocks met already, or outside, become a hole.           *)
(* *Mutant* of repair_item_check_layout: only the range is checked.         *)
CheckLayoutRange(items, met) ==
  LET inside == {i.to : i \in {i \in ToSet(items) : i.kind = "ext"}} \cap (Blocks \ {0})
  IN  [items |-> items, met |-> met \cup inside, ok |-> inside]

repair_item_check_layout(items, met) ==
  LET s[n \in 0 .. Len(items)] ==
        IF n = 0 THEN [items |-> items, met |-> met, ok |-> {}]
        ELSE LET r  == s[n - 1]
                 to == items[n].to
             IN  IF items[n].kind # "ext" \/ to = 0 THEN r
                 ELSE IF to \notin Blocks \/ to \in r.met
                 THEN IF Check THEN r ELSE [r EXCEPT !.items[n].to = 0]
                 ELSE [r EXCEPT !.met = @ \cup {to}, !.ok = @ \cup {to}]
  IN  s[Len(items)]

(* What is wrong in check mode is reported, but repair_item_check_layout()  *)
(* drops the result, so it is not counted.                                  *)
(* *Mutant* of TwigScan: what extents point to is marked in a rebuild only. *)
TwigScanBuildMarks ==
  LET b == Min(bm.scan)
      r == repair_item_check_layout(t.d[b].items, bm.met)
      u == [t EXCEPT !.d[b].items = r.items,
                     !.used = IF phase = "twigs" /\ Build THEN @ \cup r.ok ELSE @]
  IN  /\ phase \in {"twigs", "twigs2"} /\ bm.scan # {}
      /\ t' = u /\ bm' = [bm EXCEPT !.met = r.met, !.scan = @ \ {b}]
      /\ reiser4_node_fini(b, u)
      /\ UNCHANGED <<todo, mode, phase, stack, fd, errors, garbage, bug, damaged, kills, torn, before, last>>

TwigScan ==
  LET b == Min(bm.scan)
      r == repair_item_check_layout(t.d[b].items, bm.met)
      u == [t EXCEPT !.d[b].items = r.items,
                     !.used = IF phase = "twigs" \/ ~Build THEN @ \cup r.ok ELSE @]
  IN  /\ phase \in {"twigs", "twigs2"} /\ bm.scan # {}
      /\ t' = u /\ bm' = [bm EXCEPT !.met = r.met, !.scan = @ \ {b}]
      /\ reiser4_node_fini(b, u)
      /\ UNCHANGED <<todo, mode, phase, stack, fd, errors, garbage, bug, damaged, kills, torn, before, last>>

(* repair_ds_prepare(): scan what is allocated and was not met, and the     *)
(* whole region of a bitmap block that does not know a block that was met.  *)
repair_ds_prepare ==
  LET all == t.alloc \cup UNION {Region(b \div RegionLen) : b \in bm.met \ t.alloc}
  IN  /\ phase = "twigs" /\ bm.scan = {} /\ Build
      /\ bm' = [bm EXCEPT !.scan = all \ bm.met, !.leaf = {}, !.twig = {}]
      /\ bug' = ~ (t.used \cup bm.twig \cup bm.leaf \subseteq bm.met)
      /\ phase' = "disk"
      /\ reiser4_fs_sync(t)
      /\ UNCHANGED <<dev, mode, stack, fd, errors, garbage, damaged, kills, torn, before, last>>

(* repair_disk_scan() of the next block that can be opened.                 *)
DiskScan ==
  LET open == {x \in bm.scan : t.d[x].state # "none"}
      b    == Min(open)
      c    == repair_node_check_struct(t.d[b], TRUE)
      data == repair_tree_data_level(t.d[b].level)
      good == data /\ ~c.fatal /\ c.node.items # <<>>
      u    == IF data THEN [t EXCEPT !.d[b] = c.node] ELSE t
  IN  /\ phase = "disk"
      /\ IF open = {}
         THEN /\ phase' = "twigs2" /\ bm' = [bm EXCEPT !.scan = bm.twig]
              /\ UNCHANGED <<t, dev>>
         ELSE /\ bm' = [bm EXCEPT !.met = @ \cup {b}, !.scan = @ \ {b},
                          !.twig = IF good /\ c.node.level = TWIG_LEVEL THEN @ \cup {b} ELSE @,
                          !.leaf = IF good /\ c.node.level = LEAF_LEVEL THEN @ \cup {b} ELSE @]
              /\ t' = u /\ reiser4_node_fini(b, u)
              /\ UNCHANGED phase
      /\ UNCHANGED <<todo, mode, stack, fd, errors, garbage, bug, damaged, kills, torn, before, last>>

-----------------------------------------------------------------------------
(* Add missing: librepair/add_missing.c                                     *)

(* The map of what was met becomes the allocator's, so that nothing that    *)
(* may be data is allocated.  (When the scan of twigs ends before, it syncs *)
(* and finds nothing to write.)                                             *)
repair_am_prepare ==
  LET found == bm.met # FormatArea
  IN  /\ phase = "twigs2" /\ bm.scan = {}
      /\ t' = [t EXCEPT !.alloc = IF found THEN bm.met ELSE @,
                        !.free = IF found THEN NBlocks - Cardinality(bm.met) ELSE @]
      /\ bm' = [bm EXCEPT !.twig = @ \ t.used, !.leaf = @ \ t.used, !.scan = @ \cup (bm.twig \ t.used)]
      /\ phase' = "nodes"
      /\ UNCHANGED <<dev, todo, mode, stack, fd, errors, garbage, bug, damaged, kills, torn, before, last>>

(* Twigs come first, then leaves; each whole if it can be, what is left     *)
(* item by item.  bm.scan are those of the pass still to be tried.          *)
(* From here on blocks may be written that the map on the device does not   *)
(* have.                                                                    *)
Flushing == torn' = (torn \/ (phase = "nodes" /\ todo' # <<>>))

(* An error ends fsck, but what the tree has become by then is saved.       *)
GiveUp(u) == phase' = "failed" /\ reiser4_fs_sync(u) /\ Flushing /\ UNCHANGED <<dev, bm>>

(* repair_am_nodes_insert(), one node.                                      *)
AddNode ==
  LET b     == Min(bm.scan)
      data  == SelectSeq(t.d[b].items, LAMBDA i : ~reiser4_item_branch(i))
      u     == [t EXCEPT !.d[b].items = data]
      a     == repair_tree_attach_node(u, b)
      whole == Fresh(u) \/ Attachable(u, b)
      drop(m) == [m EXCEPT !.scan = @ \ {b}, !.twig = @ \ {b}, !.leaf = @ \ {b}]
  IN  /\ phase = "nodes" /\ bm.scan # {}
      /\ IF data = <<>>
         THEN t' = Released(t, {b}) /\ bm' = drop(bm) /\ UNCHANGED <<phase, dev, todo, torn>>
         ELSE IF ~whole
         THEN /\ t' = u /\ bm' = [bm EXCEPT !.scan = @ \ {b}] /\ reiser4_node_fini(b, u)
              /\ UNCHANGED <<phase, todo, torn>>
         ELSE IF a.err THEN GiveUp(a)
         ELSE /\ t' = [a EXCEPT !.used = @ \cup {b} \cup Extents(data)]
              /\ bm' = drop(bm) /\ UNCHANGED <<phase, dev, todo, torn>>
      /\ UNCHANGED <<mode, stack, fd, errors, garbage, bug, damaged, kills, before, last>>

(* repair_am_items_insert(), one node: its items, then its block is free.   *)
AddItems ==
  LET b == Min(IF bm.twig # {} THEN bm.twig ELSE bm.leaf)
      s == FoldLeft(LAMBDA u, i : IF u.err THEN u ELSE repair_tree_insert(u, i), t, t.d[b].items)
  IN  /\ phase = "nodes" /\ bm.scan = {} /\ bm.twig \cup bm.leaf # {}
      /\ bm.twig # {} \/ fd.flags = {"leaves"}
      /\ bug' = (b \in t.used)
      /\ IF s.err THEN GiveUp(s)
         ELSE /\ t' = Released(s, {b})
              /\ bm' = [bm EXCEPT !.twig = @ \ {b}, !.leaf = @ \ {b}]
              /\ UNCHANGED <<phase, dev, todo, torn>>
      /\ UNCHANGED <<mode, stack, fd, errors, garbage, damaged, kills, before, last>>

(* reiser4_tree_mpressure(): when memory is short the tree is flushed while *)
(* it is changed, but neither the map nor the format.                       *)
Pressure ==
  LET f == Adjusted(t)
  IN  /\ phase \in {"nodes", "cleanup"}
      /\ Flush(f, NodeWrites(f)) /\ Flushing
      /\ todo' # <<>>
      /\ UNCHANGED <<dev, mode, phase, bm, stack, fd, errors, garbage, bug, damaged, kills, before, last>>

(* From the twigs to the leaves.                                            *)
AddLeaves ==
  /\ phase = "nodes" /\ bm.scan = {} /\ bm.twig = {} /\ fd.flags # {"leaves"}
  /\ fd' = [fd EXCEPT !.flags = {"leaves"}] /\ bm' = [bm EXCEPT !.scan = bm.leaf]
  /\ UNCHANGED <<t, dev, todo, mode, phase, stack, errors, garbage, bug, damaged, kills, torn, before, last>>

AddDone ==
  /\ phase = "nodes" /\ bm.scan \cup bm.twig \cup bm.leaf = {} /\ fd.flags = {"leaves"}
  /\ phase' = "added" /\ reiser4_fs_sync(t) /\ Flushing
  /\ UNCHANGED <<dev, mode, bm, stack, fd, errors, garbage, bug, damaged, kills, before, last>>

-----------------------------------------------------------------------------
(* Semantic, cleanup, update                                                *)

(* repair_bitmap_compare(): full bytes are compared bit by bit; the loop    *)
(* over the last, partial one starts at the number of bytes, not of bits.   *)
repair_bitmap_compare(a, b) ==
  LET bytes == NBlocks \div ByteBits
      size  == (NBlocks + ByteBits - 1) \div ByteBits
      bits  == NBlocks % ByteBits
      seen  == 0 .. bytes * ByteBits - 1 \cup size .. size + bits - 1
  IN  \E x \in seen : (x \in a) # (x \in b)

(* repair_sem_prepare(), repair_semantic(), repair_sem_fini() of a rebuild: *)
(* the map of used blocks becomes the allocator's.  A tree without anything *)
(* in it ends the pass with a fatal error.                                  *)
SemanticBuild ==
  LET u == IF t.used = FormatArea THEN t
           ELSE [t EXCEPT !.alloc = t.used, !.free = NBlocks - Cardinality(t.used)]
  IN  /\ phase = "added" /\ errors.fatal = 0
      /\ reiser4_fs_sync(u)
      /\ IF Fresh(t)
         THEN errors' = Counted(1) /\ garbage' = {} /\ phase' = "update"
         ELSE /\ \E g \in SUBSET TreeItems(t) : Cardinality(g) + damaged + kills <= MaxFaults /\ garbage' = g
              /\ phase' = "cleanup" /\ UNCHANGED errors
      /\ UNCHANGED <<dev, mode, bm, stack, fd, bug, damaged, kills, torn, before, last>>

(* The same of the other modes: the allocator may only gain, and is         *)
(* compared with what is used.                                              *)
SemanticCheck ==
  /\ phase = "twigs" /\ bm.scan = {} /\ ~Build
  /\ IF errors.fatal > 0 THEN UNCHANGED <<t, todo, errors>>
     ELSE /\ reiser4_fs_sync(IF Check THEN t ELSE [t EXCEPT !.alloc = @ \cup t.used])
          /\ errors' = Counted(IF repair_bitmap_compare(t.alloc, t.used) THEN 1 ELSE 0)
  /\ phase' = "update"
  /\ UNCHANGED <<dev, mode, bm, stack, fd, garbage, bug, damaged, kills, torn, before, last>>

(* cb_node_cleanup(): an item nobody checked is removed and its blocks are  *)
(* released, which asserts that they are occupied.                          *)
CleanupItem ==
  LET i == CHOOSE i \in garbage : \A j \in garbage : i.key <= j.key
  IN  /\ phase = "cleanup" /\ garbage # {}
      /\ bug' = (i.kind = "ext" /\ i.to # 0 /\ i.to \notin t.alloc)
      /\ t' = reiser4_tree_remove(t, i) /\ garbage' = garbage \ {i}
      /\ before' = before \ {i.key}
      /\ UNCHANGED <<dev, todo, mode, phase, bm, stack, fd, errors, damaged, kills, torn, last>>

CleanupDone ==
  /\ phase = "cleanup" /\ garbage = {}
  /\ phase' = "update" /\ reiser4_fs_sync(t)
  /\ UNCHANGED <<dev, mode, bm, stack, fd, errors, garbage, bug, damaged, kills, torn, before, last>>

(* repair_update(): the free block counter; closing the file system writes  *)
(* it.                                                                      *)
repair_update ==
  LET correct == NBlocks - Cardinality(IF Build THEN t.alloc ELSE t.used)
      u == IF errors.fatal = 0 /\ ~Check THEN [t EXCEPT !.free = correct] ELSE t
  IN  /\ phase = "update"
      /\ reiser4_fs_sync(u)
      /\ errors' = [errors EXCEPT !.fixable =
                      @ + (IF errors.fatal = 0 /\ Check /\ t.free # correct THEN 1 ELSE 0)]
      /\ phase' = "closing"
      /\ UNCHANGED <<dev, mode, bm, stack, fd, garbage, bug, damaged, kills, torn, before, last>>

Closed ==
  /\ phase = "closing"
  /\ phase' = "idle" /\ bm' = NoMaps /\ fd' = [level |-> 0, flags |-> {}]
  /\ t' = Loaded(dev)
  /\ last' = IF last = "build" THEN "recheck" ELSE mode
  /\ UNCHANGED <<dev, todo, mode, stack, errors, garbage, bug, damaged, kills, torn, before>>

(* Nothing goes on while something is still to be written.                  *)
Pass ==
  \/ \E m \in {"check", "fix", "build"} : repair_filter_prepare(m)
  \/ FilterRoot \/ FilterItem \/ FilterAfter \/ repair_filter_update
  \/ TwigScan \/ repair_ds_prepare \/ DiskScan
  \/ repair_am_prepare \/ AddNode \/ AddItems \/ Pressure \/ AddLeaves \/ AddDone
  \/ SemanticBuild \/ SemanticCheck \/ CleanupItem \/ CleanupDone \/ repair_update \/ Closed

Next == Damage \/ Kill \/ Write \/ (todo = <<>> /\ Pass)

Spec == Init /\ [][Next]_vars

-----------------------------------------------------------------------------
(* Properties *)

(* A file system nothing is wrong with.                                     *)
ItemsOf(v, nodes, kind) ==
  UNION {{<<b, i>> : i \in {i \in DOMAIN v.d[b].items : v.d[b].items[i].kind = kind}} : b \in nodes}

Sound(v) ==
  LET nodes == TreeNodes(v)
      To(e) == v.d[e[1]].items[e[2]].to
      exts  == {e \in ItemsOf(v, nodes, "ext") : To(e) # 0}
      Links == ItemsOf(v, nodes, "ptr")
      data  == {To(e) : e \in exts}
  IN  /\ v.root \in nodes /\ v.d[v.root].level = v.height
      /\ \A b \in nodes :
           /\ v.d[b].state = "node" /\ v.d[b].items # <<>> /\ repair_node_check_level(v.d[b])
           /\ Ordered(v.d[b].items) /\ \A i \in DOMAIN v.d[b].items : v.d[b].items[i].sound
      /\ \A e \in Links :
           LET c == v.d[To(e)]
               n == v.d[e[1]]
           IN  /\ To(e) \in Blocks /\ c.level = n.level - 1
               /\ c.items[1].key = n.items[e[2]].key
               /\ e[2] < Len(n.items) => Last(c.items).key <= n.items[e[2] + 1].key
      /\ \A e, f \in Links \cup exts : e # f => To(e) # To(f)
      /\ (nodes \cup data) \cap FormatArea = {}
      /\ v.alloc = FormatArea \cup nodes \cup data
      /\ v.free = NBlocks - Cardinality(v.alloc)

(* After a rebuild that found anything, also after any number that were cut *)
(* off between two blocks they wrote, the device holds a sound file system: *)
(* every node is pointed to once, by keys in order, no two extents share a  *)
(* block, and the allocator and its counter know exactly these blocks.      *)
RebuiltIsSound ==
  phase = "idle" /\ last = "build" /\ errors.fatal = 0 => Sound(dev)

(* Whatever the damage, and wherever fsck was killed on the way, when the   *)
(* passes before the semantic one are through, every item of a leaf or twig *)
(* that could be read and was in use is in the tree.  The exception: a kill *)
(* while add missing writes its nodes loses what is then in none that is    *)
(* known to be in use; what is left has to be saved (Kill).                 *)
NothingLost ==
  phase = "added" /\ errors.fatal = 0 => before \subseteq {i.key : i \in TreeItems(t)}

(* Checking what has been rebuilt finds nothing.                            *)
RecheckIsClean ==
  last = "recheck" => (errors.fatal = 0 /\ errors.fixable = 0) \/ Fresh(dev)

(* The assertions of the passes hold: what is used, and the twigs and the   *)
(* leaves are met (vpf-817, 1326, 1329), what is inserted item by item is   *)
(* not in the tree (vpf-897), what cleanup releases is occupied (vpf-1418). *)
(* Nor does a pass remove a pointer it has not looked at.                   *)
AssertsHold == ~bug
=============================================================================
