----------------------------- MODULE RepairTree -----------------------------
(***************************************************************************)
(* What fsck's passes do to nodes and to the tree they rebuild: the checks *)
(* of librepair/node.c and librepair/tree.c, attaching a node, inserting   *)
(* and removing an item.  A node takes any number of items, so balancing,  *)
(* which Tree models, splits a node only where the code has to.            *)
(***************************************************************************)
EXTENDS Integers, SequencesExt

CONSTANTS NBlocks,  \* blocks of the file system; block 0 is the format area
          MaxKey    \* keys are 1 .. MaxKey; one above stands for the maximal key

ASSUME RepairTreeConstants == NBlocks \in Nat \ {0} /\ MaxKey \in Nat

Blocks == 0 .. NBlocks - 1
FormatArea == {0}
INVAL_BLK == NBlocks + 1
LEAF_LEVEL == 1
TWIG_LEVEL == 2

(* An item: a nodeptr, an extent of one unit (to = 0 is a hole), or an      *)
(* unsplittable leaf item.  sound says whether its plugin's check passes.   *)
Item(kind, key, to) == [kind |-> kind, key |-> key, to |-> to, sound |-> TRUE]

(* A block: state "none" cannot be opened as a node, "fatal" can but its    *)
(* structure is beyond repair.                                              *)
Node(level, items) == [state |-> "node", level |-> level, items |-> items]
NoNode == [state |-> "none", level |-> 0, items |-> <<>>]

reiser4_item_branch(item) == item.kind = "ptr"

repair_tree_legal_level(item, level) ==
  CASE item.kind = "ptr" -> level # LEAF_LEVEL
    [] item.kind = "ext" -> level = TWIG_LEVEL
    [] OTHER             -> level = LEAF_LEVEL

repair_tree_data_level(level) == level \in {LEAF_LEVEL, TWIG_LEVEL}

Ordered(items) == \A i \in 1 .. Len(items) - 1 : items[i].key <= items[i + 1].key

(* Broken items are removed when fsck rebuilds and are fatal otherwise;     *)
(* keys out of order cannot be repaired.                                    *)
repair_node_items_check(node, build) ==
  LET left == IF build THEN SelectSeq(node.items, LAMBDA i : i.sound) ELSE node.items
  IN  [items |-> left,
       fatal |-> ~Ordered(left) \/ \E i \in DOMAIN left : ~left[i].sound]

repair_node_check_level(node) ==
  node.level > 0 /\ \A i \in DOMAIN node.items : repair_tree_legal_level(node.items[i], node.level)

(* Both checks as every pass makes them: the node afterwards, and whether   *)
(* it is lost.                                                              *)
repair_node_check_struct(node, build) ==
  LET r     == repair_node_items_check(node, build)
      fixed == [node EXCEPT !.items = r.items]
  IN  IF node.state = "fatal" THEN [node |-> node, fatal |-> TRUE]
      ELSE [node |-> fixed, fatal |-> r.fatal \/ ~repair_node_check_level(fixed)]

-----------------------------------------------------------------------------
(* A path leads from the root to a place: a sequence of [blk, pos].         *)

(* The key of the pointer at the end of a path, and of all those above that *)
(* begin their node.                                                        *)
reiser4_tree_update_keys(d, path, key) ==
  LET touched == {j \in DOMAIN path : \A i \in j + 1 .. Len(path) : path[i].pos = 1}
  IN  [b \in DOMAIN d |->
        IF \E j \in touched : path[j].blk = b
        THEN LET j == CHOOSE j \in touched : path[j].blk = b
             IN  [d[b] EXCEPT !.items[path[j].pos].key = key]
        ELSE d[b]]

(* The key behind the end of the node a path leads to.                      *)
RightKey(d, path) ==
  LET open == {j \in DOMAIN path : path[j].pos < Len(d[path[j].blk].items)}
      j    == CHOOSE j \in open : \A i \in open : i <= j
  IN  IF open = {} THEN MaxKey + 1 ELSE d[path[j].blk].items[path[j].pos + 1].key

LeftKey(d, path) ==
  IF path = <<>> THEN 0 ELSE d[Last(path).blk].items[Last(path).pos].key

(* repair_tree_dknode_check(): the node's keys against what its parents say.*)
(* "fix" is a left key that is too small, which only a rebuild corrects.    *)
repair_tree_dknode_check(d, path, items) ==
  CASE Last(items).key > RightKey(d, path)                     -> "fatal"
    [] LeftKey(d, path) > items[1].key                         -> "fatal"
    [] LeftKey(d, path) < items[1].key /\ path # <<>>          -> "fix"
    [] OTHER                                                   -> "ok"

-----------------------------------------------------------------------------
(* The tree under construction: [d, root, height, alloc, used, free, err].  *)
(* used is bm_used, which the allocator's hooks keep.  d has the blocks of  *)
(* the device and the new nodes, under fake numbers behind INVAL_BLK.       *)

Fresh(t) == t.root = INVAL_BLK

Below(items, key) == Cardinality({i \in DOMAIN items : items[i].key <= key})

(* The block at a level on the way to a key, or none when the way ends at   *)
(* an extent above.                                                         *)
NodeAt(t, key, level) ==
  LET at[l \in level .. t.height] ==
        IF l = t.height THEN t.root
        ELSE LET up == at[l + 1]
                 n  == t.d[up].items
                 i  == Max({1, Below(n, key)})
             IN  IF up = INVAL_BLK \/ n = <<>> THEN INVAL_BLK
                 ELSE IF reiser4_item_branch(n[i]) THEN n[i].to ELSE INVAL_BLK
  IN  at[level]

Path(t, key, level) ==
  [i \in 1 .. t.height - level |->
    LET b == NodeAt(t, key, t.height + 1 - i)
    IN  [blk |-> b, pos |-> Max({1, Below(t.d[b].items, key)})]]

(* Everything the tree is made of.                                          *)
TreeNodes(t) ==
  LET Below1(bs) == {t.d[b].items[i].to : <<b, i>> \in
                      {<<b, i>> \in bs \X (1 .. MaxKey + 1) :
                         i \in DOMAIN t.d[b].items /\ reiser4_item_branch(t.d[b].items[i])}}
      Under[n \in 0 .. t.height] ==
        IF n = 0 THEN {t.root} ELSE Under[n - 1] \cup (Below1(Under[n - 1]) \cap DOMAIN t.d)
  IN  IF Fresh(t) THEN {} ELSE Under[t.height]

TreeItems(t) ==
  UNION {{i \in ToSet(t.d[b].items) : ~reiser4_item_branch(i)} : b \in TreeNodes(t)}

(* reiser4_alloc_release() and the hook cb_release().                       *)
Released(t, bs) == [t EXCEPT !.alloc = @ \ bs, !.used = @ \ bs]

reiser4_tree_release_node(t, bs) ==
  [Released(t, bs) EXCEPT !.free = @ + Cardinality(bs)]

(* The next fake number.                                                    *)
reiser4_fake_get(t) == INVAL_BLK + 1 + Cardinality(DOMAIN t.d \ Blocks)

(* reiser4_tree_alloc_node(): a new node has a fake number, and the format  *)
(* counts a block less.                                                     *)
AllocNode(t, node) ==
  IF t.free = 0 THEN [t EXCEPT !.err = TRUE]
  ELSE [t EXCEPT !.d = @ @@ (reiser4_fake_get(t) :> node), !.free = @ - 1]

(* cb_node_adjust(): when the tree is flushed a fake node gets the first    *)
(* free block, which the hook cb_alloc() marks as used, and the pointer to  *)
(* it is changed.  Each was counted, so there is one.                       *)
cb_node_adjust(t, fake) ==
  LET b == Min(Blocks \ t.alloc)
      Linked(items) == [i \in DOMAIN items |->
                          IF items[i].to = fake THEN [items[i] EXCEPT !.to = b] ELSE items[i]]
  IN  [t EXCEPT !.alloc = @ \cup {b}, !.used = @ \cup {b},
                !.root = IF @ = fake THEN b ELSE @,
                !.d = [x \in DOMAIN @ \ {fake} |->
                        LET n == IF x = b THEN @[fake] ELSE @[x]
                        IN  [n EXCEPT !.items = Linked(@)]]]

(* reiser4_tree_walk_node(): the nodes of the tree, each before what is     *)
(* below it or behind.                                                      *)
reiser4_tree_walk_node(t, before) ==
  LET w[x \in Nat \X DOMAIN t.d] ==
        LET below == FoldLeft(LAMBDA done, i :
                       IF x[1] > 0 /\ reiser4_item_branch(i) /\ i.to \in DOMAIN t.d
                       THEN done \o w[<<x[1] - 1, i.to>>] ELSE done,
                       <<>>, t.d[x[2]].items)
        IN  IF before THEN <<x[2]>> \o below ELSE below \o <<x[2]>>
  IN  IF t.root \in DOMAIN t.d THEN w[<<t.height, t.root>>] ELSE <<>>

(* Every fake node gets its block, parents first.                           *)
Adjusted(t) ==
  FoldLeft(cb_node_adjust, t,
           SelectSeq(reiser4_tree_walk_node(t, TRUE), LAMBDA b : b \notin Blocks))

InsertInto(t, level, item) ==
  LET b == NodeAt(t, item.key, level)
      n == Below(t.d[b].items, item.key)
      u == [t EXCEPT !.d[b].items = InsertAt(@, n + 1, item)]
  IN  IF n > 0 THEN u
      ELSE [u EXCEPT !.d = reiser4_tree_update_keys(@, Path(t, item.key, level), item.key)]

reiser4_tree_growup(t) ==
  LET up == Node(t.height + 1, <<Item("ptr", t.d[t.root].items[1].key, t.root)>>)
      u  == AllocNode(t, up)
  IN  IF u.err THEN u ELSE [u EXCEPT !.root = reiser4_fake_get(t), !.height = @ + 1]

GrowTo(t, height) ==
  LET g[h \in t.height .. height] == IF h = t.height THEN t ELSE reiser4_tree_growup(g[h - 1])
  IN  IF t.height >= height THEN t ELSE g[height]

(* reiser4_tree_split(): cuts the nodes of one level on the way to a key so *)
(* that something can be put between the parts.                             *)
reiser4_tree_split(t, level, key) ==
  LET b == NodeAt(t, key, level)
      n == Below(t.d[b].items, key)
      right == SubSeq(t.d[b].items, n + 1, Len(t.d[b].items))
      u == AllocNode([t EXCEPT !.d[b].items = SubSeq(@, 1, n)], Node(level, right))
  IN  IF t.err \/ b = INVAL_BLK THEN t
      ELSE IF n = 0 \/ right = <<>> THEN t
      ELSE IF u.err THEN [t EXCEPT !.err = TRUE]
      ELSE InsertInto(u, level + 1, Item("ptr", right[1].key, reiser4_fake_get(t)))

reiser4_tree_attach_node(t, b) ==
  LET level == t.d[b].level
      key   == t.d[b].items[1].key
      s[l \in 0 .. level] == IF l = 0 THEN GrowTo(t, level + 1)
                             ELSE reiser4_tree_split(s[l - 1], l, key)
  IN  IF s[level].err THEN s[level]
      ELSE InsertInto(s[level], level + 1, Item("ptr", key, b))

(* Can a node be attached whole: its first key is new, and it ends before   *)
(* the next key of the tree.                                                *)
Attachable(t, b) ==
  LET keys == {i.key : i \in TreeItems(t)}
      key  == t.d[b].items[1].key
  IN  /\ key \notin keys
      /\ \A k \in keys : k > key => Last(t.d[b].items).key < k

repair_tree_attach_node(t, b) ==
  IF Fresh(t) THEN [t EXCEPT !.root = b, !.height = t.d[b].level]
  ELSE reiser4_tree_attach_node(t, b)

(* repair_tree_insert(): an item the tree has stays, only a hole takes the  *)
(* blocks of an extent; the region callback marks what comes in as used.    *)
repair_tree_insert(t, item) ==
  LET blk  == IF item.kind = "ext" /\ item.to # 0 THEN {item.to} ELSE {}
      twig == NodeAt(t, item.key, TWIG_LEVEL)
      leaf == NodeAt(t, item.key, LEAF_LEVEL)
      tall == GrowTo(t, TWIG_LEVEL)
      cut  == reiser4_tree_split(tall, LEAF_LEVEL, item.key)
      new  == AllocNode(t, Node(LEAF_LEVEL, <<item>>))
  IN  IF \E i \in TreeItems(t) : i.key = item.key
      THEN IF item.kind = "ext" /\ blk # {} /\ Item("ext", item.key, 0) \in TreeItems(t)
           THEN [t EXCEPT !.used = @ \cup blk,
                          !.d[twig].items = [i \in DOMAIN @ |->
                            IF @[i] = Item("ext", item.key, 0) THEN item ELSE @[i]]]
           ELSE t
      ELSE IF item.kind = "ext"
      THEN IF cut.err THEN cut
           ELSE InsertInto([cut EXCEPT !.used = @ \cup blk], TWIG_LEVEL, item)
      ELSE IF leaf # INVAL_BLK THEN InsertInto(t, LEAF_LEVEL, item)
      ELSE IF new.err THEN new
      ELSE InsertInto(new, TWIG_LEVEL, Item("ptr", item.key, reiser4_fake_get(t)))

(* reiser4_tree_dryout(): a root with one child gives way to it.            *)
reiser4_tree_dryout(t) ==
  LET Singular(u) == ~Fresh(u) /\ u.height > 2 /\ Len(u.d[u.root].items) = 1
      r[n \in 0 .. t.height] ==
        IF n = 0 THEN t
        ELSE IF Singular(r[n - 1])
             THEN LET u == r[n - 1]
                  IN  [reiser4_tree_release_node(u, {u.root}) EXCEPT !.root = u.d[u.root].items[1].to,
                                                    !.height = @ - 1]
             ELSE r[n - 1]
  IN  r[t.height]

(* reiser4_tree_remove() of a data item: its blocks are released, nodes     *)
(* that become empty are discarded with their pointers.                     *)
reiser4_tree_remove(t, item) ==
  LET level == IF item.kind = "ext" THEN TWIG_LEVEL ELSE LEAF_LEVEL
      b     == NodeAt(t, item.key, level)
      path  == Append(Path(t, item.key, level),
                      [blk |-> b, pos |-> CHOOSE i \in DOMAIN t.d[b].items : t.d[b].items[i] = item])
      stays == {j \in DOMAIN path : Len(t.d[path[j].blk].items) > 1}
      j     == Max(stays)
      cut   == [t.d EXCEPT ![path[j].blk].items = RemoveAt(@, path[j].pos)]
      gone  == {path[i].blk : i \in {i \in DOMAIN path : \A k \in stays : i > k}}
      freed == Released(reiser4_tree_release_node(t, gone),
                        IF item.kind = "ext" /\ item.to # 0 THEN {item.to} ELSE {})
  IN  IF stays = {} THEN [freed EXCEPT !.root = INVAL_BLK]
      ELSE reiser4_tree_dryout([freed EXCEPT !.d =
             IF path[j].pos > 1 THEN cut
             ELSE reiser4_tree_update_keys(cut, SubSeq(path, 1, j - 1),
                                           cut[path[j].blk].items[1].key)])
=============================================================================
