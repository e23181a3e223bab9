----------------------------- MODULE TreeCache ------------------------------
(***************************************************************************)
(* The balanced tree of libreiser4/tree.c: its nodes, the cache of loaded  *)
(* nodes with their parent places, sibling pointers and lock counters,     *)
(* loading, unloading under memory pressure, neighbours and lookup.        *)
(*                                                                         *)
(* A tree is a value                                                       *)
(*   [root, height    |-> what the format super block records,             *)
(*    nodes, level    |-> contents of every node: [items, free], level,    *)
(*    mem             |-> the node objects in memory,                      *)
(*    troot           |-> tree->root, the loaded root,                     *)
(*    free            |-> free blocks the format super block records,      *)
(*    pressure        |-> what tree->mpc_func() answers,                   *)
(*    bug             |-> an assertion of the code failed, or a node was   *)
(*                        used that is not in memory,                      *)
(*    stale           |-> a sibling pointer to such a node was followed].  *)
(* Items have a further field ptr, the node a nodeptr points to.  A node   *)
(* is named by an identifier of its own: that its block number is fake     *)
(* until cb_node_adjust() and that contents reach the device when it is    *)
(* unloaded are left out.                                                  *)
(***************************************************************************)
EXTENDS Node40Shift, FiniteSets, FiniteSetsExt

CONSTANT MaxNodes    \* blocks the file system has for nodes

ASSUME MaxNodesAssumption == MaxNodes \in Nat \ {0}

NULL == 0

Nodes == 1 .. MaxNodes

LEAF_LEVEL == 1

PtrLen == 1    \* sizeof(nodeptr40_t)

Place(n, item, unit) == [node |-> n, pos |-> Pos(item, unit)]

NoPlace == Place(NULL, 0, MAX_UINT32)

(* A node object: place in the parent, siblings, lock counter, whether it  *)
(* is in the hash table tree->nodes, whether it exists at all.             *)
NoMem == [p |-> NoPlace, left |-> NULL, right |-> NULL, lock |-> 0,
          hashed |-> FALSE, in |-> FALSE]

Items(t, n) == node40_items(t.nodes[n])

ItemAt(t, place) == Item(t.nodes[place.node], place.pos.item)

Parent(t, n) == t.mem[n].p

reiser4_item_branch(it) == it.kind = "ptr"

(* Every operation that works on a node object goes through here.          *)
Touch(t, n) == IF t.mem[n].in THEN t ELSE [t EXCEPT !.bug = TRUE]

reiser4_node_lock(t, n) == [Touch(t, n) EXCEPT !.mem[n].lock = @ + 1]

(* Assertion umka-2316: only a locked node is unlocked.                    *)
reiser4_node_unlock(t, n) ==
  [Touch(t, n) EXCEPT !.mem[n].lock = @ - 1, !.bug = @ \/ t.mem[n].lock <= 0]

reiser4_node_locked(t, n) == t.mem[n].lock > 0

reiser4_tree_fresh(t) == t.root = NULL

reiser4_tree_minimal(t) == t.height <= 2

reiser4_tree_singular(t) == Items(t, t.troot) = 1

-----------------------------------------------------------------------------
(* Places.                                                                  *)

reiser4_place_valid(t, place) == place.pos.item < Items(t, place.node)

reiser4_place_leftmost(place) == place.pos.item = 0 /\ place.pos.unit \in {0, MAX_UINT32}

reiser4_place_rightmost(t, place) ==
  \/ place.pos.item = Items(t, place.node)
  \/ place.pos.item = Items(t, place.node) - 1 /\ place.pos.unit = Units(ItemAt(t, place))

(* Mutant: the place of the child itself.                                  *)
SameChildPos(t, left) == Parent(t, left)

tree_next_child_pos(t, left) == [Parent(t, left) EXCEPT !.pos.item = @ + 1]

-----------------------------------------------------------------------------
(* The cache.                                                               *)

(* Where the nodeptr to child is in parent: the old place, a search by key  *)
(* and a scan all end at the one item that points to it.                    *)
reiser4_tree_rebind_node(t, parent, child) ==
  LET here == {i \in 1 .. Items(t, parent) : t.nodes[parent].items[i].ptr = child}
  IN  IF here = {} THEN [t EXCEPT !.bug = TRUE]
      ELSE [t EXCEPT !.mem[child].p = Place(parent, Min(here) - 1, MAX_UINT32)]

(* Children in memory of items start .. end - 1 of node get their place in  *)
(* it, and the lock each holds on its parent goes along.                    *)
reiser4_tree_update_node(t, node, start, end) ==
  LET found == {c \in Nodes : /\ t.mem[c].hashed
                              /\ \E i \in start + 1 .. end : t.nodes[node].items[i].ptr = c}
      bound == {c \in found : Parent(t, c).node # NULL}
      from(n) == Cardinality({c \in bound : Parent(t, c).node = n})
      relock == [Touch(t, node) EXCEPT !.mem = [n \in Nodes |->
        [t.mem[n] EXCEPT !.lock = @ - from(n) + (IF n = node THEN Cardinality(bound) ELSE 0)]]]
  IN  FoldSet(LAMBDA c, acc : reiser4_tree_rebind_node(acc, node, c), relock, found)

reiser4_tree_disconnect_node(t, node) ==
  LET m  == t.mem[node]
      up == IF m.p.node = NULL THEN t ELSE reiser4_node_unlock(t, m.p.node)
  IN  [up EXCEPT
        !.stale = @ \/ \E n \in {m.left, m.right} \ {NULL} : ~t.mem[n].in,
        !.mem = [n \in Nodes |->
          IF n = node
          THEN [up.mem[n] EXCEPT !.left = NULL, !.right = NULL, !.hashed = FALSE, !.p.node = NULL]
          ELSE [up.mem[n] EXCEPT !.right = IF n = m.left THEN NULL ELSE @,
                                 !.left = IF n = m.right THEN NULL ELSE @]],
        !.troot = IF @ = node THEN NULL ELSE @]

reiser4_tree_unload_node(t, node) ==
  [reiser4_tree_disconnect_node(t, node) EXCEPT !.mem[node] = NoMem]

(* reiser4_tree_walk_node() with cb_node_adjust() and cb_node_unload():     *)
(* below node, everything in memory that nothing locks is unloaded,         *)
(* children first.  An empty node fails assertion umka-3075.                *)
RECURSIVE reiser4_tree_walk_node(_, _)
reiser4_tree_walk_node(t, node) ==
  LET step(acc, it) ==
        IF it.ptr # NULL /\ acc.mem[it.ptr].hashed THEN reiser4_tree_walk_node(acc, it.ptr) ELSE acc
      below == FoldLeft(step, [t EXCEPT !.bug = @ \/ Items(t, node) = 0], t.nodes[node].items)
  IN  IF reiser4_node_locked(below, node) THEN below
      ELSE reiser4_tree_unload_node(below, node)

(* An empty root is the one tree_growup() has just connected.               *)
reiser4_tree_adjust(t) ==
  IF t.troot = NULL THEN t
  ELSE IF Items(t, t.troot) = 0 THEN t
  ELSE reiser4_tree_walk_node(t, t.troot)

reiser4_tree_mpressure(t) == IF t.pressure THEN reiser4_tree_adjust(t) ELSE t

reiser4_tree_connect_node(t, parent, node) ==
  LET bound == IF t.root = node THEN [t EXCEPT !.troot = node]
               ELSE IF parent # NULL
               THEN reiser4_node_lock(reiser4_tree_rebind_node(t, parent, node), parent)
               ELSE t
      held  == reiser4_node_lock([bound EXCEPT !.mem[node].hashed = TRUE], node)
  IN  reiser4_node_unlock(reiser4_tree_mpressure(held), node)

reiser4_tree_load_node(t, parent, node) ==
  IF t.mem[node].hashed THEN t
  ELSE reiser4_tree_connect_node([t EXCEPT !.mem[node] = [NoMem EXCEPT !.in = TRUE]], parent, node)

reiser4_tree_load_root(t) ==
  IF t.troot # NULL THEN t
  ELSE [reiser4_tree_load_node(t, NULL, t.root) EXCEPT !.troot = t.root]

(* The child is NULL when the item at place is not a nodeptr.               *)
reiser4_tree_child_node(t, place) ==
  LET it == ItemAt(t, place)
  IN  IF ~reiser4_place_valid(t, place) \/ ~reiser4_item_branch(it)
      THEN [t |-> t, node |-> NULL]
      ELSE [t |-> reiser4_tree_load_node(t, place.node, it.ptr), node |-> it.ptr]

-----------------------------------------------------------------------------
(* Neighbours.                                                              *)

(* Up to the first ancestor that has something on that side.  level is 0    *)
(* when there is none.                                                      *)
RECURSIVE NeigPlace(_, _, _, _)
NeigPlace(t, node, left, level) ==
  LET p == Parent(t, node)
      found == IF left THEN p.pos.item > 0 ELSE p.pos.item < Items(t, p.node) - 1
  IN  IF p.node = NULL THEN [level |-> 0, place |-> NoPlace]
      ELSE IF found
      THEN [level |-> level, place |-> [p EXCEPT !.pos.item = IF left THEN @ - 1 ELSE @ + 1]]
      ELSE NeigPlace(t, p.node, left, level + 1)

reiser4_tree_neig_place(t, node, left) == NeigPlace(t, node, left, 1)

(* Down again along the border, to the level the climb began at.  c is what *)
(* reiser4_tree_child_node() returns.                                       *)
RECURSIVE NeigDown(_, _, _, _)
NeigBelow(c, left, level) ==
  IF c.node = NULL \/ level = 1 THEN c
  ELSE NeigDown(c.t, Place(c.node, IF left THEN Items(c.t, c.node) - 1 ELSE 0, MAX_UINT32),
                left, level - 1)

NeigDown(t, place, left, level) ==
  NeigBelow(reiser4_tree_child_node(t, place), left, level)

LinkNeig(t, node, neig, left) ==
  IF neig = NULL THEN [t |-> t, node |-> NULL]
  ELSE [node |-> neig,
        t |-> IF left THEN [t EXCEPT !.mem[node].left = neig, !.mem[neig].right = node]
              ELSE [t EXCEPT !.mem[node].right = neig, !.mem[neig].left = node]]

UnlockNeig(down, node, left) ==
  LinkNeig(reiser4_node_unlock(down.t, node), node, down.node, left)

(* Mutant: the node is not held while its neighbour is loaded.             *)
FindNeigUnlocked(t, node, left, up) ==
  IF up.level = 0 THEN [t |-> t, node |-> NULL]
  ELSE UnlockNeig([NeigDown(t, up.place, left, up.level) EXCEPT !.t.mem[node].lock = @ + 1],
                  node, left)

(* The node is locked while its neighbour is loaded.                        *)
FindNeig(t, node, left, up) ==
  IF up.level = 0 THEN [t |-> t, node |-> NULL]
  ELSE UnlockNeig(NeigDown(reiser4_node_lock(t, node), up.place, left, up.level), node, left)

reiser4_tree_ltrt_node(t, node, left) ==
  FindNeig(Touch(t, node), node, left, reiser4_tree_neig_place(t, node, left))

-----------------------------------------------------------------------------
(* Lookup.                                                                  *)

HasMaxposs(it) == it.kind \in {"tail", "ext"}

(* tail40_lookup() and extent40_lookup() of a one-unit extent.              *)
ItemLookup(it, key, conv) ==
  IF key >= it.key /\ key < it.key + Units(it)
  THEN [found |-> TRUE, unit |-> key - it.key]
  ELSE [found |-> conv, unit |-> Units(it)]

(* conv is FIND_CONV, the search for a place to insert at.                  *)
reiser4_node_lookup(n, key, conv) ==
  LET i  == Cardinality({j \in 1 .. Len(n.items) : n.items[j].key < key})
      it == Item(n, i - 1)
      in == ItemLookup(it, key, conv)
  IN  IF i < Len(n.items) /\ Item(n, i).key = key
      THEN [found |-> TRUE, pos |-> Pos(i, 0)]
      ELSE IF i = 0 THEN [found |-> FALSE, pos |-> Pos(0, MAX_UINT32)]
      ELSE IF HasMaxposs(it)
      THEN IF key > body40_maxposs_key(it) THEN [found |-> FALSE, pos |-> Pos(i, MAX_UINT32)]
           ELSE [found |-> in.found, pos |-> Pos(i - 1, in.unit)]
      ELSE IF ~reiser4_item_branch(it) \/ conv
      THEN [found |-> FALSE, pos |-> Pos(i, MAX_UINT32)]
      ELSE [found |-> FALSE, pos |-> Pos(i - 1, MAX_UINT32)]

(* Keys are unique here, so the walk to the left for an equal key ends at   *)
(* the item before, which may be the last one of the left neighbour.        *)
reiser4_tree_collision_start(t, place) ==
  IF place.pos.item > 0 THEN t
  ELSE reiser4_node_unlock(
         reiser4_tree_ltrt_node(reiser4_node_lock(t, place.node), place.node, TRUE).t, place.node)

RECURSIVE LookupFrom(_, _, _, _)
LookupAt(t, place, found, key, conv) ==
  LET at == [t |-> t, found |-> found, place |-> place]
  IN  IF t.level[place.node] <= LEAF_LEVEL
      THEN IF found THEN [at EXCEPT !.t = reiser4_tree_collision_start(t, place)] ELSE at
      ELSE IF ~reiser4_place_valid(t, place) THEN [at EXCEPT !.found = FALSE]
      ELSE IF ~reiser4_item_branch(ItemAt(t, place)) THEN at
      ELSE LookupFrom(reiser4_tree_load_node(t, place.node, ItemAt(t, place).ptr),
                      ItemAt(t, place).ptr, key, conv)

LookupNode(t, node, r, key, conv) ==
  LookupAt(t, [node |-> node, pos |-> r.pos], r.found, key, conv)

LookupFrom(t, node, key, conv) ==
  LookupNode(t, node,
             reiser4_node_lookup(t.nodes[node], key, t.level[node] <= LEAF_LEVEL /\ conv), key, conv)

reiser4_tree_lookup(t, key, conv) ==
  IF reiser4_tree_fresh(t) THEN [t |-> t, found |-> FALSE, place |-> NoPlace]
  ELSE LookupFrom(reiser4_tree_load_root(t), t.root, key, conv)

-----------------------------------------------------------------------------
(* The next item.                                                           *)

(* Behind the last item of a node: the node on the right, also when only    *)
(* its old sibling pointer is left, or the item on the right of an ancestor *)
(* (an extent on twig level).                                               *)
RightPlace(t, node) ==
  [t |-> t, place |-> IF t.mem[node].right # NULL THEN Place(t.mem[node].right, 0, 0)
                      ELSE reiser4_tree_neig_place(t, node, FALSE).place]

(* Mutant: a place behind the last item is taken for one of the node.      *)
AdjustPlaceBehind(t, place) ==
  IF place.pos.item <= Items(t, place.node) THEN [t |-> t, place |-> place]
  ELSE RightPlace(reiser4_tree_ltrt_node(t, place.node, FALSE).t, place.node)

reiser4_tree_adjust_place(t, place) ==
  IF place.pos.item < Items(t, place.node) THEN [t |-> t, place |-> place]
  ELSE RightPlace(reiser4_tree_ltrt_node(t, place.node, FALSE).t, place.node)

RECURSIVE DownToItem(_, _)
DownToChild(t, place, child) ==
  IF child.node = NULL THEN [t |-> t, place |-> place]
  ELSE DownToItem(child.t, Place(child.node, 0, MAX_UINT32))

DownToItem(t, place) == DownToChild(t, place, reiser4_tree_child_node(t, place))

UnlockPlace(at, node) == [at EXCEPT !.t = reiser4_node_unlock(@, node)]

FirstItem(next) ==
  IF next.place.node = NULL THEN next
  ELSE UnlockPlace(DownToItem(reiser4_node_lock(next.t, next.place.node), next.place),
                   next.place.node)

(* The place of the next item in tree order, NoPlace behind the last one.   *)
reiser4_tree_next_place(t, place) ==
  FirstItem(reiser4_tree_adjust_place(t, [place EXCEPT !.pos.item = @ + 1, !.pos.unit = 0]))
=============================================================================
