---------------------------- MODULE TreeBalance -----------------------------
(***************************************************************************)
(* Changing the tree: making room, inserting, removing, packing, growing   *)
(* and drying out (the second half of libreiser4/tree.c).  Each operator   *)
(* takes a tree value and returns a record with the new one in t, err TRUE *)
(* where the code returns an error with the tree as it is at that point.   *)
(* The shift flags are SF_DEFAULT except where pack (SF_ALLOW_PACK) says   *)
(* otherwise.                                                              *)
(***************************************************************************)
EXTENDS TreeCache

(* Left delimiting keys, from place up while it is the leftmost one.        *)
RECURSIVE reiser4_tree_update_keys(_, _, _)

(* Mutant: the keys further up are left as they are.                       *)
UpdateKeysOneLevel(t, place, key) ==
  IF ~reiser4_place_valid(t, place) THEN [t EXCEPT !.bug = TRUE]
  ELSE [t EXCEPT !.nodes[place.node] = node40_set_key(@, place.pos.item, key)]

reiser4_tree_update_keys(t, place, key) ==
  LET up == Parent(t, place.node)
      t1 == IF reiser4_place_leftmost(place) /\ up.node # NULL
            THEN reiser4_tree_update_keys(t, up, key) ELSE t
  IN  IF ~reiser4_place_valid(t, place) THEN [t EXCEPT !.bug = TRUE]
      ELSE IF ItemAt(t, place).key = key THEN t
      ELSE [t1 EXCEPT !.nodes[place.node] = node40_set_key(@, place.pos.item, key)]

LeftmostKey(t, n) == Item(t.nodes[n], 0).key

-----------------------------------------------------------------------------
(* Blocks.                                                                  *)

(* node is NULL when the format has no free blocks left.                    *)
reiser4_tree_alloc_node(t, level) ==
  LET new == Min({n \in Nodes : t.level[n] = 0})
  IN  IF t.free = 0 THEN [t |-> t, node |-> NULL]
      ELSE [node |-> new,
            t |-> [t EXCEPT !.free = @ - 1, !.level[new] = level, !.nodes[new] = node40_init,
                            !.mem[new] = [NoMem EXCEPT !.in = TRUE]]]

reiser4_tree_release_node(t, node) ==
  [Touch(t, node) EXCEPT !.free = @ + 1, !.level[node] = 0,
                         !.nodes[node] = node40_init, !.mem[node] = NoMem]

reiser4_tree_assign_root(t, node) ==
  LET t1 == [Touch(t, node) EXCEPT !.troot = node, !.mem[node].p.node = NULL]
      t2 == reiser4_tree_connect_node(t1, NULL, node)
  IN  [t2 EXCEPT !.height = t.level[node], !.root = node]

-----------------------------------------------------------------------------
(* Moving items between nodes.                                              *)

(* Left delimiting key of the right one of two nodes after a shift.         *)
ShiftedKeys(t, right, changed) ==
  IF changed /\ Items(t, right) > 0 /\ Parent(t, right).node # NULL
  THEN reiser4_tree_update_keys(t, Parent(t, right), LeftmostKey(t, right)) ELSE t

(* Children of node, from item start on, after a shift.                     *)
ShiftedChildren(t, node, start) ==
  IF t.level[node] > LEAF_LEVEL /\ Items(t, node) > 0
  THEN reiser4_tree_update_node(t, node, start, Items(t, node)) ELSE t

(* s is what node40_shift() made of the two nodes.                          *)
ShiftedNodes(t, node, neig, s, left) ==
  ShiftedKeys([Touch(Touch(t, node), neig) EXCEPT !.nodes[node] = s.src, !.nodes[neig] = s.dst],
              IF left THEN node ELSE neig, s.hint.changed)

(* To the left, the children that moved are those from the last of before   *)
(* items on; the right node is gone through as a whole.                     *)
ShiftedTree(t, node, neig, left, before) ==
  IF left
  THEN ShiftedChildren(ShiftedChildren(t, neig, IF before > 0 THEN before - 1 ELSE 0), node, 0)
  ELSE ShiftedChildren(t, neig, 0)

ShiftTree(t, place, neig, s, left, update) ==
  [t |-> ShiftedTree(ShiftedNodes(t, place.node, neig, s, left),
                     place.node, neig, left, Items(t, neig)),
   place |-> [node |-> IF s.hint.moved THEN neig ELSE place.node,
              pos  |-> IF update THEN s.hint.pos ELSE place.pos]]

reiser4_tree_shift(t, place, neig, left, update, move) ==
  ShiftTree(t, place, neig,
            node40_shift(t.nodes[place.node], t.nodes[neig],
                         Hint(left, update, move, TRUE, place.pos)), left, update)

tree_calc_space(t, place) ==
  node40_space(t.nodes[place.node]) - (IF place.pos.unit = MAX_UINT32 THEN node40_overhead ELSE 0)

(* tree_shift_todir() after the neighbour has been found.  The insert point *)
(* stays, so the old node is never discarded here.                          *)
ShiftToNeig(s, neig, left) ==
  IF neig.node = NULL THEN [s EXCEPT !.t = neig.t]
  ELSE reiser4_tree_shift(neig.t, s.place, neig.node, left, TRUE, FALSE) @@ s

tree_shift_todir(s, left) ==
  ShiftToNeig(s, reiser4_tree_ltrt_node(s.t, s.place.node, left), left)

RECURSIVE reiser4_tree_modify(_, _, _, _), reiser4_tree_remove(_, _, _)

NoError(t) == [t |-> t, err |-> FALSE]

Error(t) == [t |-> t, err |-> TRUE]

Unlocked(r, node) == [r EXCEPT !.t = reiser4_node_unlock(@, node)]

(* Inserts the nodeptr to node at place and connects node to the cache and  *)
(* to both its neighbours.                                                  *)
Connected(r, node) ==
  IF r.err THEN Error(r.t)
  ELSE NoError(reiser4_tree_ltrt_node(reiser4_tree_ltrt_node(
         reiser4_tree_connect_node(r.t, r.place.node, node), node, TRUE).t, node, FALSE).t)

reiser4_tree_attach_node(t, node, place) ==
  Connected(reiser4_tree_modify(t, place,
    [key |-> LeftmostKey(t, node), kind |-> "ptr", len |-> PtrLen, ptr |-> node],
    t.level[node] + 1), node)

(* Takes node out of the cache and its nodeptr, at place, out of the tree.  *)
DetachFrom(t, node, place, pack) ==
  IF t.root = node THEN NoError([t EXCEPT !.root = NULL])
  ELSE reiser4_tree_remove(t, place, pack)

reiser4_tree_detach_node(t, node, pack) ==
  DetachFrom(reiser4_tree_disconnect_node(Touch(t, node), node), node, Parent(t, node), pack)

Released(r, node) == IF r.err THEN r ELSE [r EXCEPT !.t = reiser4_tree_release_node(@, node)]

reiser4_tree_discard_node(t, node) == Released(reiser4_tree_detach_node(t, node, TRUE), node)

(* A new root above the old one.  An error of the last step is undone.      *)
GrowupDone(r, old, new) ==
  IF r.err THEN [r EXCEPT !.t = reiser4_tree_release_node(reiser4_tree_assign_root(@, old), new)]
  ELSE r

GrowupAttach(t, old, new) ==
  GrowupDone(Unlocked(reiser4_tree_attach_node(reiser4_node_lock(t, new), old,
                                               Place(new, 0, MAX_UINT32)), new), old, new)

GrowupFrom(t, old, new) ==
  GrowupAttach(reiser4_tree_assign_root(reiser4_tree_detach_node(t, old, TRUE).t, new), old, new)

GrowupRoot(t, new) == GrowupFrom(t, t.troot, new)

GrowupInto(t, new) ==
  IF new.node = NULL THEN Error(t) ELSE GrowupRoot(reiser4_tree_load_root(new.t), new.node)

reiser4_tree_growup(t) == GrowupInto(t, reiser4_tree_alloc_node(t, t.height + 1))

(* The only child of the root becomes the root.                             *)
DryoutDone(r, new) == IF r.err THEN r ELSE NoError(reiser4_tree_assign_root(r.t, new))

DryoutTo(t, new) ==
  IF new.node = NULL THEN Error(t)
  ELSE DryoutDone(reiser4_tree_detach_node(new.t, new.node, TRUE), new.node)

DryoutRoot(t) == DryoutTo(t, reiser4_tree_child_node(t, Place(t.troot, 0, 0)))

reiser4_tree_dryout(t) ==
  IF reiser4_tree_minimal(t) THEN Error(t) ELSE DryoutRoot(reiser4_tree_load_root(t))

DryoutSingular(t) ==
  IF t.troot # NULL /\ reiser4_tree_singular(t) /\ ~reiser4_tree_minimal(t)
  THEN reiser4_tree_dryout(t) ELSE NoError(t)

DriedOut(r) == IF r.err THEN r ELSE DryoutSingular(r.t)

(* An empty node leaves the tree unless somebody holds it; then it only     *)
(* gets NF_HEARD_BANSHEE.                                                   *)
DropEmpty(t, node) ==
  IF reiser4_node_locked(t, node) THEN NoError(t) ELSE reiser4_tree_discard_node(t, node)

PackInto(t, node, neig) ==
  reiser4_tree_shift(t, Place(node, 0, MAX_UINT32), neig, TRUE, FALSE, FALSE).t

(* That the right neighbour, empty now, cannot be dropped is not an error.  *)
PackedRight(t, neig) ==
  IF Items(t, neig) > 0 THEN NoError(t) ELSE [DropEmpty(t, neig) EXCEPT !.err = FALSE]

PackRight(r, node) ==
  IF r.node = NULL THEN NoError(r.t) ELSE PackedRight(PackInto(r.t, r.node, node), r.node)

PackedLeft(t, node) ==
  IF Items(t, node) = 0 THEN DropEmpty(t, node)
  ELSE PackRight(reiser4_tree_ltrt_node(t, node, FALSE), node)

PackLeft(l, node) ==
  PackedLeft(IF l.node = NULL THEN l.t ELSE PackInto(l.t, node, l.node), node)

(* Packs the node into the left neighbour, then the right neighbour into    *)
(* it.                                                                      *)
reiser4_tree_shrink(t, node) ==
  DriedOut(PackLeft(reiser4_tree_ltrt_node(t, node, TRUE), node))

-----------------------------------------------------------------------------
(* Making room.                                                             *)

(* A turn of the allocation loop works on x: the turn's input place save,   *)
(* the new node, the insert point place, the place at in the parent where   *)
(* the new node goes, the number left of items in the old node.             *)

(* The end of the turn.  A new node that nothing went to is released unless *)
(* the insert point did.                                                    *)
ExpandDone(t, x, parent, len) ==
  LET bug == \/ x.save.node = x.place.node /\ x.place.pos.item >= x.left
                 /\ x.place.pos.unit # MAX_UINT32                              \* vpf-1793
             \/ tree_calc_space(t, x.place) < len /\ x.save.node # x.place.node \* vpf-1796
             \/ x.left = 0 /\ x.save.node # x.place.node                       \* vpf-1795
  IN  [err |-> FALSE, place |-> x.place, parent |-> parent,
       t |-> [IF Items(t, x.node) = 0 /\ x.node # x.place.node
              THEN reiser4_tree_release_node(t, x.node) ELSE t EXCEPT !.bug = @ \/ bug]]

ExpandFails(t, x) == [t |-> t, err |-> TRUE, place |-> x.save, parent |-> x.at]

ExpandAttached(r, x, len) ==
  IF r.err THEN ExpandFails(r.t, x) ELSE ExpandDone(r.t, x, Parent(r.t, x.node), len)

ExpandBelow(r, x, at) == IF r.err THEN r ELSE reiser4_tree_attach_node(r.t, x.node, at)

ExpandGrown(r, x) == ExpandBelow(r, x, tree_next_child_pos(r.t, x.save.node))

(* The new node goes into the tree beside the old one, below a new root if  *)
(* the old node was the root.                                               *)
ExpandAttach(t, x) ==
  IF t.root = x.save.node THEN ExpandGrown(reiser4_tree_growup(t), x)
  ELSE ExpandBelow(NoError(t), x, x.at)

ExpandInto(t, x, len) ==
  IF Items(t, x.node) = 0 THEN ExpandDone(t, x, x.at, len)
  ELSE ExpandAttached(Unlocked(ExpandAttach(reiser4_node_lock(t, x.save.node), x), x.save.node),
                      x, len)

ExpandDetach(t, x) ==
  IF x.left > 0 THEN NoError(t)
  ELSE Unlocked(reiser4_tree_detach_node(reiser4_node_lock(t, x.save.node), x.save.node, FALSE),
                x.save.node)

ExpandDetached(r, x, len) ==
  IF r.err THEN ExpandFails(r.t, x)
  ELSE ExpandInto(r.t, IF x.left > 0 THEN x ELSE [x EXCEPT !.at.pos.item = @ - 1], len)

(* After the shift.  An old node that has nothing left leaves the tree and  *)
(* stays in memory.                                                         *)
ExpandShifted(t, x, len) == ExpandDetached(ExpandDetach(t, x), x, len)

ExpandState(t, save, node, place, at) ==
  [save |-> save, node |-> node, place |-> place, at |-> at, left |-> Items(t, save.node)]

(* In front of the first item nothing is shifted: the new node goes before  *)
(* the old one.                                                             *)
ExpandShift(t, save, node, alloc) ==
  IF save.pos = Pos(0, MAX_UINT32) THEN [t |-> t, place |-> Place(node, 0, MAX_UINT32)]
  ELSE reiser4_tree_shift(t, save, node, FALSE, TRUE, alloc > 0 \/ reiser4_place_rightmost(t, save))

ExpandFrom(r, save, node, len) ==
  ExpandShifted(r.t, ExpandState(r.t, save, node, r.place,
    IF save.pos = Pos(0, MAX_UINT32) THEN Parent(r.t, save.node)
    ELSE tree_next_child_pos(r.t, save.node)), len)

ExpandNew(s, new, len, alloc) ==
  IF new.node = NULL THEN [s EXCEPT !.err = TRUE]
  ELSE ExpandFrom(ExpandShift(new.t, s.place, new.node, alloc), s.place, new.node, len)

(* One turn of the allocation loop.                                         *)
ExpandAlloc(s, len, alloc) ==
  ExpandNew(s, reiser4_tree_alloc_node(s.t, s.t.level[s.place.node]), len, alloc)

Short(s, len) == ~s.err /\ tree_calc_space(s.t, s.place) < len

ShiftShort(s, len, left) == IF Short(s, len) THEN tree_shift_todir(s, left) ELSE s

AllocShort(s, len, alloc) == IF Short(s, len) THEN ExpandAlloc(s, len, alloc) ELSE s

(* s is [t, err, place, parent]; parent is where a node that is not in the  *)
(* tree yet has to be attached.                                             *)
reiser4_tree_expand(s, len) ==
  IF reiser4_tree_fresh(s.t) THEN [s EXCEPT !.err = TRUE]
  ELSE AllocShort(AllocShort(ShiftShort(ShiftShort(s, len, TRUE), len, FALSE), len, 0), len, 1)

(* The node of place is cut in two there.  The result's place is the        *)
(* nodeptr to the new right half.                                           *)
SplitDone(s, r, new) ==
  IF r.err THEN [s EXCEPT !.err = TRUE, !.t = reiser4_tree_release_node(r.t, new)]
  ELSE [s EXCEPT !.t = r.t, !.place = Parent(r.t, new)]

SplitAttach(s, t, new) ==
  SplitDone(s, Unlocked(reiser4_tree_attach_node(reiser4_node_lock(t, s.place.node), new,
                                                 tree_next_child_pos(t, s.place.node)),
                        s.place.node), new)

SplitInto(s, new) ==
  IF new.node = NULL THEN [s EXCEPT !.err = TRUE]
  ELSE SplitAttach(s, reiser4_tree_shift(new.t, s.place, new.node, FALSE, TRUE, FALSE).t, new.node)

SplitNode(s) == SplitInto(s, reiser4_tree_alloc_node(s.t, s.t.level[s.place.node]))

(* From place up to level, cutting the nodes that place points inside of.   *)
RECURSIVE reiser4_tree_split(_, _)
reiser4_tree_split(s, level) ==
  LET up    == Parent(s.t, s.place.node)
      right == reiser4_place_rightmost(s.t, s.place)
  IN  IF s.err \/ s.t.level[s.place.node] >= level THEN s
      ELSE reiser4_tree_split(
             IF right THEN [s EXCEPT !.place = [up EXCEPT !.pos.item = @ + 1]]
             ELSE IF reiser4_place_leftmost(s.place) THEN [s EXCEPT !.place = up]
             ELSE SplitNode(s), level)

-----------------------------------------------------------------------------
(* Insert and remove.                                                       *)

RECURSIVE tree_growup_level(_, _)
tree_growup_level(s, level) ==
  IF s.err \/ level <= s.t.height THEN s ELSE tree_growup_level(reiser4_tree_growup(s.t), level)

Prepared(t, err, node, parent) ==
  [t |-> t, err |-> err, place |-> Place(node, 0, MAX_UINT32), parent |-> parent]

PreparedIn(new, parent) == Prepared(new.t, new.node = NULL, new.node, parent)

(* The first nodes: a root, and a node of the wanted level to put below it. *)
PrepRoot(t, root, level) ==
  IF level = t.height THEN Prepared(t, FALSE, root, Place(root, 0, MAX_UINT32))
  ELSE PreparedIn(reiser4_tree_alloc_node(t, level), Place(root, 0, MAX_UINT32))

PrepFresh(t, new, level) ==
  IF new.node = NULL THEN Prepared(t, TRUE, NULL, NoPlace)
  ELSE PrepRoot(reiser4_tree_assign_root(new.t, new.node), new.node, level)

PrepGrown(r, place, level) ==
  IF r.err THEN Prepared(r.t, TRUE, NULL, NoPlace)
  ELSE IF level < r.t.level[place.node] THEN PreparedIn(reiser4_tree_alloc_node(r.t, level), place)
  ELSE reiser4_tree_split([t |-> r.t, err |-> FALSE, place |-> place, parent |-> NoPlace], level)

(* Room for the first nodes, a node of the wanted level, or a cut up to it. *)
tree_prep_modify(t, place, level) ==
  IF reiser4_tree_fresh(t) THEN PrepFresh(t, reiser4_tree_alloc_node(t, t.height), level)
  ELSE PrepGrown(
         Unlocked(tree_growup_level(
           NoError(reiser4_tree_load_root(reiser4_node_lock(t, place.node))), level), place.node),
         place, level)

(* Mutant: children behind the new item keep their old places.             *)
PostModifyNoUpdate(t, place) ==
  LET up == Parent(t, place.node)
  IN  IF Items(t, place.node) > 0 /\ reiser4_place_leftmost(place) /\ up.node # NULL
      THEN reiser4_tree_update_keys(t, up, ItemAt(t, place).key) ELSE t

PostModifyChildren(t, place) ==
  IF t.level[place.node] > LEAF_LEVEL
  THEN reiser4_tree_update_node(t, place.node, place.pos.item, Items(t, place.node)) ELSE t

tree_post_modify(t, place) ==
  IF Items(t, place.node) = 0 THEN t
  ELSE PostModifyChildren(
         IF reiser4_place_leftmost(place) /\ Parent(t, place.node).node # NULL
         THEN reiser4_tree_update_keys(t, Parent(t, place.node), ItemAt(t, place).key) ELSE t,
         place)

(* A node that is not in the tree yet, with its first item in it, goes to   *)
(* parent, or beside the old root below a new one.                          *)
AttachBeside(r, n, root) ==
  IF r.err THEN r ELSE reiser4_tree_attach_node(r.t, n, tree_next_child_pos(r.t, root))

AttachNew(t, n, parent, level) ==
  IF level = t.height
  THEN AttachBeside(Unlocked(reiser4_tree_growup(reiser4_node_lock(t, n)), n), n, t.troot)
  ELSE reiser4_tree_attach_node(t, n, parent)

ModifyDone(t, n, parent, level) ==
  IF n # t.troot /\ Parent(t, n).node = NULL THEN AttachNew(t, n, parent, level) ELSE NoError(t)

ModifyNode(t, place, it) ==
  tree_post_modify([Touch(t, place.node) EXCEPT
    !.nodes[place.node] = node40_modify(@, place.pos, it, it.len)], place)

ModifyExpanded(s, it, level) ==
  IF s.err \/ Short(s, it.len) THEN [s EXCEPT !.err = TRUE]
  ELSE ModifyDone(ModifyNode(s.t, s.place, it), s.place.node, s.parent, level) @@ s

ModifyPrepared(s, it, level) ==
  ModifyExpanded(IF s.err THEN s ELSE reiser4_tree_expand(s, it.len), it, level)

(* Inserts item it, or appends to the item at place when place names one of *)
(* its units.  The result's place is where it went.                         *)
reiser4_tree_modify(t, place, it, level) ==
  ModifyPrepared(tree_prep_modify(t, place, level), it, level)

RemovedFrom(t, n, pack) ==
  IF Items(t, n) = 0 THEN DropEmpty(t, n)
  ELSE IF pack THEN reiser4_tree_shrink(t, n) ELSE NoError(t)

DriedOutIf(r, pack) == IF pack THEN DriedOut(r) ELSE r

(* Removes the item at place.                                               *)
reiser4_tree_remove(t, place, pack) ==
  DriedOutIf(RemovedFrom(tree_post_modify(
    [Touch(t, place.node) EXCEPT
      !.nodes[place.node] = node40_remove(@, place.pos.item, 1)], place), place.node, pack), pack)
=============================================================================
