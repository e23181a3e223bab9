-------------------------------- MODULE Tree --------------------------------
(***************************************************************************)
(* The tree as its callers use it: the object plugins look a key up and    *)
(* insert, append, cut or remove there; memory pressure may unload nodes   *)
(* whenever one is connected to the cache and between any two operations.  *)
(* Next to the tree runs the abstract store it has to implement.           *)
(***************************************************************************)
EXTENDS TreeBalance

CONSTANTS SdKeys,    \* keys of stat data items, inserted by reiser4_object_create()
          ExtKeys,   \* keys of extents, one of one unit per object, on twig level
          BodyKeys,  \* keys of the first byte of a body kept in tails
          Lens,      \* bound: bytes inserted or written at once
          RootKey,   \* stat data of the root directory, or no key at all
          Pressures  \* answers of tree->mpc_func()

VARIABLES tree,
          failed,    \* an operation returned an error: the tool gives up
          store      \* what the callers have stored

vars == <<tree, failed, store>>

Bodies == {k + i : k \in BodyKeys, i \in 0 .. KeySpan - 2}

KeySpace == SdKeys \cup ExtKeys \cup Bodies

Store == INSTANCE KeyStore

ASSUME TreeConstants ==
  /\ Lens \subseteq 1 .. node40_maxspace
  /\ 2 * (PtrLen + IhSize) <= NodeSize
  /\ Pressures \subseteq BOOLEAN
  /\ \A j, k \in ExtKeys : j \div KeySpan = k \div KeySpan => j = k

TWIG_LEVEL == 2

EmptyTree ==
  [root |-> NULL, height |-> 2, nodes |-> [n \in Nodes |-> node40_init],
   level |-> [n \in Nodes |-> 0], mem |-> [n \in Nodes |-> NoMem], troot |-> NULL,
   free |-> MaxNodes, pressure |-> FALSE, bug |-> FALSE, stale |-> FALSE]

Under(pressure) == [tree EXCEPT !.pressure = pressure]

(* Identifiers of nodes mean nothing but identity, so between operations    *)
(* they are those of the tree order, with any node outside the tree last:   *)
(* trees that differ by names alone are one state.                          *)
RECURSIVE TreeOrder(_, _)
TreeOrder(t, node) ==
  <<node>> \o FlattenSeq([i \in 1 .. Items(t, node) |->
    LET c == t.nodes[node].items[i].ptr IN IF c = NULL THEN <<>> ELSE TreeOrder(t, c)])

Renamed(t) ==
  LET order == IF t.root = NULL THEN <<>> ELSE TreeOrder(t, t.root)
      full  == order \o SelectSeq([n \in Nodes |-> n], LAMBDA n : n \notin ToSet(order))
      new   == [n \in Nodes \cup {NULL} |->
                 IF n = NULL THEN NULL ELSE CHOOSE i \in Nodes : full[i] = n]
  IN  [t EXCEPT
        !.root = new[@], !.troot = new[@],
        !.level = [i \in Nodes |-> t.level[full[i]]],
        !.nodes = [i \in Nodes |-> [t.nodes[full[i]] EXCEPT
                    !.items = [j \in DOMAIN @ |-> [@[j] EXCEPT !.ptr = new[@]]]]],
        !.mem = [i \in Nodes |-> [t.mem[full[i]] EXCEPT
                    !.p.node = new[@], !.left = new[@], !.right = new[@]]]]

(* Takes the result of an operation over, the abstract step if it worked.   *)
Result(r, step) ==
  /\ tree' = Renamed([r.t EXCEPT !.pressure = FALSE])
  /\ failed' = r.err
  /\ IF r.err THEN Store!Keep ELSE step

-----------------------------------------------------------------------------

Init == tree = EmptyTree /\ failed = FALSE /\ Store!Init

NewItem(key, kind, len) == [key |-> key, kind |-> kind, len |-> len, ptr |-> NULL]

(* obj40_create_stat(): a file system begins with the root directory, which *)
(* has the smallest key of all and stays.                                   *)
InsertStat(key, len, pressure) ==
  LET at == reiser4_tree_lookup(Under(pressure), key, TRUE)
  IN  /\ ~failed
      /\ RootKey \in SdKeys /\ reiser4_tree_fresh(tree) => key = RootKey
      /\ ~at.found
      /\ Result(reiser4_tree_modify(at.t, at.place, NewItem(key, "sd", len), LEAF_LEVEL),
                Store!Put(key, 1, "sd"))

(* repair_tree_attach_node(): fsck puts a leaf it found on the device into  *)
(* the tree it rebuilds.  The leaf holds one item under a free key, so it   *)
(* overlaps nothing.  Its block is counted as used from then on.            *)
AttachLeaf(key, len, pressure) ==
  LET new  == reiser4_tree_alloc_node(Under(pressure), LEAF_LEVEL)
      leaf == node40_modify(node40_init, Pos(0, MAX_UINT32), NewItem(key, "sd", len), len)
      t1   == [new.t EXCEPT !.nodes[new.node] = leaf]
      at   == reiser4_tree_lookup(t1, key, FALSE)
  IN  /\ ~failed
      /\ RootKey \in SdKeys /\ reiser4_tree_fresh(tree) => key = RootKey
      /\ new.node # NULL
      /\ ~at.found
      /\ Result(IF reiser4_tree_fresh(tree)
                THEN [t |-> reiser4_tree_assign_root(t1, new.node), err |-> FALSE]
                ELSE reiser4_tree_attach_node(at.t, new.node, at.place),
                Store!Put(key, 1, "sd"))

(* reiser4_flow_write() of an extent: the lookup for a leaf, the item on    *)
(* the level of reiser4_tree_target_level().                                *)
WriteExtent(key, len, pressure) ==
  LET at == reiser4_tree_lookup(Under(pressure), key, TRUE)
  IN  /\ ~failed
      /\ ~reiser4_tree_fresh(tree)
      /\ ~at.found
      /\ Result(reiser4_tree_modify(at.t, at.place, NewItem(key, "ext", len), TWIG_LEVEL),
                Store!Put(key, 1, "ext"))

(* Behind the last byte of the body that begins at key; key if there is     *)
(* none yet.                                                                *)
BodyEnd(key) ==
  LET body == {k \in DOMAIN store : k >= key /\ k <= key + KeySpan - 2}
  IN  IF body = {} THEN key ELSE Max(body) + 1

(* reiser4_flow_write() of a tail at the end of its file.                   *)
WriteTail(key, len, pressure) ==
  LET end == BodyEnd(key)
      at  == reiser4_tree_lookup(Under(pressure), end, TRUE)
  IN  /\ ~failed
      /\ ~reiser4_tree_fresh(tree)
      /\ end + len <= key + KeySpan - 1
      /\ Result(reiser4_tree_modify(at.t, at.place, NewItem(end, "tail", len), LEAF_LEVEL),
                Store!Put(end, len, "tail"))

CutKeys(t, place) ==
  IF reiser4_place_leftmost(place) /\ Parent(t, place.node).node # NULL /\ Items(t, place.node) > 0
  THEN reiser4_tree_update_keys(t, Parent(t, place.node), LeftmostKey(t, place.node)) ELSE t

(* That an empty node cannot be dropped is not an error.                    *)
CutPacked(t, n) ==
  IF Items(t, n) > 0 THEN reiser4_tree_shrink(t, n) ELSE [DropEmpty(t, n) EXCEPT !.err = FALSE]

CutNode(t, place, count) ==
  DriedOut(CutPacked(
    CutKeys([t EXCEPT !.nodes[place.node] = node40_trunc(@, place.pos, count)], place), place.node))

CutFound(at, key, count) ==
  LET has == ItemAt(at.t, at.place).len - at.place.pos.unit
  IN  Result(CutNode(at.t, at.place, count), Store!Drop(key, IF count > has THEN has ELSE count))

(* One turn of reiser4_flow_cut(): from key on, as much as the item there   *)
(* has.  Files are cut at their end, tail conversion eats them from the     *)
(* start.                                                                   *)
CutTail(key, count, pressure) ==
  /\ ~failed
  /\ key \in DOMAIN store /\ store[key] = "tail"
  /\ \/ <<key - 1, "tail">> \notin {<<k, store[k]>> : k \in DOMAIN store}
     \/ \A k \in key .. key + KeySpan : k \in DOMAIN store => k < key + count
  /\ CutFound(reiser4_tree_lookup(Under(pressure), key, FALSE), key, count)

(* obj40 removes stat data or an extent found by its key as a whole item.   *)
RemoveItem(key, pressure) ==
  LET at    == reiser4_tree_lookup(Under(pressure), key, FALSE)
      whole == [at.place EXCEPT !.pos.unit = MAX_UINT32]
  IN  /\ ~failed
      /\ key \in DOMAIN store /\ store[key] # "tail"
      /\ key = RootKey => DOMAIN store = {RootKey}
      /\ Result(reiser4_tree_remove(at.t, whole, TRUE), Store!Drop(key, 1))

Lookup(key, pressure) ==
  /\ ~failed
  /\ tree' = [reiser4_tree_lookup(Under(pressure), key, FALSE).t EXCEPT !.pressure = FALSE]
  /\ UNCHANGED failed /\ Store!Keep

(* Between operations: reiser4_tree_sync(), or memory pressure.             *)
Adjust ==
  /\ ~failed
  /\ tree' = reiser4_tree_adjust(tree)
  /\ UNCHANGED failed /\ Store!Keep

Next == \E pressure \in Pressures :
  \/ \E key \in SdKeys, len \in Lens : InsertStat(key, len, pressure)
  \/ \E key \in SdKeys, len \in Lens : AttachLeaf(key, len, pressure)
  \/ \E key \in ExtKeys, len \in Lens : WriteExtent(key, len, pressure)
  \/ \E key \in BodyKeys, len \in Lens : WriteTail(key, len, pressure)
  \/ \E key \in Bodies, len \in Lens : CutTail(key, len, pressure)
  \/ \E key \in SdKeys \cup ExtKeys : RemoveItem(key, pressure)
  \/ \E key \in KeySpace : Lookup(key, pressure)
  \/ Adjust

Spec == Init /\ [][Next]_vars

-----------------------------------------------------------------------------

(* The subtree of node, read from the nodeptrs alone.                       *)
RECURSIVE Below(_), Walk(_)
Below(node) ==
  {node} \cup UNION {Below(c) : c \in {it.ptr : it \in ToSet(tree.nodes[node].items)} \ {NULL}}

(* The items of the subtree in tree order.                                  *)
Walk(node) ==
  FlattenSeq([i \in 1 .. Items(tree, node) |->
    LET it == tree.nodes[node].items[i]
    IN  IF reiser4_item_branch(it) THEN Walk(it.ptr) ELSE <<it>>])

Reachable == IF tree.root = NULL THEN {} ELSE Below(tree.root)

Contents == IF tree.root = NULL THEN <<>> ELSE Walk(tree.root)

(* The tree implements the store: whatever balancing, growing, drying out   *)
(* and unloading an operation goes through, in tree order the units found   *)
(* in the leaves and twigs are the stored ones, each once and sorted.       *)
Implements == ~failed =>
  LET units == FlattenSeq([i \in 1 .. Len(Contents) |->
                 [u \in 1 .. Units(Contents[i]) |->
                   <<Contents[i].key + u - 1, Contents[i].kind>>]])
  IN  /\ ToSet(units) = {<<k, store[k]>> : k \in DOMAIN store}
      /\ \A i \in 1 .. Len(units) - 1 : units[i][1] < units[i + 1][1]

(* Left delimiting keys: a nodeptr has the key of the leftmost item of its  *)
(* child, also after items were shifted, cut off or inserted at the left    *)
(* border several levels below.                                             *)
DelimitingKeys ==
  \A n \in Reachable : \A it \in ToSet(tree.nodes[n].items) :
    reiser4_item_branch(it) => Items(tree, it.ptr) > 0 /\ it.key = LeftmostKey(tree, it.ptr)

(* Levels go down by one along nodeptrs, extents lie on twig level, the     *)
(* format records the level of the root, and a root above a twig has more   *)
(* than one child (reiser4_tree_dryout()).                                  *)
Levels == tree.root # NULL =>
  /\ tree.level[tree.root] = tree.height
  /\ tree.height > 2 => Items(tree, tree.root) > 1
  /\ \A n \in Reachable : \A it \in ToSet(tree.nodes[n].items) :
       CASE it.kind = "ptr" -> tree.level[it.ptr] = tree.level[n] - 1
         [] it.kind = "ext" -> tree.level[n] = TWIG_LEVEL
         [] OTHER -> tree.level[n] = LEAF_LEVEL

(* The free block counter of the format and the tree agree: no node is      *)
(* leaked or counted twice.                                                 *)
BlocksExact ==
  /\ Reachable = {n \in Nodes : tree.level[n] > 0}
  /\ tree.free = MaxNodes - Cardinality(Reachable)

(* After every operation the nodes form a tree as fsck wants it: delimiting *)
(* keys, levels and the number of blocks in use agree.                      *)
Shape == ~failed => DelimitingKeys /\ Levels /\ BlocksExact

(* Every node in memory knows its place in a parent that is in memory too;  *)
(* the lock counter of a node is the number of its children in memory, so   *)
(* that it can be unloaded exactly when they are gone (cb_node_unload()).   *)
ParentsExact ==
  \A n \in Nodes : tree.mem[n].in =>
    LET m == tree.mem[n]
    IN  /\ n \in Reachable /\ m.hashed
        /\ n = tree.root => m.p.node = NULL /\ tree.troot = n
        /\ n # tree.root => /\ m.p.node # NULL /\ tree.mem[m.p.node].in
                            /\ reiser4_place_valid(tree, m.p) /\ ItemAt(tree, m.p).ptr = n
        /\ m.lock = Cardinality({c \in Nodes : tree.mem[c].in /\ tree.mem[c].p.node = n})

(* Sibling pointers are set in pairs, between nodes in memory that really   *)
(* are neighbours on their level; and whenever an operation takes a node    *)
(* out of the cache ("Updates all neighbour pointers", tree.c:441), its     *)
(* pointers lead to nodes that are still there.                             *)
SiblingsExact == ~tree.stale /\ \A n \in Nodes :
  LET l == tree.mem[n].left
      r == tree.mem[n].right
      level == SelectSeq(TreeOrder(tree, tree.root), LAMBDA m : tree.level[m] = tree.level[n])
  IN  /\ l # NULL => tree.mem[l].in /\ tree.mem[l].right = n
      /\ r # NULL => /\ tree.mem[n].in /\ tree.mem[r].in /\ tree.mem[r].left = n
                     /\ \E i \in 1 .. Len(level) - 1 : level[i] = n /\ level[i + 1] = r

(* After every operation the pointers between the nodes in memory, up, left *)
(* and right, are those of the tree, whatever was unloaded under it.        *)
CacheExact == ~failed => ParentsExact /\ SiblingsExact

(* "Moves @place by one item to right" (libreiser4/tree.c:755): every item  *)
(* is found by its key, with the nodes to be loaded on the way, and walking *)
(* on from it, as reading a file and fsck's scan do, meets the next one.    *)
NextPlaceSteps == ~failed =>
  \A i \in 1 .. Len(Contents) :
    LET at   == reiser4_tree_lookup(tree, Contents[i].key, FALSE)
        next == reiser4_tree_next_place(at.t, at.place)
    IN  /\ at.found /\ ~next.t.bug
        /\ IF i = Len(Contents) THEN next.place.node = NULL
           ELSE next.place.node # NULL /\ ItemAt(next.t, next.place) = Contents[i + 1]

(* No operation fails an assertion (vpf-1793, vpf-1795, vpf-1796,           *)
(* umka-2316, umka-3075) or uses a node that memory pressure has unloaded   *)
(* under it.                                                                *)
NoBug == ~tree.bug
=============================================================================
