----------------------------- MODULE Node40Pair -----------------------------
(***************************************************************************)
(* Two neighbour nodes of one level, filled and emptied by the node        *)
(* operations and rebalanced by node40_shift() in each of the modes the    *)
(* tree code asks for.                                                     *)
(***************************************************************************)
EXTENDS Node40Shift

CONSTANTS Objects,   \* bound: number of objects that own items
          MaxTail    \* bound: longest tail written at once

ASSUME PairConstants == Objects \in Nat /\ MaxTail \in Nat

VARIABLES left, right

vars == <<left, right>>

(* Stat data at offset 0 of an object, the body at the offsets after it.   *)
SdKeys == {o * KeySpan : o \in 0 .. Objects - 1}

BodyKeys == {k \in 0 .. Objects * KeySpan - 1 : k % KeySpan # 0}

Lens(kind) == IF kind = "tail" THEN 1 .. MaxTail ELSE 1 .. 2

NewItems ==
  {[key |-> k, kind |-> "sd", len |-> l] : k \in SdKeys, l \in Lens("sd")} \cup
  {[key |-> k, kind |-> "tail", len |-> l] : k \in BodyKeys, l \in Lens("tail")}

(* The last key an item holds and the first one after its object's room.   *)
LastKey(it) == IF Splittable(it) THEN tail40_maxreal_key(it) ELSE it.key

Fits(it) == LastKey(it) <= body40_maxposs_key(it)

Precedes(a, b) == LastKey(a) < b.key

Ordered(s) == \A i \in 1 .. Len(s) - 1 : Precedes(s[i], s[i + 1])

(* What a pair of nodes holds, unit by unit.                                *)
UnitKeys(it) == [u \in 1 .. Units(it) |-> <<it.kind, it.key + u - 1>>]

Flat(s) == FlattenSeq([i \in 1 .. Len(s) |-> UnitKeys(s[i])])

-----------------------------------------------------------------------------

Init == left = node40_init /\ right = node40_init

Put(m, isleft) == IF isleft THEN left' = m /\ UNCHANGED right
                            ELSE right' = m /\ UNCHANGED left

(* The body of a file has no gaps: holes are written as zeroes.  The first *)
(* tail may start anywhere, its beginning having been converted already.   *)
Body(it) == {x \in ToSet(left.items \o right.items) :
               Splittable(x) /\ x.key \div KeySpan = it.key \div KeySpan}

IsFirst(it) == \A x \in Body(it) : it.key <= x.key

IsLast(it) == \A x \in Body(it) : x.key <= it.key

(* tree_insert() or tree_write() of a new item.  A new tail in front of the *)
(* node is what writing behind a tail becomes when the node of that tail    *)
(* has no room.                                                             *)
Insert ==
  \E isleft \in BOOLEAN, it \in NewItems : \E i \in 0 .. node40_items(IF isleft THEN left ELSE right) :
    LET n == IF isleft THEN left ELSE right
        m == node40_modify(n, Pos(i, MAX_UINT32), it, it.len)
    IN  /\ Fits(it)
        /\ Splittable(it) /\ Body(it) # {} =>
             /\ ~isleft /\ i = 0
             /\ \E x \in Body(it) : IsLast(x) /\ reiser4_item_mergeable(x, it)
        /\ node40_space(n) >= it.len + node40_overhead
        /\ Ordered(IF isleft THEN m.items \o right.items ELSE left.items \o m.items)
        /\ Put(m, isleft)

(* Writing behind the last unit of the last tail of a file.                 *)
AppendUnits ==
  \E isleft \in BOOLEAN, k \in 1 .. MaxTail : \E i \in 0 .. node40_items(IF isleft THEN left ELSE right) - 1 :
    LET n  == IF isleft THEN left ELSE right
        it == Item(n, i)
    IN  /\ Splittable(it) /\ IsLast(it)
        /\ node40_space(n) >= k
        /\ Fits([it EXCEPT !.len = @ + k])
        /\ Put(node40_modify(n, Pos(i, it.len), it, k), isleft)

(* An item goes as a whole: stat data, or a tail at either end of its body. *)
RemoveItem ==
  \E isleft \in BOOLEAN : \E i \in 0 .. node40_items(IF isleft THEN left ELSE right) - 1 :
    LET n  == IF isleft THEN left ELSE right
        it == Item(n, i)
    IN  /\ Splittable(it) => IsFirst(it) \/ IsLast(it)
        /\ Put(node40_remove(n, i, 1), isleft)

(* Tail conversion eats a tail from its start, truncation from its end.     *)
Truncate ==
  \E i \in 0 .. node40_items(right) - 1, u \in 0 .. MaxTail, k \in 1 .. MaxTail :
    /\ Splittable(Item(right, i))
    /\ u < Item(right, i).len
    /\ \/ u = 0 /\ IsFirst(Item(right, i))
       \/ u + k = Item(right, i).len /\ IsLast(Item(right, i))
    /\ right' = node40_trunc(right, Pos(i, u), k) /\ UNCHANGED left

(* Every insert point of a node: before an item, inside or behind a tail,   *)
(* behind the last item.                                                    *)
Points(n) ==
  {Pos(i, MAX_UINT32) : i \in 0 .. node40_items(n)} \cup
  {Pos(i, u) : i \in {j \in 0 .. node40_items(n) - 1 : Splittable(Item(n, j))}, u \in 0 .. NodeSize}

GoodPoints(n) ==
  {p \in Points(n) : p.unit # MAX_UINT32 => p.unit <= Item(n, p.item).len}

(* tree_shift_todir() towards either side, with the insert point held.      *)
ToLeft(p) == node40_shift(right, left, Hint(TRUE, TRUE, FALSE, TRUE, p))

ToRight(p) == node40_shift(left, right, Hint(FALSE, TRUE, FALSE, TRUE, p))

(* reiser4_tree_shrink(): pack to the left, no insert point.                *)
PackLeft == node40_shift(right, left, Hint(TRUE, FALSE, FALSE, TRUE, Pos(0, MAX_UINT32)))

(* The last try of reiser4_tree_expand(): into a new node, with the         *)
(* permission to take the insert point along.                               *)
ToNew(p) == node40_shift(left, node40_init, Hint(FALSE, TRUE, TRUE, TRUE, p))

(* ToNew is used in the first try at the end of the node and in the second  *)
(* one, which the first one has left at the end as well.                    *)
Rightmost(n, p) ==
  \/ p.item = node40_items(n)
  \/ p.item = node40_items(n) - 1 /\ p.unit = Units(Item(n, p.item))

Rebalanced(r, toleft) ==
  /\ left'  = IF toleft THEN r.dst ELSE r.src
  /\ right' = IF toleft THEN r.src ELSE r.dst

Shift ==
  \/ \E p \in GoodPoints(right) : Rebalanced(ToLeft(p), TRUE)
  \/ \E p \in GoodPoints(left) : Rebalanced(ToRight(p), FALSE)
  \/ Rebalanced(PackLeft, TRUE)
  \/ /\ right.items = <<>>
     /\ \E p \in GoodPoints(left) : Rebalanced(ToNew(p), FALSE)

Next == Insert \/ AppendUnits \/ RemoveItem \/ Truncate \/ Shift

Spec == Init /\ [][Next]_vars

-----------------------------------------------------------------------------

(* The free space counter of the node header, adjusted by every function    *)
(* on its own account, is what headers and bodies leave free; and "there    *)
(* should not be mergeable items in the same node" (node40.c, the first     *)
(* pass of node40_shift()).                                                 *)
NodesSound == \A n \in {left, right} :
  /\ n.free = NodeSize - SumLen(n.items) - node40_items(n) * node40_overhead
  /\ \A i \in 1 .. node40_items(n) - 1 : ~reiser4_item_mergeable(n.items[i], n.items[i + 1])

Holds(r, toleft) ==
  Flat(IF toleft THEN r.dst.items \o r.src.items ELSE r.src.items \o r.dst.items)

(* A shift loses nothing, doubles nothing and keeps the key order, whatever *)
(* the mode, the fill and the insert point: unit by unit the two nodes hold *)
(* what they held before.                                                   *)
ShiftKeepsUnits ==
  LET before == Flat(left.items \o right.items)
  IN  /\ \A p \in GoodPoints(right) : Holds(ToLeft(p), TRUE) = before
      /\ \A p \in GoodPoints(left) : Holds(ToRight(p), FALSE) = before
      /\ Holds(PackLeft, TRUE) = before
      /\ \A p \in GoodPoints(left) : Holds(ToNew(p), FALSE) = Flat(left.items)

(* The number of units in front of an insert point, which exists only while *)
(* the item it names does (assertion vpf-1793 of reiser4_tree_expand()).    *)
Gap(s, p) ==
  Len(Flat(SubSeq(s, 1, p.item))) + (IF p.unit = MAX_UINT32 THEN 0 ELSE p.unit)

Exists(n, p) == p.unit # MAX_UINT32 => p.item < node40_items(n) /\ p.unit <= Units(Item(n, p.item))

PointAt(n, p, front, gap) == Exists(n, p) /\ Len(Flat(front)) + Gap(n.items, p) = gap

(* r was shifted to the left, to the right, or to a new right neighbour; in *)
(* the last case the point may have gone there.                             *)
KeptLeft(r, gap) == PointAt(r.src, r.hint.pos, r.dst.items, gap)

KeptRight(r, gap) == PointAt(r.src, r.hint.pos, <<>>, gap)

Followed(r, gap) ==
  IF r.hint.moved THEN PointAt(r.dst, r.hint.pos, r.src.items, gap) ELSE KeptRight(r, gap)

(* After a shift with SF_UPDATE_POINT the insert point still separates the  *)
(* same units, so that what is inserted there goes in at its key, also      *)
(* where the point may move into the new node.                              *)
PointKept ==
  /\ \A p \in GoodPoints(right) :
       KeptLeft(ToLeft(p), Len(Flat(left.items)) + Gap(right.items, p))
  /\ \A p \in GoodPoints(left) : KeptRight(ToRight(p), Gap(left.items, p))
  /\ \A p \in GoodPoints(left) : Rightmost(left, p) => Followed(ToNew(p), Gap(left.items, p))
=============================================================================
