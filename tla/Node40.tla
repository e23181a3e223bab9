------------------------------- MODULE Node40 -------------------------------
(***************************************************************************)
(* A formatted node (plugin/node/node40) and the items in it, as operators *)
(* on a value [items |-> sequence of items, free |-> free space counter].  *)
(*                                                                         *)
(* An item is [key, kind, len].  The bodies and the offset arithmetic of   *)
(* node40_expand(), node40_copy() and node40_shrink() are abstracted to    *)
(* lengths; the free space counter is adjusted as the code does it.  A     *)
(* "tail" (plugin/item/plain40, tail40, body40) has one unit per byte and  *)
(* unit u has the key of the item plus u; it is the kind that balancing    *)
(* may split.  Every other kind is one unit and moves whole.               *)
(*                                                                         *)
(* Positions are the code's: item and unit count from 0 and unit           *)
(* MAX_UINT32 stands for the item as a whole.                              *)
(***************************************************************************)
EXTENDS Integers, Sequences, SequencesExt

CONSTANTS NodeSize,  \* bytes of a node after its header
          IhSize,    \* bytes of an item header
          KeySpan    \* body keys of one object: locality, objectid and the
                     \* rest make the quotient, the offset the remainder

MAX_UINT32 == 2147483647    \* the largest unsigned value

ASSUME NodeConstants ==
  /\ NodeSize \in Nat /\ IhSize \in Nat /\ KeySpan \in Nat
  /\ 0 < IhSize /\ IhSize < NodeSize /\ 0 < KeySpan
  /\ NodeSize < MAX_UINT32   \* no unit of a node is taken for a whole item

Pos(item, unit) == [item |-> item, unit |-> unit]

node40_init == [items |-> <<>>, free |-> NodeSize]

node40_items(n) == Len(n.items)

node40_space(n) == n.free

node40_overhead == IhSize

node40_maxspace == NodeSize - IhSize

Item(n, i) == n.items[i + 1]

SumLen(s) ==
  LET sum[i \in 0 .. Len(s)] == IF i = 0 THEN 0 ELSE sum[i - 1] + s[i].len
  IN  sum[Len(s)]

(* Bytes of the bodies of count items from pos on.                         *)
node40_size(n, item, count) == SumLen(SubSeq(n.items, item + 1, item + count))

-----------------------------------------------------------------------------
(* Items.                                                                   *)

Splittable(it) == it.kind = "tail"

Units(it) == IF it.kind = "tail" THEN it.len ELSE 1

tail40_maxreal_key(it) == it.key + it.len - 1

(* body40_maxposs_key(): the last offset of the object.                    *)
body40_maxposs_key(it) == (it.key \div KeySpan) * KeySpan + KeySpan - 1

(* reiser4_item_mergeable() and body40_mergeable().                        *)
reiser4_item_mergeable(left, right) ==
  /\ left.kind = right.kind
  /\ Splittable(left)
  /\ tail40_maxreal_key(left) + 1 = right.key

-----------------------------------------------------------------------------
(* Making room and closing it.                                              *)

(* Room for len bytes: count new items at pos, or more bytes in the item   *)
(* at pos.  Nothing at all happens for no bytes.                           *)
node40_expand(n, pos, len, new) ==
  IF len = 0 THEN n
  ELSE IF pos.unit = MAX_UINT32
  THEN [items |-> SubSeq(n.items, 1, pos.item) \o new \o
                  SubSeq(n.items, pos.item + 1, Len(n.items)),
        free  |-> n.free - len - Len(new) * IhSize]
  ELSE [items |-> [n.items EXCEPT ![pos.item + 1].len = @ + len],
        free  |-> n.free - len]

(* Takes count items away, or len bytes of the item at pos.                *)
node40_shrink(n, pos, len, count) ==
  IF pos.unit = MAX_UINT32
  THEN [items |-> SubSeq(n.items, 1, pos.item) \o
                  SubSeq(n.items, pos.item + count + 1, Len(n.items)),
        free  |-> n.free + len + count * IhSize]
  ELSE [items |-> [n.items EXCEPT ![pos.item + 1].len = @ - len],
        free  |-> n.free + len]

(* node40_modify() for an item or for units of a tail: the body is written *)
(* where expand made room.                                                 *)
node40_modify(n, pos, it, len) == node40_expand(n, pos, len, <<[it EXCEPT !.len = len]>>)

(* Whole items only: removing units is what node40_trunc() is for.         *)
node40_remove(n, item, count) ==
  node40_shrink(n, Pos(item, MAX_UINT32), node40_size(n, item, count), count)

(* Mutant: cut at its start, the item keeps its key.                       *)
TruncKeepsKey(n, pos, want) ==
  LET it    == Item(n, pos.item)
      unit  == IF pos.unit = MAX_UINT32 THEN 0 ELSE pos.unit
      count == IF unit + want > it.len THEN it.len - unit ELSE want
  IN  IF count >= it.len
      THEN node40_shrink(n, Pos(pos.item, MAX_UINT32), it.len, 1)
      ELSE node40_shrink(n, Pos(pos.item, 0), count, 1)

(* tail40_trunc_units() drops count units from unit on; what is left keeps *)
(* its place, with a new key if the first unit is gone.                    *)
node40_trunc(n, pos, want) ==
  LET it    == Item(n, pos.item)
      unit  == IF pos.unit = MAX_UINT32 THEN 0 ELSE pos.unit
      count == IF unit + want > it.len THEN it.len - unit ELSE want
      cut   == node40_shrink(n, Pos(pos.item, 0), count, 1)
  IN  IF count >= it.len
      THEN node40_shrink(n, Pos(pos.item, MAX_UINT32), it.len, 1)
      ELSE IF unit = 0
      THEN [cut EXCEPT !.items[pos.item + 1].key = @ + count]
      ELSE cut

node40_set_key(n, item, key) == [n EXCEPT !.items[item + 1].key = key]
=============================================================================
