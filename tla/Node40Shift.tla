----------------------------- MODULE Node40Shift ----------------------------
(***************************************************************************)
(* node40_shift(): moving items and units of a node into a neighbour, with *)
(* the insert point carried along.  Everything works on a value            *)
(*    [src, dst |-> the two nodes, hint |-> the shift hint].               *)
(* The control flags of the hint are booleans: left (SF_ALLOW_LEFT, right  *)
(* otherwise), update (SF_UPDATE_POINT), move (SF_MOVE_POINT), merge       *)
(* (SF_ALLOW_MERGE).  moved is SF_MOVE_POINT in the result, changed the    *)
(* hint's own "update" flag.                                               *)
(***************************************************************************)
EXTENDS Node40

Hint(left, update, move, merge, pos) ==
  [left |-> left, update |-> update, move |-> move, merge |-> merge, pos |-> pos,
   moved |-> FALSE, changed |-> FALSE, create |-> FALSE,
   items_number |-> 0, items_bytes |-> 0, units_number |-> 0, units_bytes |-> 0]

(* The item of n on the left or on the right border.                       *)
node40_border(n, left) == IF left THEN 0 ELSE node40_items(n) - 1

-----------------------------------------------------------------------------
(* Units.                                                                   *)

(* The tail at item i gives space bytes; reached tells that this takes the *)
(* insert point to the border it is moved across.                          *)
UnitsPoint(h, point, space, reached, dstlen) ==
  [h EXCEPT !.units_bytes = space, !.units_number = space,
            !.moved = @ \/ reached,
            !.pos.unit = IF ~point \/ (~h.left /\ ~reached) THEN @
                         ELSE IF ~h.left THEN 0
                         ELSE IF reached THEN space + dstlen ELSE @ - space]

UnitsReach(h, it, point, space, dstlen) ==
  UnitsPoint(h, point, space,
    /\ point /\ h.move
    /\ IF h.left THEN space = h.pos.unit
       ELSE h.pos.unit < it.len => space = it.len - h.pos.unit, dstlen)

(* How many bytes of the tail at item i go to a neighbour with the room    *)
(* the hint allows, dstlen being the length of the tail they join.         *)
tail40_prep_shift(h, i, it, dstlen) ==
  LET point == h.update /\ i = h.pos.item /\ h.pos.unit # MAX_UINT32
      fit(limit) == IF h.units_bytes > limit THEN limit ELSE h.units_bytes
      limit == IF ~point THEN it.len
               ELSE IF h.left THEN h.pos.unit
               ELSE IF h.pos.unit < it.len THEN it.len - h.pos.unit ELSE 0
  IN  IF h.units_bytes = 0
      THEN [h EXCEPT !.units_number = 0]
      ELSE UnitsReach(h, it, point, fit(limit), dstlen)

(* The units of it that go, as a tail of their own.                        *)
SentTail(h, it) ==
  [it EXCEPT !.len = h.units_number,
             !.key = IF h.left THEN @ ELSE @ + (it.len - h.units_number)]

(* Mutant: the tail that grows at its start keeps its key.                 *)
ShiftUnitsKeepsKey(dst, h, it) ==
  LET k == h.units_number
      d == IF h.left THEN node40_items(dst) - 1 ELSE 0
  IN  IF h.create
      THEN node40_expand(dst, Pos(IF h.left THEN d + 1 ELSE 0, MAX_UINT32), k, <<SentTail(h, it)>>)
      ELSE node40_expand(dst, Pos(d, 0), k, <<>>)

(* Where units land: in the tail at the border of dst, or in a new one.    *)
tail40_shift_units(dst, h, it) ==
  LET k == h.units_number
      d == IF h.left THEN node40_items(dst) - 1 ELSE 0
      grown == node40_expand(dst, Pos(d, 0), k, <<>>)
  IN  IF h.create
      THEN node40_expand(dst, Pos(IF h.left THEN d + 1 ELSE 0, MAX_UINT32), k, <<SentTail(h, it)>>)
      ELSE IF h.left THEN grown
      ELSE node40_set_key(grown, 0, Item(grown, 0).key - k)

(* What stays in src: the empty tail goes, and the insert point follows.   *)
Drained(src, h, i, it) ==
  LET k == h.units_number
      rest == node40_shrink(src, Pos(i, 0), k, 1)
      here == i = h.pos.item
      point == [item |-> IF ~h.moved /\ i < h.pos.item THEN h.pos.item - 1 ELSE h.pos.item,
                unit |-> IF here THEN MAX_UINT32 ELSE h.pos.unit]
  IN  IF k = Units(it)
      THEN [src  |-> node40_shrink(src, Pos(i, MAX_UINT32), it.len, 1),
            hint |-> [h EXCEPT !.pos = point]]
      ELSE [src  |-> IF h.left THEN node40_set_key(rest, i, it.key + k) ELSE rest,
            hint |-> h]

(* The units that the hint counts go over.                                 *)
SendUnits(s, i, it) ==
  IF s.hint.units_number = 0 THEN s
  ELSE LET rest == Drained(s.src, [s.hint EXCEPT !.changed = TRUE], i, it)
       IN  [src |-> rest.src, dst |-> tail40_shift_units(s.dst, s.hint, it), hint |-> rest.hint]

(* The point that went along is in the border item of the neighbour, item. *)
SentPoint(h, item) ==
  IF h.update /\ h.moved THEN [h EXCEPT !.pos.item = item] ELSE h

(* The hint has the room in dst; neig is the item of dst that item i of    *)
(* src, it, would join.                                                    *)
UniteItem(s, i, it, neig, joins, create) ==
  LET h  == [s.hint EXCEPT !.create = ~joins]
      di == node40_items(s.dst)
  IN  IF ~joins # create \/ (create /\ h.units_bytes <= node40_overhead)
      THEN [s EXCEPT !.hint = h]
      ELSE SendUnits([s EXCEPT !.hint = SentPoint(
             tail40_prep_shift(IF create THEN [h EXCEPT !.units_bytes = @ - node40_overhead] ELSE h,
                               i, it, IF joins THEN neig.len ELSE 0),
             IF ~h.left THEN 0 ELSE IF create THEN di ELSE di - 1)], i, it)

UniteBorder(s, i, it, neig, create) ==
  UniteItem(s, i, it, neig,
    node40_items(s.dst) > 0 /\
      IF s.hint.left THEN reiser4_item_mergeable(neig, it) ELSE reiser4_item_mergeable(it, neig),
    create)

(* Merges the border items: into the tail of the neighbour when create is  *)
(* FALSE, into a new one when it is TRUE.                                  *)
node40_unite(s, create) ==
  LET h  == [s.hint EXCEPT !.units_bytes = node40_space(s.dst)]
      si == node40_items(s.src)
      i  == node40_border(s.src, h.left)
      onborder == /\ h.update /\ h.pos.unit = MAX_UINT32
                  /\ h.pos.item = IF h.left THEN 0 ELSE si
  IN  IF si = 0 \/ h.units_bytes = 0 \/ onborder \/ ~Splittable(Item(s.src, i))
      THEN [s EXCEPT !.hint = h]
      ELSE UniteBorder([s EXCEPT !.hint = h], i, Item(s.src, i),
                       Item(s.dst, node40_border(s.dst, ~h.left)), create)

-----------------------------------------------------------------------------
(* Whole items.                                                             *)

(* One turn of the loop: may the border item, the last of the si left, go? *)
(* "stop" ends the loop before the item, "take" takes it along.  first is  *)
(* item 0 of src, the one the left shift looks at.                         *)
PredictTurn(h, si, di, it, first, space) ==
  LET take(g) == [go |-> TRUE, hint |-> g]
      stop(g) == [go |-> FALSE, hint |-> g]
      moved(item) == [h EXCEPT !.moved = TRUE, !.pos.item = item]
      p == h.pos
  IN  IF ~h.move /\ ~h.left /\ p.item >= si THEN stop(h)
      ELSE IF space < it.len + node40_overhead THEN stop(h)
      ELSE IF ~h.update THEN take(h)
      ELSE IF h.left
      THEN IF p.item # 0 THEN take([h EXCEPT !.pos.item = @ - 1])
           ELSE IF h.move /\ (p.unit = MAX_UINT32 \/ p.unit >= Units(first) - 1)
           THEN take(moved(di)) ELSE stop(h)
      ELSE IF p.item < si - 1 THEN take(h)
      ELSE IF p.item = si - 1
      THEN IF h.move /\ p.unit \in {MAX_UINT32, 0} THEN take(moved(0))
           ELSE IF p.unit # MAX_UINT32 THEN stop(h) ELSE take(h)
      ELSE stop(IF h.move THEN moved(0) ELSE h)

(* A turn after those that took t.hint.items_number items of src.  The hint *)
(* has the space left in its units_bytes.                                   *)
PredictNext(src, di, t) ==
  LET h  == t.hint
      si == node40_items(src) - h.items_number
      it == Item(src, IF h.left THEN h.items_number ELSE si - 1)
      turn == PredictTurn(h, si, di + h.items_number, it, Item(src, 0), h.units_bytes)
      taken == [turn.hint EXCEPT !.items_number = @ + 1, !.items_bytes = @ + it.len,
                                 !.units_bytes = @ - (it.len + node40_overhead)]
  IN  IF ~t.go \/ h.moved \/ si = 0 THEN [go |-> FALSE, hint |-> h]
      ELSE [go |-> turn.go, hint |-> IF turn.go THEN taken ELSE turn.hint]

node40_predict(s) ==
  LET start == [go |-> TRUE, hint |-> [s.hint EXCEPT !.units_bytes = node40_space(s.dst)]]
      after[k \in 0 .. node40_items(s.src)] ==
        IF k = 0 THEN start ELSE PredictNext(s.src, node40_items(s.dst), after[k - 1])
  IN  IF node40_items(s.src) = 0 THEN s.hint ELSE after[node40_items(s.src)].hint

MovePredicted(s, h) ==
  LET k == h.items_number
      from == IF h.left THEN 0 ELSE node40_items(s.src) - k
      to   == IF h.left THEN node40_items(s.dst) ELSE 0
  IN  IF k = 0 \/ h.items_bytes = 0
      THEN [s EXCEPT !.hint = h]
      ELSE [src  |-> node40_shrink(s.src, Pos(from, MAX_UINT32), h.items_bytes, k),
            dst  |-> node40_expand(s.dst, Pos(to, MAX_UINT32), h.items_bytes,
                                   SubSeq(s.src.items, from + 1, from + k)),
            hint |-> [h EXCEPT !.changed = TRUE]]

node40_move(s) == MovePredicted(s, node40_predict(s))

(* The later passes run while the insert point has not moved.              *)
SecondPass(s) == IF s.hint.moved THEN s ELSE node40_move(s)

(* A point that moved into a new item with no units of it is behind it.    *)
PointBehind(s) ==
  IF s.hint.update /\ s.hint.moved /\ s.hint.units_number = 0 /\ s.hint.create
  THEN [s EXCEPT !.hint.pos.unit = MAX_UINT32] ELSE s

(* Mutant: the third pass runs also after the insert point has moved.      *)
ThirdPassAlways(s) == PointBehind(node40_unite(s, TRUE))

ThirdPass(s) == IF s.hint.moved THEN s ELSE PointBehind(node40_unite(s, TRUE))

Shifted(err, s) == [err |-> err, src |-> s.src, dst |-> s.dst, hint |-> s.hint]

(* Mutant: the first pass, which merges the border items, is left out.     *)
ShiftWithoutFirstPass(src, dst, hint) ==
  Shifted(FALSE, ThirdPass(node40_move([src |-> src, dst |-> dst, hint |-> hint])))

(* The three passes.  err is TRUE where the code returns -EINVAL: without  *)
(* the permission to merge, both nodes must have a border item.            *)
node40_shift(src, dst, hint) ==
  LET s == [src |-> src, dst |-> dst, hint |-> hint]
      a == Item(src, node40_border(src, hint.left))
      b == Item(dst, node40_border(dst, ~hint.left))
  IN  IF hint.merge
      THEN Shifted(FALSE, ThirdPass(SecondPass(node40_unite(s, FALSE))))
      ELSE IF src.items = <<>> \/ dst.items = <<>> THEN Shifted(TRUE, s)
      ELSE Shifted(FALSE, IF reiser4_item_mergeable(a, b) THEN s ELSE node40_move(s))
=============================================================================
