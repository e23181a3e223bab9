------------------------------- MODULE Cde40 -------------------------------
(***************************************************************************)
(* The items of one directory in two neighbouring nodes: entries are added *)
(* and removed, the balancing shifts units between the nodes while an      *)
(* insertion waits for room, items are merged, fsck merges what it found   *)
(* elsewhere, and a body is damaged, checked and repaired.  The ghost ents *)
(* is what the directory must hold.                                        *)
(***************************************************************************)
EXTENDS Cde40Check

CONSTANTS
  Pool,           \* the entries that may be added: [key, obj, name]
  Cap,            \* cells an item may have in its node
  MaxDamage       \* how many cells are damaged at once

VARIABLES
  left, right,    \* the directory's items
  pend, point,    \* the entry waiting to be inserted, and where
  ents,           \* ghost: the entries the directory should hold
  phase,          \* "live", "damaged" or the mode of the last check
  res             \* ghost: what the last check reported, with the item before

vars == <<left, right, pend, point, ents, phase, res>>

Dot == [key |-> 0, obj |-> 1, name |-> <<>>]

NoEntry == [key |-> -1, obj |-> 0, name |-> <<>>]

Nowhere == [side |-> "none", unit |-> 0]

Unchecked == [errors |-> {}, good |-> NoItem, before |-> NoItem]

\* A directory is made with the entry of itself.
Empty == cde40_insert_units(NoItem, 0, Dot)

Init ==
  /\ left = Empty
  /\ right = NoItem
  /\ pend = NoEntry
  /\ point = Nowhere
  /\ ents = {Dot}
  /\ phase = "live"
  /\ res = Unchecked

Side(s) == IF s = "left" THEN left ELSE right

\* The node a key belongs to, and the unit it has or would have there.
Where(key) ==
  LET s == IF right # NoItem /\ (left = NoItem \/ key >= right.key) THEN "right" ELSE "left"
      l == cde40_lookup(Side(s).m, key)
  IN [side |-> s, unit |-> l.pos, found |-> l.found]

AddStart ==
  /\ phase = "live" /\ pend = NoEntry
  /\ \E e \in Pool :
       /\ ~Where(e.key).found
       /\ pend' = e
       /\ point' = [side |-> Where(e.key).side, unit |-> Where(e.key).unit]
  /\ UNCHANGED <<left, right, ents, phase, res>>

AddInsert ==
  /\ pend # NoEntry
  /\ \E new \in {cde40_insert_units(Side(point.side), point.unit, pend)} :
        /\ Len(new.m) <= Cap
        /\ left' = IF point.side = "left" THEN new ELSE left
        /\ right' = IF point.side = "right" THEN new ELSE right
  /\ ents' = ents \cup {pend}
  /\ pend' = NoEntry /\ point' = Nowhere
  /\ UNCHANGED <<phase, res>>

\* No node could make room.
AddCancel ==
  /\ pend # NoEntry
  /\ pend' = NoEntry /\ point' = Nowhere
  /\ UNCHANGED <<left, right, ents, phase, res>>

RemoveEntry ==
  /\ phase = "live" /\ pend = NoEntry
  /\ \E e \in ents \ {Dot} :
       LET w == Where(e.key)
       IN /\ left' = IF w.side = "left" THEN cde40_remove_units(left, w.unit) ELSE left
          /\ right' = IF w.side = "right" THEN cde40_remove_units(right, w.unit) ELSE right
          /\ ents' = ents \ {e}
  /\ UNCHANGED <<pend, point, phase, res>>

\* The balancing: as many units as fit go from one node to the other, while
\* the insert point may be in either.
Shift(from, to) ==
  /\ phase = "live" /\ Side(from) # NoItem
  /\ \E movable \in BOOLEAN :
       LET toLeft == to = "left"
           src == Side(from)
           dst == Side(to)
           at  == IF point.side = from THEN point.unit ELSE -1
           dunits == IF dst = NoItem THEN 0 ELSE cde_get_units(dst.m)
       IN /\ movable => at >= 0
          /\ \E hint \in {cde40_prep_shift(src.m, dunits, toLeft, Cap - Len(dst.m),
                                           dst = NoItem, at, movable)} :
               /\ hint.number > 0
               /\ \E moved \in {cde40_shift_units(src, dst, toLeft, hint)} :
                    /\ left' = IF toLeft THEN moved.dst ELSE moved.src
                    /\ right' = IF toLeft THEN moved.src ELSE moved.dst
               /\ point' =
                    CASE hint.crossed -> [side |-> to, unit |-> hint.point]
                      [] ~hint.crossed /\ at >= 0 -> [side |-> from, unit |-> hint.point]
                      [] point.side = to /\ ~toLeft -> [point EXCEPT !.unit = @ + hint.number]
                      [] OTHER -> point
  /\ UNCHANGED <<pend, ents, phase, res>>

ShiftLeft == Shift("right", "left")
ShiftRight == Shift("left", "right")

\* The right node's item comes to lie behind the left one and is fused.
Merge ==
  /\ phase = "live" /\ pend = NoEntry
  /\ left # NoItem /\ right # NoItem
  /\ Len(left.m) + Len(right.m) - cde_size <= Cap
  /\ left' = cde40_merge(left, right)
  /\ right' = NoItem
  /\ UNCHANGED <<pend, point, ents, phase, res>>

\* An item of the entries of F.
ItemOf(F) ==
  LET es == SetToSortSeq(F, LAMBDA a, b : a.key < b.key)
      upto[i \in 0 .. Cardinality(F)] ==
        IF i = 0 THEN NoItem ELSE cde40_insert_units(upto[i - 1], i - 1, es[i])
  IN upto[Cardinality(F)]

\* fsck adds an item of the same directory found in a node outside the tree.
\* Where both have an entry of one key, the directory keeps its own.
AddFound ==
  /\ phase = "live" /\ pend = NoEntry /\ right = NoItem
  /\ \E F \in SUBSET Pool \ {{}} : \E src \in {ItemOf(F)} :
       \E done \in {repair_tree_insert(left.m, src.m)} :
          /\ Len(done.dst) <= Cap
          /\ left' = [left EXCEPT !.m = done.dst]
          /\ right' = IF done.extra = <<>> THEN NoItem
                      ELSE [key |-> cde40_get_hash(done.extra, 0), m |-> done.extra]
          /\ ents' = ents \cup {e \in F : \A d \in ents : d.key # e.key}
  /\ UNCHANGED <<pend, point, phase, res>>

-----------------------------------------------------------------------------
(* Damage to the fields of the left item, and its check.                   *)

\* The cells a damage may hit: the number of units and the headers.
Fields(m) == 0 .. cde40_entry(cde_get_units(m)) - 1

Damage ==
  /\ phase = "live" /\ pend = NoEntry /\ left # NoItem
  /\ \E D \in kSubset(MaxDamage, Fields(left.m)), v, w \in 0 .. Len(left.m) :
       LET a == Min(D)
           b == Max(D)
       IN left' = [left EXCEPT !.m = Put(Put(@, a, v), b, w)]
  /\ left' # left
  /\ phase' = "damaged"
  /\ res' = [res EXCEPT !.good = left]
  /\ UNCHANGED <<right, pend, point, ents>>

CheckStruct(mode) ==
  /\ phase \in {"live", "damaged"} /\ pend = NoEntry /\ left # NoItem
  /\ \E c \in {cde40_check_struct(left, mode)} :
        /\ left' = c.item
        /\ res' = [res EXCEPT !.errors = c.res, !.before = left]
        /\ phase' = mode
  /\ UNCHANGED <<right, pend, point, ents>>

\* The checker is done with the item; the directory is made anew.
Over ==
  /\ phase \in {"check", "fix", "build"}
  /\ left' = Empty /\ right' = NoItem
  /\ ents' = {Dot}
  /\ phase' = "live" /\ res' = Unchecked
  /\ UNCHANGED <<pend, point>>

Next ==
  \/ AddStart \/ AddInsert \/ AddCancel \/ RemoveEntry
  \/ ShiftLeft \/ ShiftRight \/ Merge \/ AddFound
  \/ Damage \/ Over
  \/ \E mode \in {"check", "fix", "build"} : CheckStruct(mode)

Spec == Init /\ [][Next]_vars

-----------------------------------------------------------------------------
\* A body that the item code could have made: the headers in key order, the
\* entry bodies behind them without a gap, up to the item's end.
BodyFormed(m) ==
  LET u == cde_get_units(m)
  IN /\ u > 0
     /\ cde_get_offset(m, 0) = cde40_entry(u)
     /\ \A i \in 0 .. u - 1 : cde40_get_len(m, i) \in {ShortLen} \cup (LongLen .. Len(m))
     /\ \A i \in 0 .. u - 1 :
          cde_get_offset(m, i) + cde40_get_len(m, i)
            = IF i = u - 1 THEN Len(m) ELSE cde_get_offset(m, i + 1)
     /\ \A i \in 1 .. u - 1 : cde40_get_hash(m, i - 1) <= cde40_get_hash(m, i)

WellFormed(item) == BodyFormed(item.m) /\ cde40_get_hash(item.m, 0) = item.key

EntriesOf(item) == IF item = NoItem THEN <<>> ELSE Entries(item.m)

\* Insertions, removals, shifts and merges by several callers leave bodies
\* without a gap or overlap, and between them they hold every entry once.
BodyExact ==
  phase = "live" =>
    /\ \A i \in {left, right} \ {NoItem} : WellFormed(i)
    /\ LET all == EntriesOf(left) \o EntriesOf(right)
       IN /\ ToSet(all) = ents
          /\ Len(all) = Cardinality(ents)
          /\ \A i \in 1 .. Len(all) - 1 : all[i].key < all[i + 1].key

\* The checker tells good items from bad ones: what the item code makes is
\* accepted by every mode and left alone, and an item it has nothing to say
\* about is well formed.
CheckSound ==
  /\ (phase \in {"check", "fix", "build"} /\ res.good = NoItem)
       => res.errors = {} /\ left = res.before
  /\ (phase \in {"check", "fix"} /\ res.errors = {}) => WellFormed(left)
=============================================================================
