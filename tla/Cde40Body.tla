----------------------------- MODULE Cde40Body -----------------------------
(***************************************************************************)
(* The body of a compound directory entry item (src/plugin/item/cde40).    *)
(* A body is a sequence of cells, addressed from 0 as in C: the number of  *)
(* units, then one header (key, offset of the entry's body) per unit, then *)
(* the entry bodies one after the other: the key of the object and, when   *)
(* the entry's key is a hash, the name and its terminating zero.  One cell *)
(* stands for one field, so the sizes below are those of cde40.h scaled    *)
(* down; what the code compares with one another keeps its order           *)
(* (short entry < long entry, two short entries >= one minimal long one).  *)
(***************************************************************************)
EXTENDS Integers, Sequences, FiniteSets, SequencesExt, FiniteSetsExt

CONSTANTS
  HashedFrom,     \* keys from here on are hashes: the name is in the body
  Junk            \* what a cell the node has just given to the item holds

cde_size == 1                       \* sizeof(cde40_t)
en_size == 2                        \* a unit header: key, offset
ob_size == 2                        \* an objid: locality, objectid
NameMin == 2                        \* one character and the zero
ShortLen == ob_size                 \* ENTRY_LEN_MIN(S_NAME)
LongLen == ob_size + NameMin        \* ENTRY_LEN_MIN(L_NAME)

\* A cell; an address outside the body reads as Junk.
At(m, a) == IF a \in 0 .. Len(m) - 1 THEN m[a + 1] ELSE Junk

Put(m, a, v) == [m EXCEPT ![a + 1] = v]

\* The body m with its cell at a replaced by Cell(a).
Rewritten(m, Cell(_)) == SubSeq([i \in DOMAIN m |-> Cell(i - 1)], 1, Len(m))

\* memcpy() of n cells of src at s to address d of m, and memmove() in m.
Copy(m, d, src, s, n) ==
  Rewritten(m, LAMBDA a : IF a \in d .. d + n - 1 THEN At(src, a - d + s) ELSE At(m, a))

Move(m, d, s, n) == Copy(m, d, m, s, n)

hashed(key) == key >= HashedFrom

cde_get_units(m) == At(m, 0)
cde_inc_units(m, n) == Put(m, 0, m[1] + n)

cde40_entry(pos) == cde_size + en_size * pos
cde40_get_hash(m, pos) == At(m, cde40_entry(pos))
cde_get_offset(m, pos) == At(m, cde40_entry(pos) + 1)
cde_set_offset(m, pos, off) == Put(m, cde40_entry(pos) + 1, off)

\* The offsets of the units of S, increased by n.
inc_offsets(m, S, n) ==
  Rewritten(m, LAMBDA a : IF \E u \in S : a = cde40_entry(u) + 1
                           THEN At(m, a) + n ELSE At(m, a))

\* The offsets of the units from start on, set to those of off.
set_offsets(m, start, off) ==
  Rewritten(m, LAMBDA a : IF \E k \in DOMAIN off : a = cde40_entry(start + k) + 1
                          THEN off[CHOOSE k \in DOMAIN off : a = cde40_entry(start + k) + 1]
                          ELSE At(m, a))

\* aal_strlen() from address a; a missing zero is found at the body's end.
strlen(m, a) == Min({n \in 0 .. Len(m) : At(m, a + n) = 0 \/ a + n >= Len(m)})

cde40_get_obj(m, pos) == At(m, cde_get_offset(m, pos) + ob_size - 1)

\* The name: its characters in the body, or <<>> when it is in the key.
cde40_get_name(m, pos) ==
  LET a == cde_get_offset(m, pos) + ob_size
  IN IF hashed(cde40_get_hash(m, pos))
     THEN [i \in 1 .. strlen(m, a) |-> At(m, a + i - 1)] ELSE <<>>

\* Length of one entry's body.
cde40_get_len(m, pos) ==
  IF hashed(cde40_get_hash(m, pos))
  THEN ob_size + strlen(m, cde_get_offset(m, pos) + ob_size) + 1
  ELSE ob_size

\* Length of the bodies of count units from pos on.
cde40_regsize(m, pos, count) ==
  CASE count = 0 -> 0
    [] count > 0 /\ pos + count < cde_get_units(m) ->
         cde_get_offset(m, pos + count) - cde_get_offset(m, pos)
    [] OTHER -> cde_get_offset(m, pos + count - 1) + cde40_get_len(m, pos + count - 1)
                  - cde_get_offset(m, pos)

-----------------------------------------------------------------------------
(* Making and closing gaps.  The node has already lengthened the item when *)
(* cde40_expand() runs, and shortens it after cde40_cut().                 *)

\* Room for count units of len cells, headers included, at pos: the new
\* body and the address of the first new entry.
cde40_expand(m, pos, count, len) ==
  LET units   == cde_get_units(m)
      headers == count * en_size
      offset  == CASE units = 0 -> cde_size
                   [] units > 0 /\ pos < units -> cde_get_offset(m, pos)
                   [] OTHER -> cde_get_offset(m, units - 1) + cde40_get_len(m, units - 1)
      first   == (units - pos) * en_size + cde40_regsize(m, 0, pos)
      second  == cde40_regsize(m, pos, units - pos)
      off     == inc_offsets(inc_offsets(m, 0 .. pos - 1, headers), pos .. units - 1, len)
      bodies  == IF pos < units THEN Move(off, offset + len, offset, second) ELSE off
  IN [m |-> Move(bodies, cde40_entry(pos) + headers, cde40_entry(pos), first),
      offset |-> offset + headers]

\* As a slip would have it: where the copied bodies start is taken from the
\* unit at dpos, whose offset cde40_expand() has already moved.
CopyByRegsize(m, dpos, src, spos, count) ==
  LET units   == cde_get_units(m)
      headers == count * en_size
      start   == cde_size + units * en_size + headers + cde40_regsize(m, 0, dpos)
      heads   == Copy(m, cde40_entry(dpos), src, cde40_entry(spos), headers)
      bodies  == Copy(heads, start, src, cde_get_offset(src, spos),
                      cde40_regsize(src, spos, count))
      off[k \in 0 .. count] ==
        IF k = 0 THEN start ELSE off[k - 1] + cde40_get_len(src, spos + k - 1)
  IN cde_inc_units(set_offsets(bodies, dpos, [k \in 0 .. count - 1 |-> off[k]]), count)

\* Copies count units of src at spos to dpos of m, where room has been made.
cde40_copy(m, dpos, src, spos, count) ==
  LET units   == cde_get_units(m)
      headers == count * en_size
      before  == IF dpos = 0 THEN 0
                 ELSE cde40_regsize(m, 0, dpos - 1) + cde40_get_len(m, dpos - 1)
      start   == cde_size + units * en_size + headers + before
      heads   == Copy(m, cde40_entry(dpos), src, cde40_entry(spos), headers)
      bodies  == Copy(heads, start, src, cde_get_offset(src, spos),
                      cde40_regsize(src, spos, count))
      \* the offset of the k-th copied unit
      off[k \in 0 .. count] ==
        IF k = 0 THEN start ELSE off[k - 1] + cde40_get_len(src, spos + k - 1)
  IN cde_inc_units(set_offsets(bodies, dpos, [k \in 0 .. count - 1 |-> off[k]]), count)

\* Removes count units at pos of an item of len cells: the new body, whose
\* last cells are free, and how many they are.
cde40_cut(m, pos, count0, len) ==
  LET units   == cde_get_units(m)
      count   == IF pos + count0 > units THEN units - pos ELSE count0
      headers == count * en_size
      first   == (units - (pos + count)) * en_size + cde40_regsize(m, 0, pos)
      atEnd   == pos + count = units
      second  == IF atEnd THEN 0 ELSE len - cde_get_offset(m, pos + count)
      remove  == IF atEnd THEN len - cde_get_offset(m, pos) ELSE cde40_regsize(m, pos, count)
      moved   == inc_offsets(Move(m, cde40_entry(pos), cde40_entry(pos + count), first),
                             0 .. pos - 1, 0 - headers)
      src     == cde_get_offset(moved, pos)
      closed  == IF second <= 0 THEN moved
                 ELSE inc_offsets(Move(moved, src - (headers + remove), src, second),
                                  pos .. units - count - 1, 0 - (headers + remove))
  IN IF count = 0 THEN [m |-> m, len |-> 0]
     ELSE [m |-> cde_inc_units(closed, 0 - count), len |-> remove + headers]

cde40_shrink(m, pos, count) ==
  LET units == cde_get_units(m)
  IN cde40_cut(m, pos, count,
               cde_get_offset(m, units - 1) + cde40_get_len(m, units - 1))

\* cde40_delete(): the cells to give back; the item's overhead too when no
\* unit is left.
cde40_delete(m, pos, count) == cde40_shrink(m, pos, count)

-----------------------------------------------------------------------------
(* The item's methods.  An item is its key in the node and its body, an    *)
(* entry is [key, obj, name]; a node gives the item cells at its end.      *)

NoItem == [key |-> 0, m |-> <<>>]

Grow(m, n) == m \o [i \in 1 .. n |-> Junk]
Trim(m, n) == SubSeq(m, 1, Len(m) - n)

cde40_overhead == cde_size

EntryBody(e) == <<0, e.obj>> \o (IF hashed(e.key) THEN e.name \o <<0>> ELSE <<>>)

cde40_prep_insert(e) == en_size + Len(EntryBody(e))

\* Inserts e as unit pos; pos is None when the item itself is new.
cde40_insert_units(item, pos0, e) ==
  LET new    == item.m = <<>>
      pos    == IF new THEN 0 ELSE pos0
      len    == cde40_prep_insert(e)
      grown  == IF new THEN Put(Grow(<<>>, len + cde40_overhead), 0, 0) ELSE Grow(item.m, len)
      room   == cde40_expand(grown, pos, 1, len)
      head   == Copy(room.m, cde40_entry(pos), <<e.key, room.offset>>, 0, en_size)
      body   == Copy(head, room.offset, EntryBody(e), 0, Len(EntryBody(e)))
  IN [key |-> IF pos = 0 THEN e.key ELSE item.key, m |-> cde_inc_units(body, 1)]

\* Removes unit pos; the item goes when it was the last one.
cde40_remove_units(item, pos) ==
  LET cut == cde40_delete(item.m, pos, 1)
  IN IF cde_get_units(cut.m) = 0 THEN NoItem
     ELSE [key |-> IF pos = 0 THEN cde40_get_hash(cut.m, 0) ELSE item.key,
           m |-> Trim(cut.m, cut.len)]

\* How many units fit in space cells, taken from the left or right end of
\* src; create adds the overhead of a new item.  point is the unit the
\* insert point is at (-1: it is elsewhere); the units on its far side stay,
\* and it changes sides itself when movable and one more unit would fit.
cde40_prep_shift(src, dunits, toLeft, space, create, point, movable) ==
  LET units == cde_get_units(src)
      room  == IF create THEN space - cde_size ELSE space
      need(n) == n * en_size
                 + (IF toLeft THEN cde40_regsize(src, 0, n) ELSE cde40_regsize(src, units - n, n))
      fit   == Max({n \in 0 .. units : n = 0 \/ need(n) <= room})
      reach == CASE point < 0 -> units
                 [] point >= 0 /\ toLeft -> point
                 [] OTHER -> units - point
      number == IF fit < reach THEN fit ELSE reach
      crossed == point >= 0 /\ movable /\ fit > reach
  IN [number |-> number, bytes |-> need(number), crossed |-> crossed,
      point |-> CASE crossed /\ toLeft -> dunits + number
                  [] crossed /\ ~toLeft -> 0
                  [] ~crossed /\ toLeft /\ point >= 0 -> point - number
                  [] OTHER -> point]

\* Moves the predicted units from src to dst; the node lengthens dst before
\* and shortens or removes src afterwards.  What each of the two becomes:
Shortened(src, toLeft, bytes, rest) ==
  IF cde_get_units(rest) = 0 THEN NoItem
  ELSE [key |-> IF toLeft THEN cde40_get_hash(rest, 0) ELSE src.key, m |-> Trim(rest, bytes)]

Lengthened(dst, dpos, filled) ==
  [key |-> IF dpos = 0 THEN cde40_get_hash(filled, 0) ELSE dst.key, m |-> filled]

CopyUnits(m, dpos, src, spos, count, bytes) ==
  cde40_copy(cde40_expand(m, dpos, count, bytes).m, dpos, src, spos, count)

cde40_shift_units(src, dst, toLeft, hint) ==
  LET create == dst.m = <<>>
      grown  == IF create THEN Put(Grow(<<>>, hint.bytes + cde_size), 0, 0)
                ELSE Grow(dst.m, hint.bytes)
      spos   == IF toLeft THEN 0 ELSE cde_get_units(src.m) - hint.number
      dpos   == IF toLeft /\ ~create THEN cde_get_units(dst.m) ELSE 0
  IN [dst |-> Lengthened(dst, dpos, CopyUnits(grown, dpos, src.m, spos, hint.number, hint.bytes)),
      src |-> Shortened(src, toLeft, hint.bytes, cde40_shrink(src.m, spos, hint.number).m)]

\* Fuses two items that lie side by side in a node.
cde40_merge(left, right) ==
  LET lu     == cde_get_units(left.m)
      ru     == cde_get_units(right.m)
      size   == ru * en_size
      heads  == cde_size + lu * en_size
      tail   == SubSeq(right.m, cde_size + 1, Len(right.m))
      m      == cde_inc_units(left.m, ru) \o tail
      moved  == Copy(Move(m, heads + size, heads, Len(left.m) - heads), heads, tail, 0, size)
  IN [key |-> left.key,
      m   |-> inc_offsets(inc_offsets(moved, 0 .. lu - 1, size),
                          lu .. lu + ru - 1, Len(left.m) - cde_size)]

-----------------------------------------------------------------------------
(* Looking up a key.                                                       *)

\* aux_bin_search(): the unit whose key compares equal, or where it belongs.
aux_bin_search(m, key) ==
  LET count == cde_get_units(m)
      step[n \in 0 .. count] ==
        IF n = 0 THEN [left |-> 0, right |-> count - 1, pos |-> -1]
        ELSE LET s == step[n - 1]
                 i == (s.left + s.right) \div 2
                 k == cde40_get_hash(m, i)
             IN CASE s.pos >= 0 \/ s.left > s.right -> s
                  [] s.pos < 0 /\ s.left <= s.right /\ k < key -> [s EXCEPT !.left = i + 1]
                  [] s.pos < 0 /\ s.left <= s.right /\ k > key -> [s EXCEPT !.right = i - 1]
                  [] OTHER -> [s EXCEPT !.pos = i]
      end == step[count]
  IN [found |-> end.pos >= 0, pos |-> IF end.pos >= 0 THEN end.pos ELSE end.left]

\* The leftmost unit of an equal run.
cde40_lookup(m, key) ==
  LET s == aux_bin_search(m, key)
  IN IF ~s.found THEN s
     ELSE [found |-> TRUE,
           pos |-> Min({p \in 0 .. s.pos :
                          \A q \in p .. s.pos : cde40_get_hash(m, q) = key})]

\* What a body holds, entry by entry.
Entries(m) ==
  [i \in 1 .. cde_get_units(m) |->
     [key |-> cde40_get_hash(m, i - 1), obj |-> cde40_get_obj(m, i - 1),
      name |-> cde40_get_name(m, i - 1)]]
=============================================================================
