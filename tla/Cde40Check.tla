----------------------------- MODULE Cde40Check -----------------------------
(***************************************************************************)
(* The structure check and repair of a cde40 item, and the merge of a      *)
(* found item into a directory (src/plugin/item/cde40/cde40_repair.c,      *)
(* src/librepair/tree.c).  A check returns the body it leaves, the cells   *)
(* to cut off its end and the set of errors that stay.                     *)
(***************************************************************************)
EXTENDS Cde40Body

None == -1

en_len_min(count) == count * (en_size + ShortLen) + cde_size

\* TRUE when the offset of unit pos cannot be right.
cde40_offset_check(m, pos) ==
  LET off == cde_get_offset(m, pos)
  IN \/ Len(m) < en_len_min(pos + 1)
     \/ /\ off # Len(m) - ShortLen
        /\ off # Len(m) - 2 * ShortLen
        /\ off > Len(m) - LongLen
     \/ pos # 0 /\ off < cde_size + en_size * (pos + 1) + ob_size * pos
     \/ pos = 0 /\ (off < cde_size \/ (off - cde_size) % en_size # 0)

cde40_count_estimate(m, pos) ==
  (cde_get_offset(m, pos) - pos * ob_size - cde_size) \div en_size

\* TRUE when the bodies of the units between the two offsets cannot fit.
cde40_pair_offsets_check(m, start, end) ==
  LET count == end - start
      from  == cde_get_offset(m, start)
      to    == cde_get_offset(m, end)
  IN /\ to # from + ShortLen * count
     /\ to < from + LongLen + (count - 1) * ShortLen

\* The offsets of the units start..end when all of them have short names, or
\* all have long ones; <<>> when the cells between do not parse.
cde40_short_entry_detect(m, start, end) ==
  LET from == cde_get_offset(m, start)
  IN IF cde_get_offset(m, end) - from = ShortLen * (end - start)
     THEN [k \in 0 .. end - start |-> from + ShortLen * k] ELSE <<>>

cde40_long_entry_detect(m, start, end) ==
  LET to == cde_get_offset(m, end)
      off[k \in 0 .. end - start] ==
        IF k = 0 THEN cde_get_offset(m, start)
        ELSE LET l    == off[k - 1]
                 next == l + ob_size + strlen(m, l + ob_size) + 1
             IN IF l # None /\ l + ob_size < to /\ next <= to /\ next - l >= LongLen
                THEN next ELSE None
  IN IF off[end - start] = to THEN off ELSE <<>>

cde40_entry_detect(m, start, end) ==
  LET short == cde40_short_entry_detect(m, start, end)
  IN IF short # <<>> THEN short ELSE cde40_long_entry_detect(m, start, end)

\* One round of the loop of cde40_offsets_range_check(): s is the body, the
\* units marked wrong (nr) and reliable (r), how many there are and the unit
\* to compare with.
RangeCheckStep(s, i, mode) ==
  LET exact == i = 0 /\ cde40_count_estimate(s.m, 0) = cde_get_units(s.m)
      bad(j) == cde40_pair_offsets_check(s.m, j, i)
      stops == {j \in s.cmp .. i - 1 :
                  /\ j \notin s.nr
                  /\ IF bad(j) THEN j \in s.r ELSE cde40_entry_detect(s.m, j, i) # <<>>}
      j0    == Min(stops)
      limit == cde40_count_estimate(s.m, j0)
  IN CASE i >= s.count -> s
       [] i < s.count /\ cde40_offset_check(s.m, i) -> [s EXCEPT !.nr = @ \cup {i}]
       [] i < s.count /\ ~cde40_offset_check(s.m, i) /\ s.cmp = None ->
            [s EXCEPT !.cmp = i,
                      !.r = IF exact THEN @ \cup {i} ELSE @,
                      !.count = IF exact THEN cde_get_units(s.m) ELSE @]
       [] OTHER ->
            IF stops = {} THEN s
            ELSE IF bad(j0) THEN [s EXCEPT !.nr = @ \cup {i}]
            ELSE [s EXCEPT
                   !.cmp = i,
                   !.r = @ \cup (j0 + 1 .. i),
                   !.count = IF @ > limit THEN limit ELSE @,
                   !.m = IF mode = "build"
                         THEN set_offsets(@, j0, cde40_entry_detect(@, j0, i)) ELSE @,
                   !.res = IF i - j0 > 1 /\ mode # "build" THEN @ \cup {"fatal"} ELSE @]

cde40_offsets_range_check(m, mode) ==
  LET n == (Len(m) - cde_size) \div en_size
      after[i \in 0 .. n] ==
        IF i = 0 THEN [m |-> m, nr |-> {}, r |-> {}, count |-> n, cmp |-> None, res |-> {}]
        ELSE RangeCheckStep(after[i - 1], i - 1, mode)
  IN after[n]

-----------------------------------------------------------------------------
(* cde40_filter(): the units without a reliable offset are cut out, each    *)
(* run of them together with the reliable unit before it, whose end is      *)
(* unknown.                                                                 *)

\* The loop over the units between the first and the last: f.last is the
\* unit before an open run.  A run still open at the end stays.
FilterStep(f, mode) ==
  LET gone == f.first - f.last
      cut  == cde40_cut(f.m, f.last, gone, Len(f.m))
  IN CASE f.first >= f.count -> f
       [] f.first < f.count /\ f.last = None ->
            [f EXCEPT !.last = IF f.first \in f.r THEN None ELSE f.first - 1, !.first = @ + 1]
       [] f.first < f.count /\ f.last # None /\ f.first \notin f.r ->
            [f EXCEPT !.first = @ + 1]
       [] OTHER ->
            IF mode # "build"
            THEN [f EXCEPT !.res = @ \cup {"fatal"}, !.last = None, !.first = @ + 1]
            ELSE [f EXCEPT !.m = cut.m, !.len = @ + cut.len,
                           !.r = {u \in @ : u < f.last}
                                 \cup {u - gone : u \in {v \in @ : v >= f.first}},
                           !.count = @ - gone, !.first = f.last + 1, !.last = None]

\* The reliable units that end up first and last, and the number of units.
\* The last one is kept when its name ends where the item does.
FilterEnds(s, last) ==
  LET len   == Len(s.m)
      body  == cde_get_offset(s.m, last) + ob_size
      whole == body = len \/ (body < len /\ body + strlen(s.m, body) + 1 = len)
      count == IF whole THEN last + 1 ELSE last
      first == Min({u \in s.r : u < count} \cup {count})
  IN [m |-> s.m, r |-> s.r, first |-> first, count |-> count, whole |-> whole,
      estimate |-> cde40_count_estimate(s.m, first),
      tail |-> IF whole THEN 0 ELSE len - cde_get_offset(s.m, last)]

\* The number of units is set right, and one offset so that the cuts that
\* follow remove the right cells.
FilterCount(f, mode) ==
  LET build == mode = "build"
      real  == IF f.first > 0 THEN f.count ELSE f.estimate
      mark  == CASE build /\ f.first > 0 ->
                      cde_set_offset(f.m, 0, cde_size + en_size * f.count)
                 [] build /\ f.first = 0 /\ f.whole /\ f.estimate > f.count ->
                      cde_set_offset(f.m, f.count, Len(f.m))
                 [] OTHER -> f.m
  IN [m |-> IF mode = "check" THEN mark ELSE Put(mark, 0, real),
      r |-> f.r, first |-> f.first, count |-> f.count, real |-> real, last |-> None,
      len |-> IF build /\ f.count = real THEN f.tail ELSE 0,
      res |-> (IF real # cde_get_units(f.m) /\ mode = "check" THEN {"fixable"} ELSE {})
              \cup (IF ~build /\ (f.count # real \/ f.first > 0) THEN {"fatal"} ELSE {})]

\* The units behind the last reliable one go, then those before the first.
FilterTail(f, cut) ==
  IF f.count = f.real THEN f ELSE [f EXCEPT !.m = cut.m, !.len = cut.len]

FilterHead(f, cut) ==
  IF f.first = 0 THEN f
  ELSE [f EXCEPT !.m = cut.m, !.len = @ + cut.len, !.count = @ - f.first, !.first = 0,
                 !.r = {u - f.first : u \in {v \in @ : v >= f.first}}]

FilterCut(f, mode) ==
  LET len == Len(f.m)
      FromHead(g) == FilterHead(g, cde40_cut(g.m, 0, g.first, len))
  IN IF mode = "build"
     THEN FromHead(FilterTail(f, cde40_cut(f.m, f.count, f.real - f.count, len))) ELSE f

FilterLoop(start, mode) ==
  LET after[i \in 0 .. start.count] ==
        IF i = 0 THEN start ELSE FilterStep(after[i - 1], mode)
  IN after[start.count]

cde40_filter(s, mode) ==
  LET good == {u \in s.r \ s.nr : u < s.count}
  IN IF good = {}
     THEN [m |-> s.m, len |-> 0, count |-> 0, res |-> {"fatal"}]
     ELSE FilterLoop(FilterCut(FilterCount(FilterEnds(s, Max(good)), mode), mode), mode)

-----------------------------------------------------------------------------
(* cde40_check_struct()                                                    *)

\* As a slip would have it: a hashed key is not looked for in a short unit.
KeyStepLongOnly(f, mode) ==
  LET end == IF f.i = f.count THEN Len(f.m) - f.len ELSE cde_get_offset(f.m, f.i)
      short == cde_get_offset(f.m, f.i - 1) + ob_size = end
  IN IF f.i > f.count \/ short \/ hashed(cde40_get_hash(f.m, f.i - 1))
     THEN [f EXCEPT !.i = @ + 1]
     ELSE [f EXCEPT !.res = @ \cup {"fatal"}, !.i = @ + 1]

\* A unit must have a hash for a key exactly when it has a name.
KeyStep(f, mode) ==
  LET end == IF f.i = f.count THEN Len(f.m) - f.len ELSE cde_get_offset(f.m, f.i)
      short == cde_get_offset(f.m, f.i - 1) + ob_size = end
      cut == cde40_delete(f.m, f.i - 1, 1)
  IN CASE f.i > f.count -> f
       [] f.i <= f.count /\ short # hashed(cde40_get_hash(f.m, f.i - 1)) ->
            [f EXCEPT !.i = @ + 1]
       [] OTHER ->
            IF mode # "build" THEN [f EXCEPT !.res = @ \cup {"fatal"}, !.i = @ + 1]
            ELSE [f EXCEPT !.m = cut.m, !.len = @ + cut.len, !.count = @ - 1,
                           !.key = IF f.i = 1 /\ f.count > 1
                                   THEN cde40_get_hash(cut.m, 0) ELSE @]

CheckKeys(key, start, mode) ==
  LET after[i \in 0 .. start.count] ==
        IF i = 0 THEN [m |-> start.m, len |-> start.len, count |-> start.count,
                       res |-> start.res, key |-> key, i |-> 1]
        ELSE KeyStep(after[i - 1], mode)
  IN after[start.count]

\* What the check leaves of an item: its body and the errors.  The cells
\* that were cut are given back by repair_item_check_struct().
Fatal(item, m) == [item |-> [item EXCEPT !.m = m], res |-> {"fatal"}]

CheckEnd(item, k) ==
  IF \/ "fatal" \in k.res
     \/ \E u \in 1 .. k.count - 1 : cde40_get_hash(k.m, u - 1) > cde40_get_hash(k.m, u)
     \/ k.count = 0
     \/ cde40_get_hash(k.m, 0) # k.key
     \/ k.len >= Len(k.m)
  THEN Fatal(item, k.m)
  ELSE [item |-> [item EXCEPT !.m = Trim(k.m, k.len)], res |-> k.res]

CheckFiltered(item, f, mode) ==
  IF "fatal" \in f.res THEN Fatal(item, f.m)
  ELSE CheckEnd(item, CheckKeys(item.key, f, mode))

CheckRanged(item, rc, mode) ==
  IF rc.res # {} THEN Fatal(item, rc.m)
  ELSE CheckFiltered(item, cde40_filter(rc, mode), mode)

cde40_check_struct(item, mode) ==
  IF Len(item.m) < en_len_min(1) THEN Fatal(item, item.m)
  ELSE CheckRanged(item, cde40_offsets_range_check(item.m, mode), mode)

-----------------------------------------------------------------------------
(* An item of a lost node is merged into the directory.                    *)

\* <0, 0 or >0 as cde40_comp_entry(): keys first, names where both are hashes.
\* Names are compared by Before, which stands for aal_strcmp().
Before(a, b) ==
  \E k \in 1 .. Len(b) : /\ SubSeq(a, 1, k - 1) = SubSeq(b, 1, k - 1)
                         /\ k > Len(a) \/ (k <= Len(a) /\ a[k] < b[k])

cde40_comp_entry(m1, pos1, m2, pos2) ==
  LET k1 == cde40_get_hash(m1, pos1)
      k2 == cde40_get_hash(m2, pos2)
      n1 == cde40_get_name(m1, pos1)
      n2 == cde40_get_name(m2, pos2)
  IN CASE k1 < k2 -> -1
       [] k1 > k2 -> 1
       [] k1 = k2 /\ hashed(k1) /\ Before(n1, n2) -> -1
       [] k1 = k2 /\ hashed(k1) /\ Before(n2, n1) -> 1
       [] OTHER -> 0

\* How many units of src from spos on go before unit pos of dst.
cde40_prep_insert_raw(dst, pos, src, spos) ==
  Min({n \in 0 .. cde_get_units(src) - spos :
         \/ spos + n = cde_get_units(src)
         \/ /\ pos < cde_get_units(dst)
            /\ cde40_comp_entry(dst, pos, src, spos + n) <= 0})

\* Puts count of them there, or steps over what both hold: the new body and
\* the unit of src to go on with.
RawUnits(dst, pos, src, spos, count, len) ==
  [m |-> CopyUnits(Grow(dst, len), pos, src, spos, count, len), next |-> spos + count]

SameUnits(dst, pos, src, spos) ==
  LET same == Max({n \in 0 .. cde_get_units(src) - spos - 1 :
                     /\ pos + n < cde_get_units(dst)
                     /\ \A k \in 1 .. n : cde40_comp_entry(dst, pos + k, src, spos + k) = 0})
  IN [m |-> dst, next |-> spos + same + 1]

cde40_insert_raw(dst, pos, src, spos, count) ==
  IF count > 0
  THEN RawUnits(dst, pos, src, spos, count, count * en_size + cde40_regsize(src, spos, count))
  ELSE SameUnits(dst, pos, src, spos)

\* repair_tree_insert() for a directory that is one item, left of nothing:
\* what overlaps goes into dst, what lies behind it becomes an item of its own.
InsertBehind(s, src) ==
  LET rest == cde_get_units(src) - s.spos
      len  == cde_size + rest * en_size + cde40_regsize(src, s.spos, rest)
  IN [s EXCEPT !.extra = cde40_copy(Put(Grow(<<>>, len), 0, 0), 0, src, s.spos, rest),
               !.done = TRUE]

InsertInside(s, src, raw) ==
  [s EXCEPT !.dst = raw.m,
            !.done = raw.next = cde_get_units(src),
            !.spos = IF raw.next = cde_get_units(src) THEN @
                     ELSE cde40_lookup(src, cde40_get_hash(src, raw.next)).pos]

InsertFrom(s, src, pos) ==
  IF pos = cde_get_units(s.dst) THEN InsertBehind(s, src)
  ELSE InsertInside(s, src, cde40_insert_raw(s.dst, pos, src, s.spos,
                                             cde40_prep_insert_raw(s.dst, pos, src, s.spos)))

InsertRound(s, src) ==
  IF s.done THEN s
  ELSE InsertFrom(s, src, cde40_lookup(s.dst, cde40_get_hash(src, s.spos)).pos)

repair_tree_insert(dst, src) ==
  LET rounds == 2 * cde_get_units(src) + 1
      after[i \in 0 .. rounds] ==
        IF i = 0 THEN [dst |-> dst, extra |-> <<>>, spos |-> 0, done |-> FALSE]
        ELSE InsertRound(after[i - 1], src)
  IN after[rounds]
=============================================================================
