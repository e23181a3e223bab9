--------------------------- MODULE AuxBitmapProofs ---------------------------
(***************************************************************************)
(* The counter of an auxiliary bit map and its saved form, for maps of     *)
(* every length.                                                           *)
(***************************************************************************)
EXTENDS AuxBitmap, BitmapProofs, SequenceTheorems

(* The run from c on that is of marked bits if n is odd: where it ends, and *)
(* that it goes no further.                                                 *)
LEMMA NextEndStops ==
  ASSUME NEW total \in Nat, NEW b \in MapsOf(total), NEW n \in Nat, NEW c \in 0 .. total
  PROVE  LET e == NextEnd(b, n, c)
         IN  /\ e \in c .. total
             /\ \A x \in c .. e - 1 : x \in b.map <=> n % 2 = 1
             /\ e < total => (e \in b.map <=> n % 2 # 1)
<1> DEFINE other == {x \in c .. total - 1 : (x \in b.map) # (n % 2 = 1)}
           e == NextEnd(b, n, c)
<1>1. b.total = total
  BY DEF MapsOf
<1>2. e = IF FirstOf(other) = INVAL_BLK THEN total ELSE FirstOf(other)
  <2>1. CASE n % 2 = 1
    <3>1. other = {x \in c .. b.total - 1 : x \notin b.map}
      BY <1>1, <2>1
    <3> QED
      BY <1>1, <2>1, <3>1 DEF NextEnd, reiser4_bitmap_find_cleared
  <2>2. CASE n % 2 # 1
    <3>1. other = {x \in c .. b.total - 1 : x \in b.map}
      BY <1>1, <2>2
    <3> QED
      BY <1>1, <2>2, <3>1 DEF NextEnd, reiser4_bitmap_find_marked
  <2> QED
    BY <2>1, <2>2
<1>3. other \in SUBSET Nat /\ \A x \in other : x \in c .. total - 1 /\ (x \in b.map <=> n % 2 # 1)
  OBVIOUS
<1>4. \A x \in c .. total - 1 : x \notin other => (x \in b.map <=> n % 2 = 1)
  OBVIOUS
<1> HIDE DEF other, e
<1>5. CASE other = {}
  <2>1. e = total
    BY <1>2, <1>3, <1>5, FirstOfSet
  <2> QED
    BY <1>4, <1>5, <2>1 DEF e
<1>6. CASE other # {}
  <2>1. FirstOf(other) \in other /\ \A x \in other : FirstOf(other) =< x
    BY <1>3, <1>6, FirstOfSet
  <2>2. e = FirstOf(other)
    BY <1>2, <1>3, <2>1 DEF INVAL_BLK
  <2>3. e \in c .. total - 1 /\ (e \in b.map <=> n % 2 # 1)
    BY <1>3, <2>1, <2>2
  <2>4. \A x \in c .. e - 1 : x \in c .. total - 1 /\ x \notin other
    BY <2>1, <2>2, <2>3
  <2> QED
    BY <1>4, <2>3, <2>4 DEF e
<1> QED
  BY <1>5, <1>6

(* The ends of the runs of reiser4_bitmap_pack().                           *)
AreEnds(f, N, b) ==
  /\ f[0] = 0
  /\ \A n \in 1 .. N : f[n] = NextEnd(b, n, f[n - 1])

(* The loop of reiser4_bitmap_pack() has run ends for every map.            *)
LEMMA EndsExist ==
  ASSUME NEW N \in Nat, NEW S, 0 \in S, NEW b, \A n \in 1 .. N : \A c \in S : NextEnd(b, n, c) \in S
  PROVE  \E f \in [0 .. N -> S] : AreEnds(f, N, b)
<1>1. PICK G \in [1 .. N -> [S -> S]] : \A n \in 1 .. N : \A c \in S : G[n][c] = NextEnd(b, n, c)
  <2> DEFINE H == [n \in 1 .. N |-> [c \in S |-> NextEnd(b, n, c)]]
  <2>1. H \in [1 .. N -> [S -> S]]
    OBVIOUS
  <2>2. \A n \in 1 .. N : \A c \in S : H[n][c] = NextEnd(b, n, c)
    OBVIOUS
  <2> HIDE DEF H
  <2> QED
    BY <2>1, <2>2
<1>2. PICK f \in [0 .. N -> S] : f[0] = 0 /\ \A n \in 1 .. N : f[n] = G[n][f[n - 1]]
  <2>1. \E f : IsIterate(f, N, S, 0, G)
    BY Iterates
  <2> QED
    BY <2>1 DEF IsIterate
<1>4. \A n \in 1 .. N : f[n] = NextEnd(b, n, f[n - 1])
  <2> TAKE n \in 1 .. N
  <2>1. n \in 0 .. N /\ n # 0 /\ n - 1 \in 0 .. N
    OBVIOUS
  <2>2. f[n] = G[n][f[n - 1]]
    BY <1>2, <2>1
  <2>3. f[n - 1] \in S
    BY <2>1
  <2> QED
    BY <1>1, <2>2, <2>3
<1> QED
  BY <1>2, <1>4 DEF AreEnds

(* There is one sequence of ends.                                          *)
LEMMA SameEnds ==
  ASSUME NEW N \in Nat, NEW b, NEW e, NEW f, AreEnds(e, N, b), AreEnds(f, N, b)
  PROVE  \A n \in 0 .. N : e[n] = f[n]
<1>1. StepAlike(e, f, N)
  BY DEF AreEnds, StepAlike
<1> QED
  BY <1>1, SameIterates

(* The same as the equation of a function. *)
EndsFunction(e, N, b) == e = [n \in 0 .. N |-> IF n = 0 THEN 0 ELSE NextEnd(b, n, e[n - 1])]

(* The function of RunEnds, and its values one by one.                      *)
LEMMA EndsUnfold ==
  ASSUME NEW N \in Nat, NEW b, NEW e
  PROVE  EndsFunction(e, N, b) <=> AreEnds(e, N, b) /\ e = [n \in 0 .. N |-> e[n]]
<1>1. ASSUME EndsFunction(e, N, b) PROVE AreEnds(e, N, b) /\ e = [n \in 0 .. N |-> e[n]]
  BY <1>1 DEF EndsFunction, AreEnds
<1>2. AreEnds(e, N, b) => \A n \in 0 .. N : e[n] = IF n = 0 THEN 0 ELSE NextEnd(b, n, e[n - 1])
  BY DEF AreEnds
<1>3. ASSUME AreEnds(e, N, b), e = [n \in 0 .. N |-> e[n]] PROVE EndsFunction(e, N, b)
  BY <1>2, <1>3 DEF EndsFunction
<1> QED
  BY <1>1, <1>3

(* RunEnds of reiser4_bitmap_pack() is what its definition says.            *)
LEMMA RunEndsDef ==
  ASSUME NEW total \in Nat, NEW b \in MapsOf(total)
  PROVE  /\ RunEnds(b) \in [0 .. total + 1 -> 0 .. total]
         /\ RunEnds(b)[0] = 0
         /\ \A n \in 1 .. total + 1 : RunEnds(b)[n] = NextEnd(b, n, RunEnds(b)[n - 1])
<1>1. b.total = total
  BY DEF MapsOf
<1>3. \A n \in 1 .. total + 1 : \A c \in 0 .. total : NextEnd(b, n, c) \in 0 .. total
  <2> SUFFICES ASSUME NEW n \in 1 .. total + 1, NEW c \in 0 .. total PROVE NextEnd(b, n, c) \in 0 .. total
    OBVIOUS
  <2> DEFINE e == NextEnd(b, n, c)
  <2>1. n \in Nat
    OBVIOUS
  <2>2. e \in c .. total
    BY <2>1, NextEndStops
  <2> HIDE DEF e
  <2>3. e \in 0 .. total
    BY <2>2
  <2> QED
    BY <2>3 DEF e
<1>4. PICK f \in [0 .. total + 1 -> 0 .. total] : AreEnds(f, total + 1, b)
  <2>1. total + 1 \in Nat /\ 0 \in 0 .. total
    OBVIOUS
  <2> QED
    BY <1>3, <2>1, EndsExist
<1>5. total + 1 \in Nat
  OBVIOUS
<1>6. EndsFunction(f, total + 1, b)
  <2>1. f = [n \in 0 .. total + 1 |-> f[n]]
    OBVIOUS
  <2> QED
    BY <1>4, <1>5, <2>1, EndsUnfold
<1>7. RunEnds(b) = CHOOSE g : EndsFunction(g, total + 1, b)
  BY <1>1, Zenon DEF RunEnds, EndsFunction
<1>8. AreEnds(RunEnds(b), total + 1, b) /\ RunEnds(b) = [n \in 0 .. total + 1 |-> RunEnds(b)[n]]
  <2>1. EndsFunction(RunEnds(b), total + 1, b)
    BY <1>6, <1>7, Zenon
  <2> QED
    BY <1>5, <2>1, EndsUnfold
<1>9. \A n \in 0 .. total + 1 : RunEnds(b)[n] = f[n]
  BY <1>4, <1>5, <1>8, SameEnds
<1>10. \A n \in 0 .. total + 1 : f[n] \in 0 .. total
  BY <1>4
<1> QED
  BY <1>8, <1>9, <1>10 DEF AreEnds

(* The runs follow each other, all but the first have bits, and they reach  *)
(* the end of the map.                                                      *)
LEMMA RunsAlternate ==
  ASSUME NEW total \in Nat, NEW b \in MapsOf(total)
  PROVE  LET e == RunEnds(b)
         IN  /\ \A n \in 1 .. total + 1 :
                  /\ e[n - 1] =< e[n]
                  /\ \A x \in e[n - 1] .. e[n] - 1 : x \in b.map <=> n % 2 = 1
                  /\ n > 1 /\ e[n - 1] < total => e[n - 1] < e[n]
             /\ e[total + 1] = total
<1> DEFINE e == RunEnds(b)
<1>1. /\ e \in [0 .. total + 1 -> 0 .. total]
      /\ \A n \in 1 .. total + 1 : e[n] = NextEnd(b, n, e[n - 1])
  BY RunEndsDef
<1> HIDE DEF e
<1>2. ASSUME NEW n \in 1 .. total + 1
      PROVE  /\ e[n] \in e[n - 1] .. total /\ e[n - 1] \in 0 .. total
             /\ \A x \in e[n - 1] .. e[n] - 1 : x \in b.map <=> n % 2 = 1
             /\ e[n] < total => (e[n] \in b.map <=> n % 2 # 1)
  <2>1. e[n - 1] \in 0 .. total /\ e[n] = NextEnd(b, n, e[n - 1]) /\ n \in Nat
    BY <1>1
  <2>2. \A c \in 0 .. total :
          /\ NextEnd(b, n, c) \in c .. total
          /\ \A x \in c .. NextEnd(b, n, c) - 1 : x \in b.map <=> n % 2 = 1
          /\ NextEnd(b, n, c) < total => (NextEnd(b, n, c) \in b.map <=> n % 2 # 1)
    BY <2>1, NextEndStops
  <2> QED
    BY <2>1, <2>2
<1>3. ASSUME NEW n \in 2 .. total + 1, e[n - 1] < total
      PROVE  e[n - 1] < e[n]
  <2>1. n - 1 \in 1 .. total + 1 /\ n \in 1 .. total + 1 /\ (n % 2 = 1 <=> (n - 1) % 2 # 1)
    OBVIOUS
  <2>2. e[n - 1] \in b.map <=> n % 2 = 1
    BY <1>2, <1>3, <2>1
  <2>3. e[n] < total => (e[n] \in b.map <=> n % 2 # 1)
    BY <1>2, <2>1
  <2>4. e[n] \in Int /\ e[n - 1] \in Int /\ e[n - 1] =< e[n]
    BY <1>2, <2>1
  <2> QED
    BY <1>3, <2>2, <2>3, <2>4
<1>4. e[total + 1] = total
  <2> DEFINE Bad == {n \in 1 .. total + 1 : ~(e[n] = total \/ e[n] >= n - 1)}
  <2>1. ASSUME Bad # {} PROVE FALSE
    <3>1. PICK k \in Bad : \A j \in Bad : k =< j
      <4>1. Bad \in SUBSET Nat
        OBVIOUS
      <4> HIDE DEF Bad
      <4> QED
        BY <2>1, <4>1, Least
    <3>2. k # 1
      BY <3>1, <1>2
    <3>3. k \in 2 .. total + 1 /\ k - 1 \in 1 .. total + 1 /\ k - 1 \notin Bad
      BY <3>1, <3>2
    <3>4. e[k - 1] = total \/ e[k - 1] >= k - 2
      BY <3>3
    <3>5. e[k - 1] \in 0 .. total /\ e[k] \in e[k - 1] .. total /\ k \in 1 .. total + 1
      BY <1>2, <3>3
    <3>6. e[k - 1] < total => e[k - 1] < e[k]
      BY <1>3, <3>3
    <3>7. ~(e[k] = total \/ e[k] >= k - 1)
      BY <3>1
    <3> QED
      BY <3>3, <3>4, <3>5, <3>6, <3>7
  <2>2. total + 1 \in 1 .. total + 1 /\ total + 1 \notin Bad
    BY <2>1
  <2>3. e[total + 1] \in 0 .. total
    BY <1>1
  <2> QED
    BY <2>2, <2>3
<1>5. \A n \in 1 .. total + 1 :
        /\ e[n - 1] =< e[n]
        /\ \A x \in e[n - 1] .. e[n] - 1 : x \in b.map <=> n % 2 = 1
        /\ n > 1 /\ e[n - 1] < total => e[n - 1] < e[n]
  <2> TAKE n \in 1 .. total + 1
  <2>1. n > 1 => n \in 2 .. total + 1
    OBVIOUS
  <2> QED
    BY <1>2, <1>3, <2>1
<1> QED
  BY <1>4, <1>5 DEF e

(* The last run is the first that reaches the end of the map.               *)
LEMMA LastRun ==
  ASSUME NEW total \in Nat \ {0}, NEW b \in MapsOf(total)
  PROVE  /\ Runs(b) \in 1 .. total + 1
         /\ RunEnds(b)[Runs(b)] = total
         /\ \A n \in 0 .. Runs(b) - 1 : RunEnds(b)[n] < total
<1> DEFINE e == RunEnds(b)
           last == {n \in 1 .. total + 1 : e[n] = total}
<1>1. b.total = total
  BY DEF MapsOf
<1>2. Runs(b) = Min(last)
  BY <1>1 DEF Runs
<1>3. e \in [0 .. total + 1 -> 0 .. total] /\ e[0] = 0 /\ e[total + 1] = total
  BY RunEndsDef, RunsAlternate
<1> HIDE DEF e
<1>4. total + 1 \in last /\ last \in SUBSET Nat
  BY <1>3
<1>5. Min(last) \in last /\ \A n \in last : Min(last) =< n
  <2> HIDE DEF last
  <2> QED
    BY <1>4, MinExists
<1>6. \A n \in 0 .. Min(last) - 1 : e[n] < total
  <2> TAKE n \in 0 .. Min(last) - 1
  <2>1. n \in 0 .. total + 1 /\ ~(Min(last) =< n)
    BY <1>5
  <2>2. e[n] \in 0 .. total
    BY <1>3, <2>1
  <2>3. n # 0 => e[n] # total
    BY <1>5, <2>1
  <2> QED
    BY <1>3, <2>2, <2>3
<1> QED
  BY <1>2, <1>5, <1>6 DEF e

-----------------------------------------------------------------------------

(* The first c bits of b, as reiser4_bitmap_unpack() has them when it has   *)
(* read that far, and its state after n runs.                               *)
Part(b, c) == [map |-> b.map \cap Bits(c), marked |-> Cardinality(b.map \cap Bits(c)), total |-> b.total]

Reading(b, n) ==
  [ok |-> TRUE, bit |-> RunEnds(b)[n], set |-> n % 2 = 0, bm |-> Part(b, RunEnds(b)[n])]

(* What has been read so far is a bit map with an exact counter.            *)
LEMMA PartExact ==
  ASSUME NEW total \in Nat, NEW b \in MapsOf(total), NEW c \in 0 .. total
  PROVE  /\ Part(b, c) \in MapsOf(total) /\ Exact(Part(b, c))
         /\ \A r \in MapsOf(total) : Exact(r) /\ r.map = b.map \cap Bits(c) => r = Part(b, c)
<1> DEFINE m == b.map \cap Bits(c)
<1>1. b.total = total
  BY DEF MapsOf
<1>2. m \subseteq Bits(total) /\ m \cap Bits(total) = m
  BY DEF Bits
<1>3. m \subseteq 0 .. Room(total) - 1 /\ Cardinality(m) \in Nat
  BY <1>2, BitsCount
<1>4. Part(b, c) = [map |-> m, marked |-> Cardinality(m), total |-> total]
  BY <1>1 DEF Part
<1> HIDE DEF m
<1>5. Part(b, c) \in MapsOf(total) /\ Exact(Part(b, c))
  <2>1. Part(b, c) \in MapsOf(total)
    BY <1>3, <1>4 DEF MapsOf
  <2>2. Exact(Part(b, c))
    BY <1>2, <1>4 DEF Exact
  <2> QED
    BY <2>1, <2>2
<1>6. ASSUME NEW r \in MapsOf(total), Exact(r), r.map = m PROVE r = Part(b, c)
  <2>1. r.total = total /\ r = [map |-> r.map, marked |-> r.marked, total |-> r.total]
    BY DEF MapsOf
  <2>2. r.marked = Cardinality(m)
    BY <1>2, <1>6, <2>1 DEF Exact
  <2> QED
    BY <1>4, <1>6, <2>1, <2>2
<1> QED
  BY <1>5, <1>6 DEF m

(* Reading the n-th run takes reiser4_bitmap_unpack() one state further.    *)
LEMMA RunRead ==
  ASSUME NEW total \in Nat, NEW b \in MapsOf(total), NEW n \in 1 .. total + 1
  PROVE  UnpackRun(Reading(b, n - 1), RunEnds(b)[n] - RunEnds(b)[n - 1]) = Reading(b, n)
<1> DEFINE c == RunEnds(b)[n - 1]
           d == RunEnds(b)[n]
           r == reiser4_bitmap_mark_region(Part(b, c), c, d - c)
<1>1. /\ c \in 0 .. total /\ d \in 0 .. total /\ c =< d
      /\ \A x \in c .. d - 1 : x \in b.map <=> n % 2 = 1
  <2>1. n \in 0 .. total + 1 /\ n - 1 \in 0 .. total + 1
    OBVIOUS
  <2>2. c \in 0 .. total /\ d \in 0 .. total
    BY <2>1, RunEndsDef
  <2>3. c =< d /\ \A x \in c .. d - 1 : x \in b.map <=> n % 2 = 1
    BY RunsAlternate
  <2> QED
    BY <2>2, <2>3
<1>2. b.total = total
  BY DEF MapsOf
<1> HIDE DEF c, d
<1>3. d - c \in Nat /\ c + (d - c) = d /\ Region(c, d - c) = c .. d - 1
  BY <1>1 DEF Region
<1>4. n % 2 = 1 => r = Part(b, d)
  <2> SUFFICES ASSUME n % 2 = 1 PROVE r = Part(b, d)
    OBVIOUS
  <2>1. Part(b, c) \in MapsOf(total) /\ Exact(Part(b, c)) /\ Part(b, c).map = b.map \cap Bits(c)
        /\ Part(b, c).total = total
    BY <1>1, <1>2, PartExact DEF Part
  <2>2. /\ r \in MapsOf(total) /\ Exact(r)
        /\ r.map = IF InBounds(Part(b, c), c, d - c) THEN Part(b, c).map \cup Region(c, d - c)
                                                     ELSE Part(b, c).map
    <3> DEFINE p == Part(b, c)
    <3>1. p \in MapsOf(total) /\ Exact(p) /\ c \in Nat /\ d - c \in Nat
      BY <1>1, <1>3, <2>1
    <3> HIDE DEF p
    <3>2. LET q == reiser4_bitmap_mark_region(p, c, d - c)
          IN  /\ q \in MapsOf(total) /\ Exact(q)
              /\ q.map = IF InBounds(p, c, d - c) THEN p.map \cup Region(c, d - c) ELSE p.map
      BY <3>1, MarkRegionExact
    <3> QED
      BY <3>2 DEF p
  <2>3. r.map = b.map \cap Bits(d)
    <3>1. (c .. d - 1) \subseteq b.map /\ Bits(d) = Bits(c) \cup (c .. d - 1)
      BY <1>1 DEF Bits
    <3>2. CASE InBounds(Part(b, c), c, d - c)
      <4>1. r.map = (b.map \cap Bits(c)) \cup (c .. d - 1)
        BY <1>3, <2>1, <2>2, <3>2
      <4> HIDE DEF r
      <4> QED
        BY <3>1, <4>1
    <3>3. CASE ~InBounds(Part(b, c), c, d - c)
      <4>1. c = d
        BY <1>1, <2>1, <3>3 DEF InBounds
      <4> QED
        BY <2>1, <2>2, <3>3, <4>1
    <3> QED
      BY <3>2, <3>3
  <2> HIDE DEF r
  <2> QED
    BY <1>1, <2>2, <2>3, PartExact
<1>5. n % 2 # 1 => Part(b, c) = Part(b, d)
  <2> SUFFICES ASSUME n % 2 # 1 PROVE b.map \cap Bits(c) = b.map \cap Bits(d)
    BY DEF Part
  <2> QED
    BY <1>1 DEF Bits
<1> HIDE DEF r
<1>6. (n - 1) % 2 = 0 <=> n % 2 = 1
  OBVIOUS
<1>7. n % 2 = 0 <=> ~((n - 1) % 2 = 0)
  OBVIOUS
<1> DEFINE even == (n - 1) % 2 = 0
<1>8. Reading(b, n - 1) = [ok |-> TRUE, bit |-> c, set |-> even, bm |-> Part(b, c)]
  BY DEF Reading, c
<1>9. Reading(b, n) = [ok |-> TRUE, bit |-> d, set |-> ~even, bm |-> Part(b, d)]
  BY <1>7 DEF Reading, d
<1>10. (even => r = Part(b, d)) /\ (~even => Part(b, c) = Part(b, d))
  BY <1>4, <1>5, <1>6
<1>11. Part(b, c).total = total
  BY <1>2 DEF Part
<1> HIDE DEF even
<1>12. UnpackRun(Reading(b, n - 1), d - c) =
         [ok |-> TRUE, bit |-> d, set |-> ~even, bm |-> IF even THEN r ELSE Part(b, c)]
  <2> DEFINE a == Reading(b, n - 1)
  <2>1. a.ok = TRUE /\ a.bit = c /\ a.set = even /\ a.bm = Part(b, c)
    BY <1>8
  <2> HIDE DEF a
  <2>2. ~(a.bit + (d - c) > a.bm.total) /\ a.bit + (d - c) = d
    BY <1>1, <1>3, <1>11, <2>1
  <2>3. UnpackRun(a, d - c) = [ok |-> TRUE, bit |-> d, set |-> ~a.set, bm |-> IF a.set THEN r ELSE Part(b, c)]
    BY <2>1, <2>2, Zenon DEF UnpackRun, r
  <2> QED
    BY <2>1, <2>3, Zenon DEF a
<1> QED
  BY <1>9, <1>10, <1>12 DEF c, d

(* What is saved: the length and then the runs.                             *)
LEMMA PackSeq ==
  ASSUME NEW total \in Nat \ {0}, NEW b \in MapsOf(total)
  PROVE  LET s == reiser4_bitmap_pack(b)
         IN  /\ s \in Seq(Nat) /\ Len(s) = Runs(b) + 1 /\ s[1] = total
             /\ \A n \in 1 .. Runs(b) : s[n + 1] = RunEnds(b)[n] - RunEnds(b)[n - 1]
<1> DEFINE R == Runs(b)
           e == RunEnds(b)
           runs == [n \in 1 .. R |-> e[n] - e[n - 1]]
           s == <<total>> \o runs
<1>1. R \in 1 .. total + 1
  BY LastRun
<1>2. \A n \in 1 .. R : e[n] - e[n - 1] \in Nat
  <2> TAKE n \in 1 .. R
  <2>1. n \in 1 .. total + 1 /\ n \in 0 .. total + 1 /\ n - 1 \in 0 .. total + 1
    BY <1>1
  <2>2. e[n] \in 0 .. total /\ e[n - 1] \in 0 .. total
    BY <2>1, RunEndsDef
  <2>3. e[n - 1] =< e[n]
    BY <2>1, RunsAlternate
  <2> QED
    BY <2>2, <2>3
<1> HIDE DEF R, e
<1>3. runs \in Seq(Nat) /\ Len(runs) = R /\ \A n \in 1 .. R : runs[n] = e[n] - e[n - 1]
  BY <1>1, <1>2
<1>4. <<total>> \in Seq(Nat) /\ Len(<<total>>) = 1 /\ <<total>>[1] = total
  OBVIOUS
<1> HIDE DEF runs
<1>5. /\ s \in Seq(Nat) /\ Len(s) = 1 + R
      /\ \A i \in 1 .. 1 + R : s[i] = IF i =< 1 THEN <<total>>[i] ELSE runs[i - 1]
  BY <1>3, <1>4, ConcatProperties
<1>6. s = reiser4_bitmap_pack(b)
  <2>1. b.total = total
    BY DEF MapsOf
  <2> QED
    BY <2>1 DEF reiser4_bitmap_pack, runs, R, e
<1> HIDE DEF s
<1>7. s[1] = total
  BY <1>1, <1>4, <1>5
<1>8. \A n \in 1 .. R : s[n + 1] = e[n] - e[n - 1]
  <2> TAKE n \in 1 .. R
  <2>1. n + 1 \in 1 .. 1 + R /\ ~(n + 1 =< 1) /\ (n + 1) - 1 = n
    BY <1>1
  <2> QED
    BY <1>3, <1>5, <2>1
<1>9. s \in Seq(Nat) /\ Len(s) = R + 1
  BY <1>1, <1>5
<1> QED
  BY <1>6, <1>7, <1>8, <1>9 DEF R, e

(* The states of reiser4_bitmap_unpack() on the first N runs of a stream.   *)
AreReads(f, N, s) ==
  /\ f[0] = [ok |-> TRUE, bit |-> 0, set |-> TRUE, bm |-> reiser4_bitmap_create(s[1])]
  /\ \A n \in 1 .. N : f[n] = UnpackRun(f[n - 1], s[n + 1])

ReadFunction(f, N, s) ==
  f = [n \in 0 .. N |->
         IF n = 0 THEN [ok |-> TRUE, bit |-> 0, set |-> TRUE, bm |-> reiser4_bitmap_create(s[1])]
         ELSE UnpackRun(f[n - 1], s[n + 1])]

(* The function of Unpacked, and its values one by one.                     *)
LEMMA ReadsUnfold ==
  ASSUME NEW N \in Nat, NEW s, NEW f
  PROVE  ReadFunction(f, N, s) <=> AreReads(f, N, s) /\ f = [n \in 0 .. N |-> f[n]]
<1> DEFINE first == [ok |-> TRUE, bit |-> 0, set |-> TRUE, bm |-> reiser4_bitmap_create(s[1])]
<1>1. ReadFunction(f, N, s) <=> f = [n \in 0 .. N |-> IF n = 0 THEN first ELSE UnpackRun(f[n - 1], s[n + 1])]
  BY Zenon DEF ReadFunction
<1>2. AreReads(f, N, s) <=> f[0] = first /\ \A n \in 1 .. N : f[n] = UnpackRun(f[n - 1], s[n + 1])
  BY Zenon DEF AreReads
<1> HIDE DEF first
<1>3. ASSUME ReadFunction(f, N, s) PROVE AreReads(f, N, s) /\ f = [n \in 0 .. N |-> f[n]]
  <2>1. f = [n \in 0 .. N |-> IF n = 0 THEN first ELSE UnpackRun(f[n - 1], s[n + 1])]
    BY <1>1, <1>3, Zenon
  <2>2. f[0] = first /\ f = [n \in 0 .. N |-> f[n]]
    BY <2>1
  <2>3. \A n \in 1 .. N : f[n] = UnpackRun(f[n - 1], s[n + 1])
    BY <2>1
  <2> QED
    BY <1>2, <2>2, <2>3, Zenon
<1>4. AreReads(f, N, s) => \A n \in 0 .. N : f[n] = IF n = 0 THEN first ELSE UnpackRun(f[n - 1], s[n + 1])
  BY <1>2
<1>5. ASSUME AreReads(f, N, s), f = [n \in 0 .. N |-> f[n]] PROVE ReadFunction(f, N, s)
  BY <1>1, <1>4, <1>5
<1> QED
  BY <1>3, <1>5

(* There is one sequence of states that reads a stream.                     *)
LEMMA SameReads ==
  ASSUME NEW N \in Nat, NEW s, NEW f, NEW g, AreReads(f, N, s), AreReads(g, N, s)
  PROVE  \A n \in 0 .. N : f[n] = g[n]
<1>1. StepAlike(f, g, N)
  BY DEF AreReads, StepAlike
<1> QED
  BY <1>1, SameIterates

(* The first k numbers of a saved map are read as what they were saved from. *)
LEMMA PrefixRead ==
  ASSUME NEW total \in Nat \ {0}, NEW b \in MapsOf(total), NEW N \in 0 .. Runs(b), NEW s,
         Len(s) = N + 1, s[1] = total,
         \A n \in 1 .. N : s[n + 1] = RunEnds(b)[n] - RunEnds(b)[n - 1]
  PROVE  Unpacked(s) = Reading(b, N)
<1>1. Runs(b) \in 1 .. total + 1 /\ N \in Nat
  BY LastRun
<1>2. PICK f : f = [n \in 0 .. N |-> Reading(b, n)]
  OBVIOUS
<1>3. (\A n \in 0 .. N : f[n] = Reading(b, n)) /\ f = [n \in 0 .. N |-> f[n]]
  BY <1>2
<1>4. Reading(b, 0) = [ok |-> TRUE, bit |-> 0, set |-> TRUE, bm |-> reiser4_bitmap_create(s[1])]
  <2>1. RunEnds(b)[0] = 0 /\ b.total = total /\ (0 % 2 = 0) = TRUE
    BY RunEndsDef DEF MapsOf
  <2>2. b.map \cap Bits(0) = {} /\ Cardinality({}) = 0
    BY FS_EmptySet DEF Bits
  <2>3. Part(b, 0) = reiser4_bitmap_create(total)
    BY <2>1, <2>2 DEF Part, reiser4_bitmap_create
  <2> QED
    BY <2>1, <2>3 DEF Reading
<1>5. AreReads(f, N, s)
  <2>1. ASSUME NEW n \in 1 .. N PROVE f[n] = UnpackRun(f[n - 1], s[n + 1])
    <3>1. n \in 1 .. total + 1 /\ n \in 0 .. N /\ n - 1 \in 0 .. N
      BY <1>1
    <3>2. f[n] = Reading(b, n) /\ f[n - 1] = Reading(b, n - 1)
      BY <1>3, <3>1
    <3>3. UnpackRun(Reading(b, n - 1), RunEnds(b)[n] - RunEnds(b)[n - 1]) = Reading(b, n)
      BY <3>1, RunRead
    <3> QED
      BY <3>2, <3>3
  <2>2. f[0] = Reading(b, 0)
    BY <1>1, <1>3
  <2> QED
    BY <1>4, <2>1, <2>2 DEF AreReads
<1>6. PICK g : g = CHOOSE h : ReadFunction(h, N, s)
  OBVIOUS
<1>7. ReadFunction(g, N, s)
  <2>1. ReadFunction(f, N, s)
    BY <1>1, <1>3, <1>5, ReadsUnfold
  <2> QED
    BY <1>6, <2>1, Zenon
<1>8. Unpacked(s) = g[N]
  <2>1. Len(s) - 1 = N
    OBVIOUS
  <2> QED
    BY <1>6, <2>1, Zenon DEF Unpacked, ReadFunction
<1>9. g[N] = f[N]
  <2>1. AreReads(g, N, s)
    BY <1>1, <1>7, ReadsUnfold
  <2>2. N \in 0 .. N
    OBVIOUS
  <2> QED
    BY <1>1, <1>5, <2>1, <2>2, SameReads
<1> QED
  BY <1>1, <1>3, <1>8, <1>9

(* Reading a saved map back gives its valid bits and a counter of them, and *)
(* no proper prefix of what was saved is accepted.                          *)
LEMMA PackUnpack ==
  ASSUME NEW total \in Nat \ {0}, NEW b \in MapsOf(total)
  PROVE  LET s == reiser4_bitmap_pack(b)
         IN  /\ reiser4_bitmap_unpack(s) = [ok |-> TRUE, bm |-> Part(b, total)]
             /\ \A k \in 0 .. Len(s) - 1 : ~reiser4_bitmap_unpack(SubSeq(s, 1, k)).ok
<1> DEFINE R == Runs(b)
           e == RunEnds(b)
           s == reiser4_bitmap_pack(b)
<1>1. R \in 1 .. total + 1 /\ e[R] = total /\ \A n \in 0 .. R - 1 : e[n] < total
  BY LastRun
<1>2. /\ s \in Seq(Nat) /\ Len(s) = R + 1 /\ s[1] = total
      /\ \A n \in 1 .. R : s[n + 1] = e[n] - e[n - 1]
  BY PackSeq
<1>3. \A n \in 0 .. total + 1 : Reading(b, n).ok = TRUE /\ Reading(b, n).bit = e[n]
        /\ Reading(b, n).bm = Part(b, e[n])
  BY DEF Reading
<1>4. b.total = total /\ \A c \in 0 .. total : Part(b, c).total = total
  BY DEF MapsOf, Part
<1>5. reiser4_bitmap_unpack(s) = [ok |-> TRUE, bm |-> Part(b, total)]
  <2>1. s # <<>>
    BY <1>1, <1>2
  <2>2. R \in 0 .. R
    BY <1>1
  <2>3. Unpacked(s) = Reading(b, R)
    BY <1>2, <2>2, PrefixRead
  <2> HIDE DEF s, R, e
  <2>4. Unpacked(s).ok = TRUE /\ Unpacked(s).bit = total /\ Unpacked(s).bm = Part(b, total)
    BY <1>1, <1>3, <2>3
  <2>5. Unpacked(s).bm.total = total
    BY <1>4, <2>4
  <2> QED
    BY <2>1, <2>4, <2>5 DEF reiser4_bitmap_unpack
<1>6. ASSUME NEW k \in 0 .. Len(s) - 1 PROVE ~reiser4_bitmap_unpack(SubSeq(s, 1, k)).ok
  <2> DEFINE p == SubSeq(s, 1, k)
  <2>1. k \in 0 .. R
    BY <1>1, <1>2
  <2>2. Len(p) = k /\ \A i \in 1 .. k : p[i] = s[i]
    <3>1. \A i \in 1 .. k : s[i] \in Nat
      BY <1>1, <1>2, <2>1
    <3> QED
      BY <2>1, <3>1, SubSeqProperties
  <2>3. CASE k = 0
    <3>1. p = <<>>
      BY <2>3, SubSeqEmpty
    <3> QED
      BY <3>1 DEF reiser4_bitmap_unpack
  <2>4. CASE k # 0
    <3>1. k - 1 \in 0 .. R - 1 /\ k - 1 \in 0 .. R /\ k - 1 \in 0 .. total + 1
      BY <1>1, <2>1, <2>4
    <3> HIDE DEF p, s
    <3>2. Len(p) = (k - 1) + 1 /\ p[1] = total
      BY <1>2, <2>1, <2>2, <2>4
    <3>3. \A n \in 1 .. k - 1 : p[n + 1] = e[n] - e[n - 1]
      <4> TAKE n \in 1 .. k - 1
      <4>1. n \in 1 .. R /\ n + 1 \in 1 .. k
        BY <1>1, <2>1
      <4> QED
        BY <1>2, <2>2, <4>1
    <3>4. Unpacked(p) = Reading(b, k - 1)
      BY <3>1, <3>2, <3>3, PrefixRead
    <3> HIDE DEF e, R
    <3>5. Unpacked(p).bit = e[k - 1] /\ Unpacked(p).bm = Part(b, e[k - 1]) /\ e[k - 1] < total
      BY <1>1, <1>3, <3>1, <3>4
    <3>6. e[k - 1] \in 0 .. total
      BY <3>1, RunEndsDef DEF e
    <3>7. Unpacked(p).bm.total = total
      BY <1>4, <3>5, <3>6
    <3>8. Unpacked(p).bit # Unpacked(p).bm.total
      BY <3>5, <3>6, <3>7
    <3>9. p # <<>>
      BY <2>2, <2>4
    <3> QED
      BY <3>8, <3>9 DEF reiser4_bitmap_unpack, p
  <2> QED
    BY <2>3, <2>4
<1> QED
  BY <1>5, <1>6

-----------------------------------------------------------------------------

(* In every state the map in memory has an exact counter, and the file      *)
(* holds nothing or a saved map: the bound checks of the region functions,  *)
(* and the runs of the saved form, keep it so.                              *)
MapRight == \E total \in Totals : bm \in MapsOf(total) /\ Exact(bm)

SavedForms == {<<>>} \cup UNION {{reiser4_bitmap_pack(b) : b \in MapsOf(total)} : total \in Totals}

IInv == MapRight /\ stream \in SavedForms

(* A new map has no bits and a counter of zero.                             *)
LEMMA InitRight == Init => IInv
<1> SUFFICES ASSUME Init PROVE IInv
  OBVIOUS
<1>1. PICK len \in Totals : bm = reiser4_bitmap_create(len)
  BY DEF Init
<1>2. len \in Nat
  BY DEF Totals
<1>3. MapRight
  BY <1>1, <1>2, CreateExact DEF MapRight
<1>4. stream \in SavedForms
  BY DEF Init, SavedForms
<1> QED
  BY <1>3, <1>4 DEF IInv

(* Every function of bitmap.c keeps the map right.                          *)
LEMMA NextRight == IInv /\ [Next]_vars => IInv'
<1> SUFFICES ASSUME IInv, [Next]_vars PROVE IInv'
  OBVIOUS
<1>1. PICK total \in Totals : bm \in MapsOf(total) /\ Exact(bm)
  BY DEF IInv, MapRight
<1>2. total \in Nat \ {0} /\ MaxTotal \in Nat
  BY MaxTotalAssumption DEF Totals
<1>3. ASSUME NEW len \in Totals, bm' \in MapsOf(len), Exact(bm'), UNCHANGED stream PROVE IInv'
  BY <1>3 DEF IInv, MapRight
<1>4. CASE Mark
  <2>1. PICK b \in 0 .. MaxTotal : bm' = reiser4_bitmap_mark(bm, b) /\ UNCHANGED stream
    BY <1>4 DEF Mark
  <2>2. bm' \in MapsOf(total) /\ Exact(bm')
    BY <1>1, <1>2, <2>1, MarkExact
  <2> QED
    BY <1>3, <2>1, <2>2
<1>5. CASE Clear
  <2>1. PICK b \in 0 .. MaxTotal : bm' = reiser4_bitmap_clear(bm, b) /\ UNCHANGED stream
    BY <1>5 DEF Clear
  <2>2. bm' \in MapsOf(total) /\ Exact(bm')
    BY <1>1, <1>2, <2>1, ClearExact
  <2> QED
    BY <1>3, <2>1, <2>2
<1>6. CASE MarkRegion
  <2>1. PICK s \in 0 .. MaxTotal, c \in 0 .. MaxTotal :
           bm' = reiser4_bitmap_mark_region(bm, s, c) /\ UNCHANGED stream
    BY <1>6 DEF MarkRegion
  <2>2. s \in Nat /\ c \in Nat
    BY <1>2
  <2>3. LET r == reiser4_bitmap_mark_region(bm, s, c) IN r \in MapsOf(total) /\ Exact(r)
    BY <1>1, <1>2, <2>2, MarkRegionExact
  <2> QED
    BY <1>3, <2>1, <2>3
<1>7. CASE ClearRegion
  <2>1. PICK s \in 0 .. MaxTotal, c \in 0 .. MaxTotal :
           bm' = reiser4_bitmap_clear_region(bm, s, c) /\ UNCHANGED stream
    BY <1>7 DEF ClearRegion
  <2>2. s \in Nat /\ c \in Nat
    BY <1>2
  <2>3. LET r == reiser4_bitmap_clear_region(bm, s, c) IN r \in MapsOf(total) /\ Exact(r)
    BY <1>1, <1>2, <2>2, ClearRegionExact
  <2> QED
    BY <1>3, <2>1, <2>3
<1>8. CASE Invert
  <2>1. bm' \in MapsOf(total) /\ Exact(bm')
    BY <1>1, <1>2, <1>8, InvertExact DEF Invert
  <2> QED
    BY <1>3, <1>8, <2>1 DEF Invert
<1>9. CASE Resize
  <2>1. PICK len \in Totals : bm' = reiser4_bitmap_resize(bm, len) /\ UNCHANGED stream
    BY <1>9 DEF Resize
  <2>2. len \in Nat
    BY DEF Totals
  <2>3. bm' \in MapsOf(len) /\ Exact(bm')
    BY <1>1, <1>2, <2>1, <2>2, ResizeExact
  <2> QED
    BY <1>3, <2>1, <2>3
<1>10. CASE Pack
  <2>1. reiser4_bitmap_pack(bm) \in SavedForms
    BY <1>1 DEF SavedForms
  <2> QED
    BY <1>1, <1>10, <2>1 DEF Pack, IInv, MapRight
<1>11. CASE Unpack
  <2> DEFINE got == reiser4_bitmap_unpack(stream)
  <2>1. got.ok /\ bm' = got.bm /\ UNCHANGED stream
    BY <1>11 DEF Unpack
  <2>2. stream # <<>>
    BY <2>1 DEF reiser4_bitmap_unpack
  <2>3. PICK len \in Totals : \E b \in MapsOf(len) : stream = reiser4_bitmap_pack(b)
    BY <2>2 DEF IInv, SavedForms
  <2>4. len \in Nat \ {0} /\ len \in 0 .. len
    BY DEF Totals
  <2> PICK b \in MapsOf(len) : stream = reiser4_bitmap_pack(b)
    BY <2>3
  <2>5. got = [ok |-> TRUE, bm |-> Part(b, len)]
    BY <2>4, PackUnpack
  <2> HIDE DEF got
  <2>6. bm' = Part(b, len)
    BY <2>1, <2>5
  <2>7. bm' \in MapsOf(len) /\ Exact(bm')
    BY <2>4, <2>6, PartExact
  <2> QED
    BY <1>3, <2>1, <2>7
<1>12. CASE UNCHANGED vars
  BY <1>12 DEF vars, IInv, MapRight
<1> QED
  BY <1>4, <1>5, <1>6, <1>7, <1>8, <1>9, <1>10, <1>11, <1>12 DEF Next

(* reiser4_bitmap: after any sequence of markings, inversions, resizes,     *)
(* saves and reloads the counter is the number of marked bits, and          *)
(* reiser4_bitmap_test_region() answers as its comment says, for maps and   *)
(* bytes of any size.                                                       *)
THEOREM CountersStayExact == Spec => []MarkedExact
<1>1. IInv => MarkedExact
  <2> SUFFICES ASSUME IInv PROVE MarkedExact
    OBVIOUS
  <2>1. PICK total \in Totals : bm \in MapsOf(total) /\ Exact(bm)
    BY DEF IInv, MapRight
  <2>2. total \in Nat /\ bm.total = total
    BY <2>1 DEF Totals, MapsOf
  <2> QED
    BY <2>1, <2>2, TestRegionExact DEF MarkedExact, Exact
<1> QED
  BY <1>1, InitRight, NextRight, PTL DEF Spec

(* reiser4_bitmap_pack() and reiser4_bitmap_unpack(): what is saved in any  *)
(* reachable state is read back, and nothing shorter is accepted.           *)
THEOREM SavedMapsReadBack == Spec => []PackRoundTrip
<1>1. IInv => PackRoundTrip
  <2> SUFFICES ASSUME IInv PROVE PackRoundTrip
    OBVIOUS
  <2>1. PICK total \in Totals : bm \in MapsOf(total) /\ Exact(bm)
    BY DEF IInv, MapRight
  <2>2. total \in Nat \ {0} /\ bm.total = total
    BY <2>1 DEF Totals, MapsOf
  <2>3. Part(bm, total) = [bm EXCEPT !.map = @ \cap Bits(bm.total)]
    <3>1. bm = [map |-> bm.map, marked |-> bm.marked, total |-> total]
      BY <2>1 DEF MapsOf
    <3>2. bm.marked = Cardinality(bm.map \cap Bits(total))
      BY <2>1, <2>2 DEF Exact
    <3> QED
      BY <2>2, <3>1, <3>2 DEF Part
  <2>4. LET s == reiser4_bitmap_pack(bm)
        IN  /\ reiser4_bitmap_unpack(s) = [ok |-> TRUE, bm |-> Part(bm, total)]
            /\ \A k \in 0 .. Len(s) - 1 : ~reiser4_bitmap_unpack(SubSeq(s, 1, k)).ok
    BY <2>1, <2>2, PackUnpack
  <2> QED
    BY <2>3, <2>4 DEF PackRoundTrip
<1> QED
  BY <1>1, InitRight, NextRight, PTL DEF Spec
=============================================================================
