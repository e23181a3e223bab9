--------------------------- MODULE Node40PairProofs --------------------------
(***************************************************************************)
(* The free space counters of two nodes are exact, no mergeable items meet *)
(* inside of one, the keys grow through both, and a shift between the two  *)
(* loses no unit and leaves the insert point where it is among them, for   *)
(* nodes, item headers and keys of every size.                             *)
(*                                                                         *)
(* The order of the lemmas is that of the code: sums of item lengths;      *)
(* items, keys and what may stand side by side; node40_expand(),           *)
(* node40_shrink() and node40_set_key(); what items hold, unit by unit;    *)
(* the units of the border tail and where they land; the first pass of     *)
(* node40_shift(), the whole items of the second and the new tail of the   *)
(* third; insert, write, remove and truncate; a shift into a new neighbour *)
(* with the insert point at the end; the theorems.                         *)
(***************************************************************************)
EXTENDS Node40Pair, Basics, SequenceTheorems

(* The items of the tree's leaves: stat data and tails. *)
Kinds   == {"sd", "tail"}
ItemSet == [key : Nat, kind : Kinds, len : Nat \ {0}]

-----------------------------------------------------------------------------
(* Sums of lengths *)

\* The sums of the first lengths of s
IsSums(g, s) ==
  /\ g \in [0 .. Len(s) -> Nat]
  /\ g[0] = 0
  /\ \A i \in 1 .. Len(s) : g[i] = g[i - 1] + s[i].len

SumRecursion(g, s) == g = [i \in 0 .. Len(s) |-> IF i = 0 THEN 0 ELSE g[i - 1] + s[i].len]

(* The sums exist and SumLen() is the last of them.                         *)
LEMMA SumExists ==
  ASSUME NEW s \in Seq(ItemSet)
  PROVE  \E g : IsSums(g, s)
<1> DEFINE N == Len(s)
           H == [n \in 1 .. N |-> [x \in Nat |-> x + s[n].len]]
<1>1. N \in Nat /\ \A n \in 1 .. N : s[n] \in ItemSet
  BY ElementOfSeq
<1>2. \A n \in 1 .. N : s[n].len \in Nat
  BY <1>1 DEF ItemSet
<1>3. H \in [1 .. N -> [Nat -> Nat]]
  BY <1>2
<1>4. \A n \in 1 .. N : \A x \in Nat : H[n][x] = x + s[n].len
  OBVIOUS
<1> HIDE DEF H
<1>5. PICK f : IsIterate(f, N, Nat, 0, H)
  BY <1>1, <1>3, Iterates
<1>6. f \in [0 .. N -> Nat] /\ f[0] = 0 /\ \A n \in 1 .. N : f[n] = H[n][f[n - 1]]
  BY <1>5 DEF IsIterate
<1>7. \A n \in 1 .. N : n - 1 \in 0 .. N
  BY <1>1
<1> QED
  BY <1>4, <1>6, <1>7, SMTT(30) DEF IsSums

(* The sum of the lengths, read off any function of the partial sums.        *)
LEMMA SumIs ==
  ASSUME NEW s \in Seq(ItemSet), NEW g, IsSums(g, s)
  PROVE  SumLen(s) = g[Len(s)] /\ SumLen(s) \in Nat
<1> DEFINE N == Len(s)
<1>0. N \in Nat
  OBVIOUS
<1>1. SumRecursion(g, s)
  <2>1. g = [i \in 0 .. N |-> g[i]]
    BY DEF IsSums
  <2>2. \A i \in 0 .. N : g[i] = IF i = 0 THEN 0 ELSE g[i - 1] + s[i].len
    BY <1>0 DEF IsSums
  <2> QED
    BY <2>1, <2>2 DEF SumRecursion
<1> DEFINE c == CHOOSE f : SumRecursion(f, s)
<1>2. SumRecursion(c, s)
  BY <1>1
<1> HIDE DEF c
<1>3. SumLen(s) = c[Len(s)]
  BY Zenon DEF SumLen, SumRecursion, c
<1>4. StepAlike(c, g, N)
  <2>1. c[0] = 0
    BY <1>0, <1>2 DEF SumRecursion
  <2>2. \A i \in 1 .. N : c[i] = c[i - 1] + s[i].len
    BY <1>0, <1>2 DEF SumRecursion
  <2> QED
    BY <2>1, <2>2 DEF IsSums, StepAlike
<1>5. \A n \in 0 .. N : c[n] = g[n]
  BY <1>0, <1>4, SameIterates
<1>6. N \in 0 .. N
  BY <1>0
<1> QED
  BY <1>3, <1>5, <1>6 DEF IsSums

(* The lengths of two sequences of items add up when they are joined.        *)
LEMMA SumConcat ==
  ASSUME NEW s \in Seq(ItemSet), NEW t \in Seq(ItemSet)
  PROVE  /\ SumLen(s \o t) = SumLen(s) + SumLen(t)
         /\ SumLen(s) \in Nat /\ SumLen(t) \in Nat
<1> DEFINE m == Len(s)  n == Len(t)
<1>1. PICK a : IsSums(a, s)
  BY SumExists
<1>2. PICK b : IsSums(b, t)
  BY SumExists
<1>3. SumLen(s) = a[m] /\ SumLen(t) = b[n] /\ SumLen(s) \in Nat /\ SumLen(t) \in Nat
  BY <1>1, <1>2, SumIs
<1> DEFINE g == [i \in 0 .. m + n |-> IF i <= m THEN a[i] ELSE a[m] + b[i - m]]
           st == s \o t
<1>4. /\ st \in Seq(ItemSet) /\ Len(st) = m + n
      /\ \A i \in 1 .. m + n : st[i] = IF i <= m THEN s[i] ELSE t[i - m]
  BY ConcatProperties
<1>5. /\ m \in Nat /\ n \in Nat
      /\ a \in [0 .. m -> Nat] /\ a[0] = 0 /\ \A i \in 1 .. m : a[i] = a[i - 1] + s[i].len
      /\ b \in [0 .. n -> Nat] /\ b[0] = 0 /\ \A i \in 1 .. n : b[i] = b[i - 1] + t[i].len
  BY <1>1, <1>2 DEF IsSums
<1>6. \A i \in 1 .. n : t[i].len \in Nat
  <2>1. \A i \in 1 .. n : t[i] \in ItemSet
    BY ElementOfSeq
  <2> QED
    BY <2>1 DEF ItemSet
<1> HIDE DEF m, n, st
<1>7. /\ \A i \in 0 .. m : g[i] = a[i]
      /\ \A i \in 0 .. n : g[m + i] = a[m] + b[i]
  <2>1. \A i \in 0 .. m : i \in 0 .. m + n /\ i <= m
    BY <1>5
  <2>2. ASSUME NEW i \in 1 .. n PROVE g[m + i] = a[m] + b[i]
    <3>1. m + i \in 0 .. m + n /\ ~(m + i <= m) /\ (m + i) - m = i
      BY <1>5
    <3> QED
      BY <3>1
  <2>3. g[m + 0] = a[m] + b[0]
    <3>1. m + 0 = m /\ m \in 0 .. m + n /\ m \in 0 .. m /\ a[m] \in Nat
      BY <1>5
    <3>2. g[m] = a[m]
      BY <3>1
    <3> QED
      BY <1>5, <3>1, <3>2
  <2>4. \A i \in 0 .. n : i = 0 \/ i \in 1 .. n
    BY <1>5
  <2> QED
    BY <2>1, <2>2, <2>3, <2>4
<1>8. g \in [0 .. m + n -> Nat]
  BY <1>5
<1> HIDE DEF g
<1>9. ASSUME NEW i \in 1 .. m + n PROVE g[i] = g[i - 1] + st[i].len
  <2>1. CASE i <= m
    <3>1. i \in 0 .. m /\ i - 1 \in 0 .. m /\ i \in 1 .. m
      BY <1>5, <2>1
    <3> QED
      BY <1>4, <1>5, <1>7, <2>1, <3>1
  <2>2. CASE i > m
    <3> DEFINE j == i - m
    <3>1. j \in 1 .. n /\ j \in 0 .. n /\ j - 1 \in 0 .. n /\ m + j = i /\ m + (j - 1) = i - 1 /\ ~(i <= m)
      BY <1>5, <2>2
    <3>2. st[i] = t[j]
      BY <1>4, <3>1
    <3> HIDE DEF j
    <3>3. g[i] = a[m] + b[j] /\ g[i - 1] = a[m] + b[j - 1]
      BY <1>7, <3>1
    <3>4. b[j] = b[j - 1] + t[j].len /\ b[j - 1] \in Nat /\ t[j].len \in Nat
      BY <1>5, <1>6, <3>1
    <3>5. a[m] \in Nat
      BY <1>5
    <3> QED
      BY <3>2, <3>3, <3>4, <3>5
  <2> QED
    BY <1>5, <2>1, <2>2
<1>10. IsSums(g, st)
  <2>1. 0 \in 0 .. m
    BY <1>5
  <2> QED
    BY <1>4, <1>5, <1>7, <1>8, <1>9, <2>1 DEF IsSums
<1>11. SumLen(st) = g[m + n]
  BY <1>4, <1>10, SumIs
<1>12. g[m + n] = a[m] + b[n]
  BY <1>5, <1>7
<1> QED
  BY <1>3, <1>11, <1>12 DEF st

(* One item sums up to its own length.                                       *)
LEMMA SumOne ==
  ASSUME NEW x \in ItemSet
  PROVE  SumLen(<<x>>) = x.len
<1>1. <<x>> \in Seq(ItemSet) /\ Len(<<x>>) = 1 /\ x.len \in Nat
  BY DEF ItemSet
<1>2. PICK g : IsSums(g, <<x>>)
  BY <1>1, SumExists
<1>3. g[0] = 0 /\ g[1] = g[1 - 1] + x.len
  BY <1>1, <1>2 DEF IsSums
<1>4. SumLen(<<x>>) = g[1]
  BY <1>1, <1>2, SumIs
<1> QED
  BY <1>1, <1>3, <1>4

(* No items sum up to nothing.                                               *)
LEMMA SumNone == SumLen(<<>>) = 0
<1>1. <<>> \in Seq(ItemSet) /\ Len(<<>>) = 0
  OBVIOUS
<1>2. PICK g : IsSums(g, <<>>)
  BY <1>1, SumExists
<1> QED
  BY <1>1, <1>2, SumIs DEF IsSums

-----------------------------------------------------------------------------
(* Items and sequences of items *)

\* The first key of the object that a key belongs to
First(k) == (k \div KeySpan) * KeySpan

\* Stat data has the first key of its object; tails lie behind it and end with
\* the object.
Good(it) ==
  /\ LastKey(it) < First(it.key) + KeySpan
  /\ IF Splittable(it) THEN First(it.key) < it.key ELSE it.key = First(it.key)

GoodItems == {it \in ItemSet : Good(it)}

\* Two items that may follow one another inside of a node
Tight(a, b) == Precedes(a, b) /\ ~reiser4_item_mergeable(a, b)

Neat(s) == \A i \in 1 .. Len(s) - 1 : Tight(s[i], s[i + 1])

Joint(s, t)  == s # <<>> /\ t # <<>> => Tight(s[Len(s)], t[1])
Border(s, t) == s # <<>> /\ t # <<>> => Precedes(s[Len(s)], t[1])

\* What items take of a node, with their headers
Weight(s) == SumLen(s) + Len(s) * IhSize

(* Bytes and headers of two sequences add up.                               *)
LEMMA WeightConcat ==
  ASSUME NEW s \in Seq(ItemSet), NEW t \in Seq(ItemSet)
  PROVE  Weight(s \o t) = Weight(s) + Weight(t) /\ Weight(s) \in Nat /\ Weight(t) \in Nat
<1> DEFINE m == Len(s)  n == Len(t)
<1>1. m \in Nat /\ n \in Nat /\ IhSize \in Nat /\ Len(s \o t) = m + n
  BY ConcatProperties, NodeConstants
<1>2. SumLen(s \o t) = SumLen(s) + SumLen(t) /\ SumLen(s) \in Nat /\ SumLen(t) \in Nat
  BY SumConcat
<1> HIDE DEF m, n
<1>3. (m + n) * IhSize = m * IhSize + n * IhSize /\ m * IhSize \in Nat /\ n * IhSize \in Nat
  BY <1>1
<1>4. Weight(s \o t) = SumLen(s \o t) + (m + n) * IhSize
  BY <1>1 DEF Weight
<1>5. Weight(s) = SumLen(s) + m * IhSize /\ Weight(t) = SumLen(t) + n * IhSize
  BY DEF Weight, m, n
<1> QED
  BY <1>2, <1>3, <1>4, <1>5

(* One item weighs its body and its header.                                  *)
LEMMA WeightOne ==
  ASSUME NEW x \in ItemSet
  PROVE  Weight(<<x>>) = x.len + IhSize /\ x.len \in Nat /\ x.len > 0
<1>1. Len(<<x>>) = 1 /\ IhSize \in Nat /\ x.len \in Nat /\ x.len > 0
  BY NodeConstants DEF ItemSet
<1>2. SumLen(<<x>>) = x.len
  BY SumOne
<1> QED
  BY <1>1, <1>2 DEF Weight

(* No items weigh nothing.                                                   *)
LEMMA WeightNone == Weight(<<>>) = 0
<1>1. Len(<<>>) = 0 /\ IhSize \in Nat
  BY NodeConstants
<1> QED
  BY <1>1, SumNone DEF Weight

(* Two sequences in order make one when their ends go together.             *)
LEMMA NeatConcat ==
  ASSUME NEW s \in Seq(ItemSet), NEW t \in Seq(ItemSet)
  PROVE  Neat(s \o t) <=> Neat(s) /\ Neat(t) /\ Joint(s, t)
<1> DEFINE m == Len(s)  n == Len(t)  st == s \o t
<1>1. /\ m \in Nat /\ n \in Nat /\ Len(st) = m + n
      /\ \A i \in 1 .. m + n : st[i] = IF i <= m THEN s[i] ELSE t[i - m]
      /\ (s # <<>> <=> m # 0) /\ (t # <<>> <=> n # 0)
  BY ConcatProperties, EmptySeq
<1> HIDE DEF m, n, st
<1>2. /\ Neat(st) <=> \A i \in 1 .. (m + n) - 1 : Tight(st[i], st[i + 1])
      /\ Neat(s) <=> \A i \in 1 .. m - 1 : Tight(s[i], s[i + 1])
      /\ Neat(t) <=> \A i \in 1 .. n - 1 : Tight(t[i], t[i + 1])
      /\ Joint(s, t) <=> (m # 0 /\ n # 0 => Tight(s[m], t[1]))
  BY <1>1 DEF Neat, Joint, m, n
<1>3. /\ \A i \in 1 .. m : st[i] = s[i]
      /\ \A i \in 1 .. n : st[m + i] = t[i]
  <2>1. \A i \in 1 .. m : i \in 1 .. m + n /\ i <= m
    BY <1>1
  <2>2. \A i \in 1 .. n : m + i \in 1 .. m + n /\ ~(m + i <= m) /\ (m + i) - m = i
    BY <1>1
  <2> QED
    BY <1>1, <2>1, <2>2
<1>4. ASSUME Neat(st) PROVE Neat(s) /\ Neat(t) /\ Joint(s, t)
  <2>1. ASSUME NEW i \in 1 .. m - 1 PROVE Tight(s[i], s[i + 1])
    <3>1. i \in 1 .. m /\ i + 1 \in 1 .. m /\ i \in 1 .. (m + n) - 1
      BY <1>1
    <3> QED
      BY <1>2, <1>3, <1>4, <3>1
  <2>2. ASSUME NEW i \in 1 .. n - 1 PROVE Tight(t[i], t[i + 1])
    <3>1. i \in 1 .. n /\ i + 1 \in 1 .. n /\ m + i \in 1 .. (m + n) - 1 /\ (m + i) + 1 = m + (i + 1)
      BY <1>1
    <3> QED
      BY <1>2, <1>3, <1>4, <3>1
  <2>3. ASSUME m # 0, n # 0 PROVE Tight(s[m], t[1])
    <3>1. m \in 1 .. m /\ 1 \in 1 .. n /\ m \in 1 .. (m + n) - 1
      BY <1>1, <2>3
    <3> QED
      BY <1>2, <1>3, <1>4, <3>1
  <2> QED
    BY <1>2, <2>1, <2>2, <2>3
<1>5. ASSUME Neat(s), Neat(t), Joint(s, t) PROVE Neat(st)
  <2> SUFFICES ASSUME NEW i \in 1 .. (m + n) - 1 PROVE Tight(st[i], st[i + 1])
    BY <1>2
  <2>1. CASE i < m
    <3>1. i \in 1 .. m /\ i + 1 \in 1 .. m /\ i \in 1 .. m - 1
      BY <1>1, <2>1
    <3> QED
      BY <1>2, <1>3, <1>5, <3>1
  <2>2. CASE i = m
    <3>1. m # 0 /\ n # 0 /\ m \in 1 .. m /\ 1 \in 1 .. n
      BY <1>1, <2>2
    <3> QED
      BY <1>2, <1>3, <1>5, <2>2, <3>1
  <2>3. CASE i > m
    <3> DEFINE j == i - m
    <3>1. j \in 1 .. n /\ j + 1 \in 1 .. n /\ j \in 1 .. n - 1 /\ i = m + j /\ i + 1 = m + (j + 1)
      BY <1>1, <2>3
    <3> HIDE DEF j
    <3> QED
      BY <1>2, <1>3, <1>5, <3>1
  <2> QED
    BY <1>1, <2>1, <2>2, <2>3
<1> QED
  BY <1>4, <1>5 DEF st

(* One item has no neighbour to be out of order with.                        *)
LEMMA NeatOne ==
  ASSUME NEW x
  PROVE  Neat(<<x>>)
  BY DEF Neat

\* s cut behind its p-th and its q-th element
Pieces(S, s, p, q, A, M, B) ==
  /\ A \in Seq(S) /\ Len(A) = p /\ \A i \in 1 .. p : A[i] = s[i]
  /\ M \in Seq(S) /\ Len(M) = q - p /\ \A i \in 1 .. q - p : M[i] = s[p + i]
  /\ B \in Seq(S) /\ Len(B) = Len(s) - q /\ \A i \in 1 .. Len(s) - q : B[i] = s[q + i]
  /\ s = (A \o M) \o B

(* A sequence can be cut at any two places.                                 *)
LEMMA Cut ==
  ASSUME NEW S, NEW s \in Seq(S), NEW p \in 0 .. Len(s), NEW q \in p .. Len(s)
  PROVE  Pieces(S, s, p, q, SubSeq(s, 1, p), SubSeq(s, p + 1, q), SubSeq(s, q + 1, Len(s)))
<1> DEFINE n == Len(s)
           A == SubSeq(s, 1, p)
           M == SubSeq(s, p + 1, q)
           B == SubSeq(s, q + 1, n)
<1>0. n \in Nat /\ p \in Nat /\ q \in Nat /\ p <= q /\ q <= n /\ \A i \in 1 .. n : s[i] \in S
  BY ElementOfSeq
<1>1. A \in Seq(S) /\ Len(A) = p /\ \A i \in 1 .. p : A[i] = s[i]
  BY <1>0, SubSeqProperties
<1>2. M \in Seq(S) /\ Len(M) = q - p /\ \A i \in 1 .. q - p : M[i] = s[p + i]
  <2>1. \A i \in p + 1 .. q : s[i] \in S
    BY <1>0
  <2>2. p + 1 \in Int /\ q \in Int
    BY <1>0
  <2>3. /\ M \in Seq(S)
        /\ Len(M) = IF p + 1 <= q THEN q - (p + 1) + 1 ELSE 0
        /\ \A i \in 1 .. q - (p + 1) + 1 : M[i] = s[(p + 1) + i - 1]
    BY <2>1, <2>2, SubSeqProperties
  <2> HIDE DEF M
  <2> QED
    BY <1>0, <2>3
<1>3. B \in Seq(S) /\ Len(B) = n - q /\ \A i \in 1 .. n - q : B[i] = s[q + i]
  <2>1. \A i \in q + 1 .. n : s[i] \in S
    BY <1>0
  <2>2. q + 1 \in Int /\ n \in Int
    BY <1>0
  <2>3. /\ B \in Seq(S)
        /\ Len(B) = IF q + 1 <= n THEN n - (q + 1) + 1 ELSE 0
        /\ \A i \in 1 .. n - (q + 1) + 1 : B[i] = s[(q + 1) + i - 1]
    BY <2>1, <2>2, SubSeqProperties
  <2> HIDE DEF B, n
  <2> QED
    BY <1>0, <2>3
<1> HIDE DEF A, M, B
<1>4. /\ A \o M \in Seq(S) /\ Len(A \o M) = q
      /\ \A i \in 1 .. q : (A \o M)[i] = s[i]
  <2>1. /\ A \o M \in Seq(S) /\ Len(A \o M) = p + (q - p)
        /\ \A i \in 1 .. p + (q - p) : (A \o M)[i] = IF i <= p THEN A[i] ELSE M[i - p]
    BY <1>1, <1>2, ConcatProperties
  <2>2. p + (q - p) = q
    BY <1>0
  <2>3. ASSUME NEW i \in 1 .. q PROVE (A \o M)[i] = s[i]
    <3>1. i <= p => i \in 1 .. p
      BY <1>0
    <3>2. ~(i <= p) => i - p \in 1 .. q - p /\ p + (i - p) = i
      BY <1>0
    <3> QED
      BY <1>1, <1>2, <2>1, <2>2, <3>1, <3>2
  <2> QED
    BY <2>1, <2>2, <2>3
<1>5. (A \o M) \o B = s
  <2> DEFINE C == A \o M
  <2>1. C \in Seq(S) /\ Len(C) = q /\ \A i \in 1 .. q : C[i] = s[i]
    BY <1>4
  <2> HIDE DEF C, n
  <2>2. /\ C \o B \in Seq(S) /\ Len(C \o B) = q + (n - q)
        /\ \A i \in 1 .. q + (n - q) : (C \o B)[i] = IF i <= q THEN C[i] ELSE B[i - q]
    <3>1. /\ C \o B \in Seq(S) /\ Len(C \o B) = Len(C) + Len(B)
          /\ \A i \in 1 .. Len(C) + Len(B) : (C \o B)[i] = IF i <= Len(C) THEN C[i] ELSE B[i - Len(C)]
      BY <1>3, <2>1, ConcatProperties
    <3> QED
      BY <1>3, <2>1, <3>1, Zenon
  <2>3. q + (n - q) = n
    BY <1>0
  <2>4. ASSUME NEW i \in 1 .. n PROVE (C \o B)[i] = s[i]
    <3>1. i <= q => i \in 1 .. q
      BY <1>0
    <3>2. ~(i <= q) => i - q \in 1 .. n - q /\ q + (i - q) = i
      BY <1>0
    <3> QED
      BY <1>3, <2>1, <2>2, <2>3, <3>1, <3>2
  <2>5. C \o B = s
    <3>1. Len(C \o B) = Len(s) /\ \A i \in 1 .. Len(C \o B) : (C \o B)[i] = s[i]
      BY <2>2, <2>3, <2>4 DEF n
    <3> QED
      BY <2>2, <3>1, SeqEqual
  <2> QED
    BY <2>5 DEF C
<1> QED
  BY <1>1, <1>2, <1>3, <1>5 DEF A, M, B, n, Pieces

With(s, i, y) == [s EXCEPT ![i] = y]

(* One element changed.                                                     *)
LEMMA Changed ==
  ASSUME NEW S, NEW s \in Seq(S), NEW i \in 1 .. Len(s), NEW y \in S
  PROVE  /\ With(s, i, y) = (SubSeq(s, 1, i - 1) \o <<y>>) \o SubSeq(s, i + 1, Len(s))
         /\ s = (SubSeq(s, 1, i - 1) \o <<s[i]>>) \o SubSeq(s, i + 1, Len(s))
         /\ SubSeq(s, i, i) = <<s[i]>>
<1> DEFINE n == Len(s)
           t == [s EXCEPT ![i] = y]
<1>1. n \in Nat /\ i \in Nat /\ 1 <= i /\ i <= n
  OBVIOUS
<1>2. t \in Seq(S) /\ Len(t) = n /\ t[i] = y /\ \A j \in 1 .. n : j # i => t[j] = s[j]
  OBVIOUS
<1> HIDE DEF t
<1>3. ASSUME NEW u \in Seq(S), Len(u) = n
      PROVE  /\ u = (SubSeq(u, 1, i - 1) \o SubSeq(u, i, i)) \o SubSeq(u, i + 1, n)
             /\ SubSeq(u, i, i) = <<u[i]>>
  <2>1. i - 1 \in 0 .. Len(u) /\ i \in i - 1 .. Len(u) /\ (i - 1) + 1 = i
    BY <1>1, <1>3
  <2>2. u = (SubSeq(u, 1, i - 1) \o SubSeq(u, (i - 1) + 1, i)) \o SubSeq(u, i + 1, Len(u))
    <3>1. Pieces(S, u, i - 1, i, SubSeq(u, 1, i - 1), SubSeq(u, (i - 1) + 1, i), SubSeq(u, i + 1, Len(u)))
      BY <2>1, Cut
    <3> QED
      BY <3>1, Zenon DEF Pieces
  <2>3. /\ SubSeq(u, i, i) \in Seq(S) /\ Len(SubSeq(u, i, i)) = 1
        /\ SubSeq(u, i, i)[1] = u[i]
    <3>1. \A j \in i .. i : u[j] \in S
      BY <1>1, <1>3
    <3>2. /\ SubSeq(u, i, i) \in Seq(S)
          /\ Len(SubSeq(u, i, i)) = IF i <= i THEN i - i + 1 ELSE 0
          /\ \A j \in 1 .. i - i + 1 : SubSeq(u, i, i)[j] = u[i + j - 1]
      BY <1>1, <3>1, SubSeqProperties
    <3> DEFINE w == SubSeq(u, i, i)
    <3> HIDE DEF w
    <3>3. w \in Seq(S) /\ Len(w) = 1 /\ w[1] = u[i + 1 - 1] /\ i + 1 - 1 = i
      <4>1. i <= i /\ i - i + 1 = 1 /\ 1 \in 1 .. i - i + 1
        BY <1>1
      <4> QED
        BY <1>1, <3>2, <4>1 DEF w
    <3> QED
      BY <3>3 DEF w
  <2>4. SubSeq(u, i, i) = <<u[i]>>
    <3>1. <<u[i]>> \in Seq(S) /\ Len(<<u[i]>>) = 1 /\ <<u[i]>>[1] = u[i]
      BY <1>1, <1>3
    <3>2. \A j \in 1 .. 1 : j = 1
      OBVIOUS
    <3> QED
      BY <2>3, <3>1, <3>2, SeqEqual
  <2> QED
    BY <1>3, <2>1, <2>2, <2>4
<1>4. SubSeq(t, 1, i - 1) = SubSeq(s, 1, i - 1) /\ SubSeq(t, i + 1, n) = SubSeq(s, i + 1, n)
  <2>1. i - 1 \in 0 .. n /\ i \in i - 1 .. n
    BY <1>1
  <2>2. /\ SubSeq(t, 1, i - 1) \in Seq(S) /\ Len(SubSeq(t, 1, i - 1)) = i - 1
        /\ \A j \in 1 .. i - 1 : SubSeq(t, 1, i - 1)[j] = t[j]
        /\ SubSeq(t, i + 1, n) \in Seq(S) /\ Len(SubSeq(t, i + 1, n)) = n - i
        /\ \A j \in 1 .. n - i : SubSeq(t, i + 1, n)[j] = t[i + j]
    BY <1>2, <2>1, Cut DEF Pieces
  <2>3. /\ SubSeq(s, 1, i - 1) \in Seq(S) /\ Len(SubSeq(s, 1, i - 1)) = i - 1
        /\ \A j \in 1 .. i - 1 : SubSeq(s, 1, i - 1)[j] = s[j]
        /\ SubSeq(s, i + 1, n) \in Seq(S) /\ Len(SubSeq(s, i + 1, n)) = n - i
        /\ \A j \in 1 .. n - i : SubSeq(s, i + 1, n)[j] = s[i + j]
    BY <2>1, Cut DEF Pieces
  <2>4. \A j \in 1 .. i - 1 : t[j] = s[j]
    BY <1>1, <1>2
  <2>5. \A j \in 1 .. n - i : t[i + j] = s[i + j]
    BY <1>1, <1>2
  <2> DEFINE a == SubSeq(t, 1, i - 1)  b == SubSeq(t, i + 1, n)
             c == SubSeq(s, 1, i - 1)  d == SubSeq(s, i + 1, n)
  <2>6. /\ a \in Seq(S) /\ c \in Seq(S) /\ Len(a) = i - 1 /\ Len(c) = i - 1
        /\ \A j \in 1 .. i - 1 : a[j] = c[j]
    BY <2>2, <2>3, <2>4, Zenon
  <2>7. /\ b \in Seq(S) /\ d \in Seq(S) /\ Len(b) = n - i /\ Len(d) = n - i
        /\ \A j \in 1 .. n - i : b[j] = d[j]
    BY <2>2, <2>3, <2>5, Zenon
  <2> HIDE DEF a, b, c, d
  <2>8. a = c /\ b = d
    BY <2>6, <2>7, SeqEqual
  <2> QED
    BY <2>8 DEF a, b, c, d
<1> QED
  BY <1>2, <1>3, <1>4 DEF t, With

(* A piece of one element.                                                   *)
LEMMA Single ==
  ASSUME NEW S, NEW s \in Seq(S), NEW i \in 1 .. Len(s)
  PROVE  SubSeq(s, i, i) = <<s[i]>>
<1>1. s[i] \in S
  BY ElementOfSeq
<1>2. \A y \in S : SubSeq(s, i, i) = <<s[i]>>
  BY Changed
<1> QED
  BY <1>1, <1>2

-----------------------------------------------------------------------------
(* Nodes *)

\* A node whose space counter is exact and whose items are in order with no
\* two of them mergeable
NodeOK(n) ==
  /\ n = [items |-> n.items, free |-> n.free]
  /\ n.items \in Seq(GoodItems) /\ Neat(n.items)
  /\ n.free \in Nat /\ n.free + Weight(n.items) = NodeSize

(* Items that are good are items.                                            *)
LEMMA GoodSeqs == Seq(GoodItems) \subseteq Seq(ItemSet)
<1>1. GoodItems \subseteq ItemSet
  BY DEF GoodItems
<1> QED
  BY <1>1, SeqMonotonic

(* A node of good, neat items whose free counter is what they leave of it.   *)
LEMMA MakeNode ==
  ASSUME NEW s \in Seq(GoodItems), Neat(s), NEW f \in Nat, f + Weight(s) = NodeSize
  PROVE  NodeOK([items |-> s, free |-> f])
  BY DEF NodeOK

(* node40_init() makes a node that is right.                                *)
LEMMA InitNode == NodeOK(node40_init)
<1>1. <<>> \in Seq(GoodItems) /\ Neat(<<>>) /\ NodeSize \in Nat
  BY NodeConstants DEF Neat
<1>2. NodeSize + Weight(<<>>) = NodeSize
  BY <1>1, WeightNone
<1> QED
  BY <1>1, <1>2, MakeNode DEF node40_init

(* What a sequence of items followed by another one holds.                   *)
LEMMA ConcatOf ==
  ASSUME NEW a \in Seq(GoodItems), NEW b \in Seq(GoodItems)
  PROVE  /\ Len(a \o b) = Len(a) + Len(b)
         /\ \A i \in 1 .. Len(a) + Len(b) : (a \o b)[i] = IF i <= Len(a) THEN a[i] ELSE b[i - Len(a)]
BY ConcatProperties

(* node40_expand() for items, where the new ones go with their neighbours.  *)
LEMMA Expanded ==
  ASSUME NEW n, NodeOK(n), NEW p \in 0 .. Len(n.items), NEW new \in Seq(GoodItems), new # <<>>,
         Neat(new), NEW len, len = SumLen(new), len # 0, Weight(new) =< n.free,
         p > 0 => Tight(n.items[p], new[1]),
         p < Len(n.items) => Tight(new[Len(new)], n.items[p + 1])
  PROVE  LET m == node40_expand(n, Pos(p, MAX_UINT32), len, new)
         IN  /\ NodeOK(m) /\ m.free = n.free - Weight(new)
             /\ m.items = (SubSeq(n.items, 1, p) \o new) \o SubSeq(n.items, p + 1, Len(n.items))
<1> DEFINE s == n.items  k == Len(n.items)
           A == SubSeq(s, 1, p)  B == SubSeq(s, p + 1, k)  M == SubSeq(s, p + 1, p)
           t == (A \o new) \o B
           f == n.free - len - Len(new) * IhSize
<1>0. /\ s \in Seq(GoodItems) /\ Neat(s) /\ n.free \in Nat /\ n.free + Weight(s) = NodeSize
      /\ k \in Nat /\ p \in Nat /\ p =< k
  BY DEF NodeOK
<1>1. Pieces(GoodItems, s, p, p, A, M, B)
  <2>1. p \in p .. Len(s)
    BY <1>0
  <2> QED
    BY <1>0, <2>1, Cut
<1>2. /\ A \in Seq(GoodItems) /\ Len(A) = p /\ \A i \in 1 .. p : A[i] = s[i]
      /\ B \in Seq(GoodItems) /\ Len(B) = k - p /\ \A i \in 1 .. k - p : B[i] = s[p + i]
      /\ M \in Seq(GoodItems) /\ Len(M) = p - p /\ s = (A \o M) \o B
  BY <1>1, Zenon DEF Pieces
<1> HIDE DEF A, B, M, s, k
<1>3. s = A \o B
  <2>1. M = <<>>
    BY <1>0, <1>2, EmptySeq
  <2>2. A \o M = A
    BY <1>2, <2>1, ConcatEmptySeq
  <2> QED
    BY <1>2, <2>2
<1>4. A \in Seq(ItemSet) /\ B \in Seq(ItemSet) /\ new \in Seq(ItemSet)
  BY <1>2, GoodSeqs
<1>5. A \o new \in Seq(GoodItems) /\ A \o new \in Seq(ItemSet) /\ t \in Seq(GoodItems)
  <2>1. A \o new \in Seq(GoodItems)
    BY <1>2, ConcatProperties
  <2> QED
    BY <1>2, <2>1, ConcatProperties, GoodSeqs
<1>6. Neat(A) /\ Neat(B)
  BY <1>0, <1>3, <1>4, NeatConcat
<1>7. Joint(A, new) /\ Joint(A \o new, B)
  <2>1. Len(new) \in Nat /\ Len(new) # 0
    BY EmptySeq
  <2>2. Joint(A, new)
    <3>1. A # <<>> => p \in 1 .. p /\ p > 0
      BY <1>0, <1>2, EmptySeq
    <3>2. p > 0 => Tight(s[p], new[1])
      BY DEF s
    <3> QED
      BY <1>2, <3>1, <3>2 DEF Joint
  <2>3. Joint(A \o new, B)
    <3>1. B # <<>> => 1 \in 1 .. k - p /\ p < k
      BY <1>0, <1>2, EmptySeq
    <3>2. Len(A \o new) = p + Len(new) /\ (A \o new)[p + Len(new)] = new[Len(new)]
      <4>1. /\ Len(A \o new) = p + Len(new)
            /\ \A i \in 1 .. p + Len(new) : (A \o new)[i] = IF i <= p THEN A[i] ELSE new[i - p]
        <5>1. /\ Len(A \o new) = Len(A) + Len(new)
              /\ \A i \in 1 .. Len(A) + Len(new) : (A \o new)[i] = IF i <= Len(A) THEN A[i] ELSE new[i - Len(A)]
          BY <1>2, ConcatOf
        <5> QED
          BY <1>2, <5>1, Zenon
      <4>2. p + Len(new) \in 1 .. p + Len(new) /\ ~(p + Len(new) <= p) /\ (p + Len(new)) - p = Len(new)
        BY <1>0, <2>1
      <4> QED
        BY <4>1, <4>2
    <3>3. p < k => Tight(new[Len(new)], s[p + 1])
      BY DEF s, k
    <3> QED
      BY <1>2, <3>1, <3>2, <3>3 DEF Joint
  <2> QED
    BY <2>2, <2>3
<1>8. Neat(t)
  <2>1. Neat(A \o new)
    BY <1>4, <1>6, <1>7, NeatConcat
  <2> QED
    BY <1>4, <1>5, <1>6, <1>7, <2>1, NeatConcat
<1>9. Weight(t) = Weight(s) + Weight(new) /\ Weight(s) \in Nat /\ Weight(new) \in Nat
  <2>1. Weight(A \o new) = Weight(A) + Weight(new) /\ Weight(A) \in Nat /\ Weight(new) \in Nat
    BY <1>4, WeightConcat
  <2>2. Weight(t) = Weight(A \o new) + Weight(B) /\ Weight(B) \in Nat
    BY <1>4, <1>5, WeightConcat
  <2>3. Weight(s) = Weight(A) + Weight(B)
    BY <1>3, <1>4, WeightConcat
  <2> QED
    BY <2>1, <2>2, <2>3
<1>10. f = n.free - Weight(new) /\ f \in Nat
  <2>1. len \in Nat /\ Len(new) * IhSize \in Nat
    <3>1. len \in Nat
      BY <1>4, SumConcat
    <3>2. Len(new) \in Nat /\ IhSize \in Nat
      BY NodeConstants
    <3> QED
      BY <3>1, <3>2
  <2>2. Weight(new) = len + Len(new) * IhSize
    BY DEF Weight
  <2> DEFINE h == Len(new) * IhSize
  <2>3. h \in Nat /\ Weight(new) = len + h /\ f = n.free - len - h
    BY <2>1, <2>2
  <2> HIDE DEF h, f
  <2>4. n.free \in Nat /\ Weight(new) \in Nat /\ Weight(new) =< n.free
    BY <1>0, <1>9
  <2> QED
    BY <2>1, <2>3, <2>4, SMTT(30)
<1>11. node40_expand(n, Pos(p, MAX_UINT32), len, new) = [items |-> t, free |-> f]
  BY DEF node40_expand, Pos, A, B, s, k
<1> HIDE DEF t, f
<1>12. f + Weight(t) = NodeSize
  BY <1>0, <1>9, <1>10
<1>13. NodeOK([items |-> t, free |-> f])
  BY <1>5, <1>8, <1>10, <1>12, MakeNode DEF t
<1>14. [items |-> t, free |-> f].items = t /\ [items |-> t, free |-> f].free = f
  OBVIOUS
<1>15. t = (SubSeq(n.items, 1, p) \o new) \o SubSeq(n.items, p + 1, Len(n.items))
  BY Zenon DEF t, A, B, s, k
<1> QED
  BY <1>10, <1>11, <1>13, <1>14, <1>15, Zenon

(* node40_shrink() for items, where those that meet go together.            *)
LEMMA Shrunk ==
  ASSUME NEW n, NodeOK(n), NEW p \in 0 .. Len(n.items), NEW c \in 0 .. Len(n.items) - p,
         NEW len, len = SumLen(SubSeq(n.items, p + 1, p + c)),
         p > 0 /\ p + c < Len(n.items) => Tight(n.items[p], n.items[(p + c) + 1])
  PROVE  LET m == node40_shrink(n, Pos(p, MAX_UINT32), len, c)
         IN  /\ NodeOK(m) /\ m.free = n.free + len + c * IhSize
             /\ m.items = SubSeq(n.items, 1, p) \o SubSeq(n.items, (p + c) + 1, Len(n.items))
<1> DEFINE s == n.items  k == Len(n.items)  q == p + c
           A == SubSeq(s, 1, p)  M == SubSeq(s, p + 1, q)  B == SubSeq(s, q + 1, k)
           t == A \o B
           h == c * IhSize
           f == n.free + len + h
<1>0. /\ s \in Seq(GoodItems) /\ Neat(s) /\ n.free \in Nat /\ n.free + Weight(s) = NodeSize
      /\ k \in Nat /\ p \in Nat /\ c \in Nat /\ q \in Nat /\ p =< q /\ q =< k /\ c = q - p
      /\ h \in Nat
  BY NodeConstants DEF NodeOK
<1>1. Pieces(GoodItems, s, p, q, A, M, B)
  <2>1. q \in p .. Len(s)
    BY <1>0
  <2> QED
    BY <1>0, <2>1, Cut
<1>2. /\ A \in Seq(GoodItems) /\ Len(A) = p /\ \A i \in 1 .. p : A[i] = s[i]
      /\ B \in Seq(GoodItems) /\ Len(B) = k - q /\ \A i \in 1 .. k - q : B[i] = s[q + i]
      /\ M \in Seq(GoodItems) /\ Len(M) = q - p /\ s = (A \o M) \o B
  BY <1>1, Zenon DEF Pieces
<1>3. len = SumLen(M) /\ (p > 0 /\ q < k => Tight(s[p], s[q + 1]))
  OBVIOUS
<1>4. node40_shrink(n, Pos(p, MAX_UINT32), len, c) = [items |-> t, free |-> f]
  BY DEF node40_shrink, Pos
<1> HIDE DEF A, B, M, s, k, q, h
<1>5. A \in Seq(ItemSet) /\ B \in Seq(ItemSet) /\ M \in Seq(ItemSet)
  BY <1>2, GoodSeqs
<1>6. t \in Seq(GoodItems) /\ A \o M \in Seq(ItemSet)
  BY <1>2, <1>5, ConcatProperties
<1>7. Neat(A) /\ Neat(B)
  <2>1. Neat(A \o M) /\ Neat(B)
    BY <1>0, <1>2, <1>5, <1>6, NeatConcat
  <2> QED
    BY <1>5, <2>1, NeatConcat
<1>8. Joint(A, B)
  <2>1. A # <<>> => p \in 1 .. p /\ p > 0
    <3>1. A # <<>> => Len(A) # 0
      BY <1>2, EmptySeq
    <3> QED
      BY <1>0, <1>2, <3>1
  <2>2. B # <<>> => 1 \in 1 .. k - q /\ q < k
    <3>1. B # <<>> => Len(B) # 0
      BY <1>2, EmptySeq
    <3> QED
      BY <1>0, <1>2, <3>1
  <2> QED
    BY <1>2, <1>3, <2>1, <2>2 DEF Joint
<1>9. Neat(t)
  BY <1>5, <1>7, <1>8, NeatConcat
<1>10. /\ Weight(s) = Weight(t) + Weight(M) /\ Weight(t) \in Nat /\ Weight(M) \in Nat
  <2>1. Weight(A \o M) = Weight(A) + Weight(M) /\ Weight(A) \in Nat /\ Weight(M) \in Nat
    BY <1>5, WeightConcat
  <2>2. Weight(s) = Weight(A \o M) + Weight(B) /\ Weight(B) \in Nat
    BY <1>2, <1>5, <1>6, WeightConcat
  <2>3. Weight(t) = Weight(A) + Weight(B)
    BY <1>5, WeightConcat
  <2> QED
    BY <2>1, <2>2, <2>3
<1>11. Weight(M) = len + h /\ len \in Nat
  <2>1. len \in Nat
    BY <1>3, <1>5, SumConcat
  <2> QED
    BY <1>0, <1>2, <1>3, <2>1 DEF Weight, h
<1> HIDE DEF t
<1>12. f \in Nat /\ f + Weight(t) = NodeSize
  <2>1. n.free \in Nat /\ h \in Nat /\ n.free + Weight(s) = NodeSize
    BY <1>0
  <2> QED
    <3> DEFINE fr == n.free  wt == Weight(t)  wm == Weight(M)  ws == Weight(s)
    <3>1. /\ fr \in Nat /\ h \in Nat /\ wt \in Nat /\ len \in Nat /\ wm = len + h
          /\ ws = wt + wm /\ fr + ws = NodeSize
      BY <1>10, <1>11, <2>1
    <3> HIDE DEF fr, wt, wm, ws
    <3>2. (fr + len + h) \in Nat
      <4>1. \A a, b \in Nat : a + b \in Nat
        OBVIOUS
      <4> QED
        BY <3>1, <4>1, Zenon
    <3>3. (fr + len + h) + wt = NodeSize
      BY <3>1
    <3> QED
      BY <3>2, <3>3 DEF fr, wt
<1> HIDE DEF f
<1>13. NodeOK([items |-> t, free |-> f])
  BY <1>6, <1>9, <1>12, MakeNode DEF t
<1>14. [items |-> t, free |-> f].items = t /\ [items |-> t, free |-> f].free = f
  OBVIOUS
<1>15. /\ t = SubSeq(n.items, 1, p) \o SubSeq(n.items, (p + c) + 1, Len(n.items))
       /\ f = n.free + len + c * IhSize
  BY Zenon DEF t, f, h, A, B, s, k, q
<1> QED
  BY <1>4, <1>13, <1>14, <1>15, Zenon

(* One item replaced by another that goes with its neighbours.              *)
LEMMA ReplacedItem ==
  ASSUME NEW s \in Seq(GoodItems), Neat(s), NEW i \in 1 .. Len(s), NEW y \in GoodItems,
         i > 1 => Tight(s[i - 1], y),
         i < Len(s) => Tight(y, s[i + 1])
  PROVE  /\ [s EXCEPT ![i] = y] \in Seq(GoodItems) /\ Neat([s EXCEPT ![i] = y])
         /\ Weight([s EXCEPT ![i] = y]) + s[i].len = Weight(s) + y.len
         /\ Weight([s EXCEPT ![i] = y]) \in Nat /\ Weight(s) \in Nat
<1> DEFINE k == Len(s)  t == With(s, i, y)
           A == SubSeq(s, 1, i - 1)  B == SubSeq(s, i + 1, k)  x == s[i]
<1>0. k \in Nat /\ i \in Nat /\ i \in 1 .. k /\ x \in GoodItems
  BY ElementOfSeq
<1>1. /\ t = (A \o <<y>>) \o B /\ s = (A \o <<x>>) \o B
  BY Changed, Zenon
<1>2. A \in Seq(GoodItems) /\ B \in Seq(GoodItems)
  <2>1. i - 1 \in 0 .. Len(s) /\ i \in i - 1 .. Len(s)
    BY <1>0
  <2>2. Pieces(GoodItems, s, i - 1, i, A, SubSeq(s, (i - 1) + 1, i), B)
    BY <2>1, Cut
  <2> QED
    BY <2>2, Zenon DEF Pieces
<1>3. t \in Seq(GoodItems) /\ Len(t) = k /\ t[i] = y /\ \A j \in 1 .. k : j # i => t[j] = s[j]
  BY <1>0 DEF With
<1>4. Neat(t)
  <2>1. \A j \in 1 .. k - 1 : Tight(s[j], s[j + 1])
    BY <1>0 DEF Neat
  <2> HIDE DEF t, k
  <2>3. ASSUME NEW j \in 1 .. k - 1 PROVE Tight(t[j], t[j + 1])
    <3>1. j \in 1 .. k /\ j + 1 \in 1 .. k
      BY <1>0
    <3>2. CASE j = i
      <4>1. j + 1 # i /\ i < Len(s)
        BY <1>0, <3>2 DEF k
      <4> QED
        BY <1>3, <3>1, <3>2, <4>1
    <3>3. CASE j + 1 = i
      <4>1. j # i /\ i > 1 /\ j = i - 1
        BY <1>0, <3>3
      <4> QED
        BY <1>3, <3>1, <3>3, <4>1
    <3>4. CASE j # i /\ j + 1 # i
      BY <1>3, <2>1, <3>1, <3>4
    <3> QED
      BY <3>2, <3>3, <3>4
  <2> QED
    BY <1>3, <2>3 DEF Neat
<1> HIDE DEF t, k, A, B, x
<1>5. /\ A \in Seq(ItemSet) /\ B \in Seq(ItemSet) /\ x \in ItemSet /\ y \in ItemSet
      /\ <<x>> \in Seq(ItemSet) /\ <<y>> \in Seq(ItemSet)
  BY <1>0, <1>2, GoodSeqs DEF GoodItems
<1>6. A \o <<x>> \in Seq(ItemSet) /\ A \o <<y>> \in Seq(ItemSet)
  BY <1>5, ConcatProperties
<1>7. /\ Weight(A \o <<x>>) = Weight(A) + Weight(<<x>>)
      /\ Weight(A \o <<y>>) = Weight(A) + Weight(<<y>>) /\ Weight(A) \in Nat
  BY <1>5, WeightConcat
<1>8. /\ Weight(s) = Weight(A \o <<x>>) + Weight(B)
      /\ Weight(t) = Weight(A \o <<y>>) + Weight(B) /\ Weight(B) \in Nat
  BY <1>1, <1>5, <1>6, WeightConcat
<1>9. /\ Weight(<<x>>) = x.len + IhSize /\ Weight(<<y>>) = y.len + IhSize
      /\ x.len \in Nat /\ y.len \in Nat /\ IhSize \in Nat
  BY <1>5, WeightOne, NodeConstants
<1>10. Weight(t) + x.len = Weight(s) + y.len /\ Weight(t) \in Nat /\ Weight(s) \in Nat
  <2> DEFINE a == Weight(A)  b == Weight(B)  lx == x.len  ly == y.len
             ws == Weight(s)  wt == Weight(t)
  <2>1. /\ a \in Nat /\ b \in Nat /\ lx \in Nat /\ ly \in Nat /\ IhSize \in Nat
        /\ ws = (a + (lx + IhSize)) + b /\ wt = (a + (ly + IhSize)) + b
    BY <1>7, <1>8, <1>9, Zenon
  <2> HIDE DEF a, b, lx, ly, ws, wt
  <2>2. wt + lx = ws + ly /\ wt \in Nat /\ ws \in Nat
    BY <2>1
  <2> QED
    BY <2>2 DEF lx, ly, ws, wt
<1> QED
  BY <1>3, <1>4, <1>10 DEF t, x, With

(* An item replaced by one that fits where it stood, with the free counter   *)
(* moved by the difference.                                                  *)
LEMMA Replaced ==
  ASSUME NEW n, NodeOK(n), NEW i \in 1 .. Len(n.items), NEW y \in GoodItems,
         NEW f \in Nat, f + y.len = n.free + n.items[i].len,
         i > 1 => Tight(n.items[i - 1], y),
         i < Len(n.items) => Tight(y, n.items[i + 1])
  PROVE  NodeOK([items |-> [n.items EXCEPT ![i] = y], free |-> f])
<1> DEFINE s == n.items  t == [s EXCEPT ![i] = y]  x == s[i].len  fr == n.free  z == y.len
<1>0. /\ s \in Seq(GoodItems) /\ Neat(s) /\ fr \in Nat /\ fr + Weight(s) = NodeSize
      /\ f + z = fr + x
  BY DEF NodeOK
<1>1. x \in Nat /\ z \in Nat
  <2>1. s[i] \in GoodItems
    BY <1>0, ElementOfSeq
  <2> QED
    BY <2>1 DEF GoodItems, ItemSet
<1>2. /\ t \in Seq(GoodItems) /\ Neat(t) /\ Weight(t) + x = Weight(s) + z
      /\ Weight(t) \in Nat /\ Weight(s) \in Nat
  <2> HIDE DEF s
  <2>1. i \in 1 .. Len(s) /\ (i > 1 => Tight(s[i - 1], y)) /\ (i < Len(s) => Tight(y, s[i + 1]))
    BY DEF s
  <2> QED
    BY <1>0, <2>1, ReplacedItem
<1> HIDE DEF s, t, x, fr, z
<1>3. f + Weight(t) = NodeSize
  <2> DEFINE ws == Weight(s)  wt == Weight(t)
  <2>1. fr \in Nat /\ fr + ws = NodeSize /\ f + z = fr + x /\ x \in Nat /\ z \in Nat
    BY <1>0, <1>1
  <2>2. wt + x = ws + z /\ wt \in Nat /\ ws \in Nat
    BY <1>2
  <2> HIDE DEF ws, wt
  <2>3. f + wt = NodeSize
    BY <2>1, <2>2
  <2> QED
    BY <2>3 DEF wt
<1>4. NodeOK([items |-> t, free |-> f])
  BY <1>2, <1>3, MakeNode
<1> QED
  BY <1>4 DEF t, s

-----------------------------------------------------------------------------
(* Keys and items *)

(* The first key of the object a key belongs to.                             *)
LEMMA FirstFacts ==
  ASSUME NEW a \in Nat
  PROVE  First(a) \in Nat /\ First(a) =< a /\ a < First(a) + KeySpan
<1>1. KeySpan \in Nat \ {0}
  BY NodeConstants
<1>2. a \div KeySpan \in Nat /\ (a \div KeySpan) * KeySpan =< a /\ a < (a \div KeySpan) * KeySpan + KeySpan
  BY <1>1, DivBounds
<1> DEFINE q == a \div KeySpan
<1>3. q * KeySpan \in Nat
  <2> HIDE DEF q
  <2>1. q \in Nat
    BY <1>2 DEF q
  <2> QED
    BY <1>1, <2>1
<1> QED
  BY <1>2, <1>3 DEF First

(* The keys of different objects are a whole object apart.                  *)
LEMMA Apart ==
  ASSUME NEW a \in Nat, NEW b \in Nat, a =< b
  PROVE  /\ a \div KeySpan = b \div KeySpan <=> First(a) = First(b)
         /\ First(a) # First(b) => First(a) + KeySpan =< First(b)
<1> DEFINE q == a \div KeySpan  r == b \div KeySpan  K == KeySpan
<1>0. K \in Nat /\ K > 0
  BY NodeConstants
<1>1. q \in Nat /\ r \in Nat
  BY <1>0, DivBounds
<1>2. First(a) = q * K /\ First(b) = r * K
  BY DEF First
<1>3. q * K =< a /\ b < r * K + K /\ q * K \in Nat /\ r * K \in Nat
  BY <1>2, FirstFacts
<1> HIDE DEF q, r, K
<1>4. ASSUME NEW u \in Nat, NEW v \in Nat, u < v PROVE u * K + K =< v * K
  <2>1. PICK d \in Nat : v = (u + 1) + d
    <3>1. v - (u + 1) \in Nat /\ v = (u + 1) + (v - (u + 1))
      BY <1>4
    <3> QED
      BY <3>1
  <2>2. ((u + 1) + d) * K = (u * K + K) + d * K /\ d * K \in Nat /\ u * K \in Nat
    BY <1>0
  <2> QED
    BY <1>0, <2>1, <2>2
<1>5. q =< r
  <2>1. r < q => r * K + K =< q * K
    BY <1>1, <1>4
  <2> QED
    BY <1>0, <1>1, <1>3, <2>1
<1>6. q < r => q * K + K =< r * K
  BY <1>1, <1>4
<1>7. q = r \/ q < r
  BY <1>1, <1>5
<1>8. q = r <=> q * K = r * K
  BY <1>0, <1>1, <1>3, <1>6, <1>7
<1> QED
  BY <1>2, <1>6, <1>7, <1>8 DEF q, r, K

(* A key between the first of an object and the last is of that object.     *)
LEMMA SameFirst ==
  ASSUME NEW a \in Nat, NEW b \in Nat, First(a) =< b, b < First(a) + KeySpan
  PROVE  First(b) = First(a)
<1>1. /\ First(a) \in Nat /\ First(a) =< a /\ a < First(a) + KeySpan
      /\ First(b) \in Nat /\ First(b) =< b /\ b < First(b) + KeySpan /\ KeySpan \in Nat
  BY FirstFacts, NodeConstants
<1>2. CASE a =< b
  BY <1>1, <1>2, Apart
<1>3. CASE b =< a
  BY <1>1, <1>3, Apart
<1> QED
  BY <1>2, <1>3

(* What every good item has: its keys stay in its object, a tail behind the  *)
(* stat data.                                                                *)
LEMMA ItemFacts ==
  ASSUME NEW it \in GoodItems
  PROVE  /\ it \in ItemSet /\ it.key \in Nat /\ it.len \in Nat /\ it.len > 0 /\ it.kind \in Kinds
         /\ LastKey(it) \in Nat /\ it.key =< LastKey(it)
         /\ LastKey(it) < First(it.key) + KeySpan
         /\ it.kind = "tail" => First(it.key) < it.key /\ LastKey(it) = (it.key + it.len) - 1
         /\ it.kind # "tail" => it.key = First(it.key) /\ LastKey(it) = it.key
<1>1. it \in ItemSet /\ Good(it)
  BY DEF GoodItems
<1>2. it.key \in Nat /\ it.len \in Nat /\ it.len > 0 /\ it.kind \in Kinds
  BY <1>1 DEF ItemSet
<1>3. LastKey(it) = IF it.kind = "tail" THEN (it.key + it.len) - 1 ELSE it.key
  BY <1>2 DEF LastKey, Splittable, tail40_maxreal_key
<1> QED
  BY <1>1, <1>2, <1>3 DEF Good, Splittable

\* A tail of len bytes from key on
Tail40(key, len) == [key |-> key, kind |-> "tail", len |-> len]

(* A tail is good when its keys stay inside its object.                      *)
LEMMA TailGood ==
  ASSUME NEW key \in Nat, NEW len \in Nat, len > 0,
         First(key) < key, (key + len) - 1 < First(key) + KeySpan
  PROVE  Tail40(key, len) \in GoodItems
<1> DEFINE x == Tail40(key, len)
<1>1. x \in ItemSet /\ x.kind = "tail" /\ x.key = key /\ x.len = len
  BY DEF Tail40, ItemSet, Kinds
<1> HIDE DEF x
<1>2. LastKey(x) = (key + len) - 1
  BY <1>1 DEF LastKey, Splittable, tail40_maxreal_key
<1>3. Good(x)
  BY <1>1, <1>2 DEF Good, Splittable
<1> QED
  BY <1>1, <1>3 DEF GoodItems, x

(* The tail "it" with another key and another length is a tail again.        *)
LEMMA TailAgain ==
  ASSUME NEW it \in GoodItems, it.kind = "tail", NEW k, NEW l
  PROVE  /\ it = Tail40(it.key, it.len)
         /\ [it EXCEPT !.len = l] = Tail40(it.key, l)
         /\ [it EXCEPT !.len = l, !.key = k] = Tail40(k, l)
         /\ [Tail40(it.key, l) EXCEPT !.key = k] = Tail40(k, l)
<1> DEFINE a == it.key  b == it.len
<1>1. it = Tail40(a, b)
  BY DEF GoodItems, ItemSet, Tail40
<1> HIDE DEF a, b
<1>2. /\ [Tail40(a, b) EXCEPT !.len = l] = Tail40(a, l)
      /\ [Tail40(a, l) EXCEPT !.key = k] = Tail40(k, l)
  BY DEF Tail40
<1>3. [it EXCEPT !.len = l, !.key = k] = [[it EXCEPT !.len = l] EXCEPT !.key = k]
  OBVIOUS
<1>4. [it EXCEPT !.len = l, !.key = k] = Tail40(k, l)
  BY <1>1, <1>2, <1>3, Zenon
<1> QED
  BY <1>1, <1>2, <1>4 DEF a, b

(* reiser4_item_set_key() on a tail.                                         *)
LEMMA TailKey ==
  ASSUME NEW a, NEW l, NEW k
  PROVE  [Tail40(a, l) EXCEPT !.key = k] = Tail40(k, l)
  BY DEF Tail40

(* What goes together, by the keys alone.                                   *)
LEMMA TightByKeys ==
  ASSUME NEW a \in GoodItems, NEW b \in GoodItems
  PROVE  /\ Precedes(a, b) <=> LastKey(a) < b.key
         /\ reiser4_item_mergeable(a, b) <=> a.kind = "tail" /\ b.kind = "tail" /\ LastKey(a) + 1 = b.key
         /\ Tight(a, b) <=> LastKey(a) < b.key /\ (a.kind = "tail" /\ b.kind = "tail" => LastKey(a) + 1 # b.key)
<1>1. Precedes(a, b) <=> LastKey(a) < b.key
  BY DEF Precedes
<1>2. reiser4_item_mergeable(a, b) <=> a.kind = "tail" /\ b.kind = "tail" /\ LastKey(a) + 1 = b.key
  BY DEF reiser4_item_mergeable, Splittable, LastKey
<1> QED
  BY <1>1, <1>2 DEF Tight

(* Items with another between them are never mergeable.                     *)
LEMMA TightOver ==
  ASSUME NEW a \in GoodItems, NEW b \in GoodItems, NEW c \in GoodItems, Precedes(a, b), Precedes(b, c)
  PROVE  Tight(a, c)
<1>1. /\ LastKey(a) \in Nat /\ LastKey(b) \in Nat /\ b.key \in Nat /\ c.key \in Nat /\ b.key =< LastKey(b)
  BY ItemFacts
<1>2. LastKey(a) < b.key /\ LastKey(b) < c.key
  BY TightByKeys
<1>3. LastKey(a) + 1 < c.key
  BY <1>1, <1>2
<1>4. LastKey(a) < c.key /\ LastKey(a) + 1 # c.key
  BY <1>1, <1>3
<1> QED
  BY <1>4, TightByKeys

-----------------------------------------------------------------------------
(* Units of the border items *)

(* node40_shrink() for units: one item gets shorter.                         *)
LEMMA ShrinkUnits ==
  ASSUME NEW n, NEW i, NEW k, NEW l, NEW u, u # MAX_UINT32
  PROVE  node40_shrink(n, Pos(i, u), k, l) =
           [items |-> With(n.items, i + 1, [n.items[i + 1] EXCEPT !.len = n.items[i + 1].len - k]),
            free  |-> n.free + k]
  BY DEF node40_shrink, Pos, With

(* node40_expand() for units: one item gets longer.                          *)
LEMMA GrowUnits ==
  ASSUME NEW n, NEW i, NEW k, NEW new, NEW u, u # MAX_UINT32, k # 0
  PROVE  node40_expand(n, Pos(i, u), k, new) =
           [items |-> With(n.items, i + 1, [n.items[i + 1] EXCEPT !.len = n.items[i + 1].len + k]),
            free  |-> n.free - k]
  BY DEF node40_expand, Pos, With

Node(s, f)    == [items |-> s, free |-> f]
Keyed(y, key) == [y EXCEPT !.key = key]

(* node40_set_key() behind a change of the same item.                        *)
LEMMA SetKey ==
  ASSUME NEW S, NEW s \in Seq(S), NEW j \in 1 .. Len(s), NEW i \in Nat, i + 1 = j, NEW y, NEW f, NEW key
  PROVE  node40_set_key(Node(With(s, j, y), f), i, key) = Node(With(s, j, Keyed(y, key)), f)
<1> DEFINE t == With(s, j, y)  n == [items |-> t, free |-> f]
<1>1. node40_set_key(n, i, key) = [n EXCEPT !.items = [n.items EXCEPT ![j] = [n.items[j] EXCEPT !.key = key]]]
  BY DEF node40_set_key
<1>2. n.items = t
  OBVIOUS
<1>3. j \in DOMAIN s
  OBVIOUS
<1>4. t[j] = y
  BY <1>3 DEF With
<1>5. [t EXCEPT ![j] = [t[j] EXCEPT !.key = key]] = With(s, j, [y EXCEPT !.key = key])
  <2> DEFINE z == [y EXCEPT !.key = key]
  <2> HIDE DEF z
  <2>1. [t EXCEPT ![j] = z] = [s EXCEPT ![j] = z]
    BY DEF With
  <2> QED
    BY <1>4, <2>1 DEF With, z
<1> HIDE DEF t
<1>6. [[items |-> t, free |-> f] EXCEPT !.items = With(s, j, [y EXCEPT !.key = key])] =
        [items |-> With(s, j, [y EXCEPT !.key = key]), free |-> f]
  <2> DEFINE w == With(s, j, [y EXCEPT !.key = key])
  <2> HIDE DEF w
  <2>1. [[items |-> t, free |-> f] EXCEPT !.items = w] = [items |-> w, free |-> f]
    OBVIOUS
  <2> QED
    BY <2>1 DEF w
<1> QED
  BY <1>1, <1>2, <1>5, <1>6, Zenon DEF t, Node, Keyed

\* t is s without the c elements behind the p-th
Drops(t, S, s, p, c) ==
  /\ t \in Seq(S) /\ Len(t) = Len(s) - c
  /\ \A j \in 1 .. p : t[j] = s[j]
  /\ \A j \in p + 1 .. Len(s) - c : t[j] = s[j + c]

(* A sequence without c elements behind its p-th.                            *)
LEMMA Dropped ==
  ASSUME NEW S, NEW s \in Seq(S), NEW p \in 0 .. Len(s), NEW c \in 0 .. Len(s) - p,
         NEW t, t = SubSeq(s, 1, p) \o SubSeq(s, (p + c) + 1, Len(s))
  PROVE  Drops(t, S, s, p, c)
<1> DEFINE k == Len(s)  q == p + c  A == SubSeq(s, 1, p)  M == SubSeq(s, p + 1, q)  B == SubSeq(s, q + 1, k)
<1>0. k \in Nat /\ p \in Nat /\ c \in Nat /\ q \in Nat /\ p =< q /\ q =< k /\ q \in p .. Len(s) /\ q = p + c
  OBVIOUS
<1>1. Pieces(S, s, p, q, A, M, B)
  BY <1>0, Cut
<1>2. /\ A \in Seq(S) /\ Len(A) = p /\ \A i \in 1 .. p : A[i] = s[i]
      /\ B \in Seq(S) /\ Len(B) = k - q /\ \A i \in 1 .. k - q : B[i] = s[q + i]
  BY <1>1, Zenon DEF Pieces
<1>3. t = A \o B
  OBVIOUS
<1> HIDE DEF A, B, M, k, q
<1>4. /\ t \in Seq(S) /\ Len(t) = Len(A) + Len(B)
      /\ \A i \in 1 .. Len(A) + Len(B) : t[i] = IF i <= Len(A) THEN A[i] ELSE B[i - Len(A)]
  <2>1. /\ A \o B \in Seq(S) /\ Len(A \o B) = Len(A) + Len(B)
        /\ \A i \in 1 .. Len(A) + Len(B) : (A \o B)[i] = IF i <= Len(A) THEN A[i] ELSE B[i - Len(A)]
    BY <1>2, ConcatProperties
  <2> QED
    BY <1>2, <1>3, <2>1, Zenon
<1>5. /\ t \in Seq(S) /\ Len(t) = p + (k - q)
      /\ \A i \in 1 .. p + (k - q) : t[i] = IF i <= p THEN A[i] ELSE B[i - p]
  BY <1>2, <1>4, Zenon
<1>6. p + (k - q) = k - c
  BY <1>0
<1>7. ASSUME NEW j \in 1 .. p PROVE t[j] = s[j]
  <2>1. j \in 1 .. p + (k - q) /\ j <= p
    BY <1>0
  <2> QED
    BY <1>2, <1>5, <2>1
<1>8. ASSUME NEW j \in p + 1 .. k - c PROVE t[j] = s[j + c]
  <2>1. j \in 1 .. p + (k - q) /\ ~(j <= p) /\ j - p \in 1 .. k - q /\ q + (j - p) = j + c
    BY <1>0
  <2> QED
    BY <1>2, <1>5, <2>1
<1> QED
  BY <1>5, <1>6, <1>7, <1>8 DEF k, Drops

\* t is s with y behind the p-th element
Inserts(t, S, s, p, y) ==
  /\ t \in Seq(S) /\ Len(t) = Len(s) + 1 /\ t[p + 1] = y
  /\ \A j \in 1 .. p : t[j] = s[j]
  /\ \A j \in p + 1 .. Len(s) : t[j + 1] = s[j]

(* A sequence with one more element behind its p-th.                         *)
LEMMA Inserted ==
  ASSUME NEW S, NEW s \in Seq(S), NEW p \in 0 .. Len(s), NEW y \in S,
         NEW t, t = (SubSeq(s, 1, p) \o <<y>>) \o SubSeq(s, p + 1, Len(s))
  PROVE  Inserts(t, S, s, p, y)
<1> DEFINE k == Len(s)  A == SubSeq(s, 1, p)  M == SubSeq(s, p + 1, p)  B == SubSeq(s, p + 1, k)
           Y == <<y>>  C == A \o Y
<1>0. k \in Nat /\ p \in Nat /\ p =< k /\ p \in p .. Len(s)
  OBVIOUS
<1>1. Pieces(S, s, p, p, A, M, B)
  BY <1>0, Cut
<1>2. /\ A \in Seq(S) /\ Len(A) = p /\ \A i \in 1 .. p : A[i] = s[i]
      /\ B \in Seq(S) /\ Len(B) = k - p /\ \A i \in 1 .. k - p : B[i] = s[p + i]
      /\ t = C \o B
  BY <1>1, Zenon DEF Pieces
<1>3. Y \in Seq(S) /\ Len(Y) = 1 /\ Y[1] = y
  OBVIOUS
<1> HIDE DEF A, B, M, k, Y
<1>4. /\ C \in Seq(S) /\ Len(C) = Len(A) + Len(Y)
      /\ \A i \in 1 .. Len(A) + Len(Y) : C[i] = IF i <= Len(A) THEN A[i] ELSE Y[i - Len(A)]
  BY <1>2, <1>3, ConcatProperties
<1>5. /\ C \in Seq(S) /\ Len(C) = p + 1
      /\ \A i \in 1 .. p + 1 : C[i] = IF i <= p THEN A[i] ELSE Y[i - p]
  BY <1>2, <1>3, <1>4, Zenon
<1> HIDE DEF C
<1>6. /\ t \in Seq(S) /\ Len(t) = Len(C) + Len(B)
      /\ \A i \in 1 .. Len(C) + Len(B) : t[i] = IF i <= Len(C) THEN C[i] ELSE B[i - Len(C)]
  <2>1. /\ C \o B \in Seq(S) /\ Len(C \o B) = Len(C) + Len(B)
        /\ \A i \in 1 .. Len(C) + Len(B) : (C \o B)[i] = IF i <= Len(C) THEN C[i] ELSE B[i - Len(C)]
    BY <1>2, <1>5, ConcatProperties
  <2> QED
    BY <1>2, <2>1, Zenon
<1>7. /\ t \in Seq(S) /\ Len(t) = (p + 1) + (k - p)
      /\ \A i \in 1 .. (p + 1) + (k - p) : t[i] = IF i <= p + 1 THEN C[i] ELSE B[i - (p + 1)]
  BY <1>2, <1>5, <1>6, Zenon
<1>8. (p + 1) + (k - p) = k + 1
  BY <1>0
<1>9. ASSUME NEW j \in 1 .. p PROVE t[j] = s[j]
  <2>1. j \in 1 .. (p + 1) + (k - p) /\ j <= p + 1 /\ j \in 1 .. p + 1 /\ j <= p
    BY <1>0
  <2> QED
    BY <1>2, <1>5, <1>7, <2>1
<1>10. t[p + 1] = y
  <2>1. p + 1 \in 1 .. (p + 1) + (k - p) /\ p + 1 <= p + 1 /\ p + 1 \in 1 .. p + 1 /\ ~(p + 1 <= p) /\ (p + 1) - p = 1
    BY <1>0
  <2> QED
    BY <1>3, <1>5, <1>7, <2>1
<1>11. ASSUME NEW j \in p + 1 .. k PROVE t[j + 1] = s[j]
  <2>1. /\ j + 1 \in 1 .. (p + 1) + (k - p) /\ ~(j + 1 <= p + 1) /\ (j + 1) - (p + 1) \in 1 .. k - p
        /\ p + ((j + 1) - (p + 1)) = j
    BY <1>0
  <2> QED
    BY <1>2, <1>7, <2>1
<1> QED
  BY <1>7, <1>8, <1>9, <1>10, <1>11 DEF k, Inserts

\* m has the items of n, but y for the i-th
Instead(m, n, i, y) ==
  /\ Len(m.items) = Len(n.items) /\ m.items[i] = y
  /\ \A j \in 1 .. Len(n.items) : j # i => m.items[j] = n.items[j]

\* m has the items of n from behind the c-th one on
FromBehind(m, n, c) ==
  /\ Len(m.items) = Len(n.items) - c
  /\ \A j \in 1 .. Len(n.items) - c : m.items[j] = n.items[j + c]

\* m has the items of n up to the c-th one
UpTo(m, n, c) ==
  /\ Len(m.items) = c
  /\ \A j \in 1 .. c : m.items[j] = n.items[j]

(* One item of a node with another length, and key: what With() makes of it. *)
LEMMA OtherItem ==
  ASSUME NEW n, NodeOK(n), NEW i \in 1 .. Len(n.items), NEW y \in GoodItems,
         NEW f \in Nat, f + y.len = n.free + n.items[i].len,
         i > 1 => Tight(n.items[i - 1], y),
         i < Len(n.items) => Tight(y, n.items[i + 1]),
         NEW m, m = [items |-> With(n.items, i, y), free |-> f]
  PROVE  NodeOK(m) /\ m.free = f /\ Instead(m, n, i, y)
<1>1. NodeOK([items |-> [n.items EXCEPT ![i] = y], free |-> f])
  BY Replaced
<1>2. NodeOK(m)
  BY <1>1, Zenon DEF With
<1>3. m.items = With(n.items, i, y) /\ m.free = f
  OBVIOUS
<1>4. n.items \in Seq(GoodItems)
  BY DEF NodeOK
<1> DEFINE s == n.items  t == With(s, i, y)
<1>5. Len(t) = Len(s) /\ t[i] = y /\ \A j \in 1 .. Len(s) : j # i => t[j] = s[j]
  <2>1. s \in Seq(GoodItems) /\ i \in 1 .. Len(s)
    BY <1>4
  <2> HIDE DEF s
  <2> QED
    BY <2>1 DEF With
<1> QED
  BY <1>2, <1>3, <1>5, Zenon DEF Instead

\* y may be put for the i-th item of n, and leaves f bytes free.
Fitting(n, i, y, f) ==
  /\ i \in 1 .. Len(n.items) /\ y \in GoodItems
  /\ f \in Nat /\ f + y.len = n.free + n.items[i].len
  /\ i > 1 => Tight(n.items[i - 1], y)
  /\ i < Len(n.items) => Tight(y, n.items[i + 1])

Exchanged(m, n, i, y, f) == NodeOK(m) /\ m.free = f /\ Instead(m, n, i, y)

(* An item exchanged for one that fits keeps the node right and the rest of  *)
(* it in place.                                                              *)
LEMMA Exchange ==
  ASSUME NEW n, NodeOK(n), NEW i, NEW y, NEW f, Fitting(n, i, y, f),
         NEW m, m = [items |-> With(n.items, i, y), free |-> f]
  PROVE  Exchanged(m, n, i, y, f)
<1>1. /\ i \in 1 .. Len(n.items) /\ y \in GoodItems
      /\ f \in Nat /\ f + y.len = n.free + n.items[i].len
      /\ i > 1 => Tight(n.items[i - 1], y)
      /\ i < Len(n.items) => Tight(y, n.items[i + 1])
  BY Zenon DEF Fitting
<1>2. NodeOK(m) /\ m.free = f /\ Instead(m, n, i, y)
  BY <1>1, OtherItem
<1> QED
  BY <1>2, Zenon DEF Exchanged

(* The last units of the last tail of a node go.                            *)
LEMMA GiveLast ==
  ASSUME NEW n, NodeOK(n), NEW N \in Nat, N = Len(n.items), N > 0,
         NEW it, it = n.items[N], it.kind = "tail", NEW k \in 1 .. it.len
  PROVE  /\ k < it.len => LET m == node40_shrink(n, Pos(N - 1, 0), k, 1)
                          IN  /\ NodeOK(m) /\ m.free = n.free + k
                              /\ Instead(m, n, N, Tail40(it.key, it.len - k))
         /\ LET m == node40_shrink(n, Pos(N - 1, MAX_UINT32), it.len, 1)
            IN  NodeOK(m) /\ UpTo(m, n, N - 1)
<1>0. n.items \in Seq(GoodItems) /\ n.free \in Nat /\ N \in 1 .. Len(n.items) /\ (N - 1) + 1 = N
  BY DEF NodeOK
<1>1. it \in GoodItems
  BY <1>0, ElementOfSeq
<1>2. /\ it.key \in Nat /\ it.len \in Nat /\ it.len > 0 /\ LastKey(it) = (it.key + it.len) - 1
      /\ First(it.key) < it.key /\ LastKey(it) < First(it.key) + KeySpan /\ First(it.key) \in Nat
      /\ KeySpan \in Nat
  BY <1>1, ItemFacts, FirstFacts, NodeConstants
<1>3. ASSUME k < it.len
      PROVE  LET m == node40_shrink(n, Pos(N - 1, 0), k, 1)
             IN  /\ NodeOK(m) /\ m.free = n.free + k
                 /\ Instead(m, n, N, Tail40(it.key, it.len - k))
  <2> DEFINE y == Tail40(it.key, it.len - k)
  <2>1. it.len - k \in Nat /\ it.len - k > 0 /\ (it.key + (it.len - k)) - 1 < First(it.key) + KeySpan
    <3> DEFINE a == it.key  b == it.len  F == First(it.key)  L == LastKey(it)
    <3>1. /\ a \in Nat /\ b \in Nat /\ k \in Nat /\ k > 0 /\ k < b /\ F \in Nat /\ L = (a + b) - 1
          /\ L < F + KeySpan /\ KeySpan \in Nat
      BY <1>2, <1>3
    <3> HIDE DEF a, b, F, L
    <3>2. b - k \in Nat /\ b - k > 0 /\ (a + (b - k)) - 1 < F + KeySpan
      BY <3>1
    <3> QED
      BY <3>2 DEF a, b, F
  <2>2. y \in GoodItems
    BY <1>2, <2>1, TailGood
  <2>3. y.len = it.len - k /\ y.key = it.key /\ y.kind = "tail"
    BY DEF Tail40
  <2>4. [it EXCEPT !.len = it.len - k] = y
    BY <1>1, TailAgain
  <2>5. node40_shrink(n, Pos(N - 1, 0), k, 1) = [items |-> With(n.items, N, y), free |-> n.free + k]
    <3>1. 0 # MAX_UINT32
      BY SMT DEF MAX_UINT32
    <3>2. node40_shrink(n, Pos(N - 1, 0), k, 1) =
           [items |-> With(n.items, (N - 1) + 1, [n.items[(N - 1) + 1] EXCEPT !.len = n.items[(N - 1) + 1].len - k]),
            free  |-> n.free + k]
      BY <3>1, ShrinkUnits, Zenon
    <3> QED
      BY <1>0, <2>4, <3>2, Zenon
  <2> HIDE DEF y
  <2>6. n.free + k \in Nat /\ (n.free + k) + y.len = n.free + n.items[N].len
    BY <1>0, <1>2, <2>3, SMTT(30)
  <2>7. N > 1 => Tight(n.items[N - 1], y)
    <3>1. SUFFICES ASSUME N > 1 PROVE Tight(n.items[N - 1], y)
      OBVIOUS
    <3>2. N - 1 \in 1 .. Len(n.items) - 1 /\ N - 1 \in 1 .. Len(n.items)
      BY <1>0, <3>1
    <3>3. Tight(n.items[N - 1], it) /\ n.items[N - 1] \in GoodItems
      BY <1>0, <3>2, ElementOfSeq DEF NodeOK, Neat
    <3> QED
      BY <1>1, <2>2, <2>3, <3>3, TightByKeys
  <2>8. ~(N < Len(n.items))
    BY <1>0
  <2> DEFINE m == node40_shrink(n, Pos(N - 1, 0), k, 1)  f == n.free + k
  <2>9. m = [items |-> With(n.items, N, y), free |-> f]
    BY <2>5, Zenon
  <2>10. Fitting(n, N, y, f)
    BY <1>0, <2>2, <2>6, <2>7, <2>8, Zenon DEF Fitting
  <2> HIDE DEF m, f
  <2>11. Exchanged(m, n, N, y, f)
    BY <2>9, <2>10, Exchange
  <2> QED
    BY <2>11, Zenon DEF y, m, f, Exchanged
<1>4. LET m == node40_shrink(n, Pos(N - 1, MAX_UINT32), it.len, 1)
      IN  NodeOK(m) /\ UpTo(m, n, N - 1)
  <2> DEFINE s == n.items  m == node40_shrink(n, Pos(N - 1, MAX_UINT32), it.len, 1)
  <2>1. N - 1 \in 0 .. Len(s) /\ 1 \in 0 .. Len(s) - (N - 1) /\ ~((N - 1) + 1 < Len(s))
    BY <1>0
  <2>2. it.len = SumLen(SubSeq(s, (N - 1) + 1, (N - 1) + 1))
    <3>1. SubSeq(s, N, N) = <<s[N]>>
      <4>1. s \in Seq(GoodItems) /\ N \in 1 .. Len(s)
        BY <1>0
      <4> HIDE DEF s
      <4> QED
        BY <4>1, Single
    <3>2. SumLen(<<it>>) = it.len
      BY <1>1, SumOne, ItemFacts
    <3> QED
      BY <1>0, <3>1, <3>2, Zenon
  <2>3. NodeOK(m) /\ m.items = SubSeq(s, 1, N - 1) \o SubSeq(s, ((N - 1) + 1) + 1, Len(s))
    BY <2>1, <2>2, Shrunk
  <2> HIDE DEF m, s
  <2> DEFINE c == N - 1  t == m.items
  <2>0. s \in Seq(GoodItems)
    BY <1>0 DEF s
  <2> HIDE DEF c, t
  <2>6. /\ c \in 0 .. Len(s) /\ 1 \in 0 .. Len(s) - c
        /\ t = SubSeq(s, 1, c) \o SubSeq(s, (c + 1) + 1, Len(s))
    BY <2>1, <2>3 DEF c, t
  <2>7. Drops(t, GoodItems, s, c, 1)
    BY <2>0, <2>6, Dropped
  <2>4. Len(m.items) = Len(s) - 1 /\ \A j \in 1 .. N - 1 : m.items[j] = s[j]
    BY <2>7, Zenon DEF Drops, c, t
  <2>5. Len(s) - 1 = N - 1
    BY <1>0 DEF s
  <2> QED
    BY <2>3, <2>4, <2>5, Zenon DEF m, s, UpTo
<1> QED
  BY <1>3, <1>4

(* The first units of the first tail of a node go.                          *)
LEMMA GiveFirst ==
  ASSUME NEW n, NodeOK(n), NEW N \in Nat, N = Len(n.items), N > 0,
         NEW it, it = n.items[1], it.kind = "tail", NEW k \in 1 .. it.len
  PROVE  /\ k < it.len => LET m == node40_set_key(node40_shrink(n, Pos(0, 0), k, 1), 0, it.key + k)
                          IN  /\ NodeOK(m) /\ m.free = n.free + k
                              /\ Instead(m, n, 1, Tail40(it.key + k, it.len - k))
         /\ LET m == node40_shrink(n, Pos(0, MAX_UINT32), it.len, 1)
            IN  NodeOK(m) /\ FromBehind(m, n, 1)
<1>0. n.items \in Seq(GoodItems) /\ n.free \in Nat /\ 1 \in 1 .. Len(n.items) /\ 0 + 1 = 1
  BY DEF NodeOK
<1>1. it \in GoodItems
  BY <1>0, ElementOfSeq
<1>2. /\ it.key \in Nat /\ it.len \in Nat /\ it.len > 0 /\ LastKey(it) = (it.key + it.len) - 1
      /\ First(it.key) < it.key /\ LastKey(it) < First(it.key) + KeySpan /\ First(it.key) \in Nat
      /\ KeySpan \in Nat
  BY <1>1, ItemFacts, FirstFacts, NodeConstants
<1>3. ASSUME k < it.len
      PROVE  LET m == node40_set_key(node40_shrink(n, Pos(0, 0), k, 1), 0, it.key + k)
             IN  /\ NodeOK(m) /\ m.free = n.free + k
                 /\ Instead(m, n, 1, Tail40(it.key + k, it.len - k))
  <2> DEFINE a == it.key  b == it.len  F == First(it.key)  L == LastKey(it)
             y == Tail40(a + k, b - k)
  <2>1. /\ a \in Nat /\ b \in Nat /\ k \in Nat /\ k > 0 /\ k < b /\ F \in Nat /\ F < a /\ L = (a + b) - 1
        /\ L < F + KeySpan /\ KeySpan \in Nat
    BY <1>2, <1>3
  <2>2. /\ b - k \in Nat /\ b - k > 0 /\ a + k \in Nat /\ F < a + k /\ a + k < F + KeySpan
        /\ ((a + k) + (b - k)) - 1 = L
    <3> HIDE DEF a, b, F, L
    <3> QED
      BY <2>1
  <2>3. First(a + k) = F
    <3>1. F = First(a)
      OBVIOUS
    <3> HIDE DEF a, b, F, L
    <3> QED
      BY <2>1, <2>2, <3>1, SameFirst, SMT
  <2>4. y \in GoodItems
    <3> HIDE DEF a, b, F, L
    <3> QED
      BY <2>1, <2>2, <2>3, TailGood
  <2>5. y.len = b - k /\ y.key = a + k /\ y.kind = "tail"
    BY DEF Tail40
  <2>6. [it EXCEPT !.len = b - k] = Tail40(a, b - k) /\ [Tail40(a, b - k) EXCEPT !.key = a + k] = y
    <3>1. [it EXCEPT !.len = b - k] = Tail40(a, b - k)
      BY <1>1, TailAgain
    <3> HIDE DEF a, b
    <3> QED
      BY <3>1, TailKey
  <2>7. node40_set_key(node40_shrink(n, Pos(0, 0), k, 1), 0, a + k) =
          [items |-> With(n.items, 1, y), free |-> n.free + k]
    <3>1. 0 # MAX_UINT32
      BY SMT DEF MAX_UINT32
    <3>2. node40_shrink(n, Pos(0, 0), k, 1) =
           [items |-> With(n.items, 0 + 1, [n.items[0 + 1] EXCEPT !.len = n.items[0 + 1].len - k]),
            free  |-> n.free + k]
      BY <3>1, ShrinkUnits, Zenon
    <3>3. node40_shrink(n, Pos(0, 0), k, 1) = [items |-> With(n.items, 1, Tail40(a, b - k)), free |-> n.free + k]
      BY <1>0, <2>6, <3>2, Zenon
    <3>5. node40_set_key([items |-> With(n.items, 1, Tail40(a, b - k)), free |-> n.free + k], 0, a + k) =
            [items |-> With(n.items, 1, [Tail40(a, b - k) EXCEPT !.key = a + k]), free |-> n.free + k]
      <4> DEFINE s == n.items  z == Tail40(a, b - k)  g == n.free + k  key == a + k
      <4>1. s \in Seq(GoodItems) /\ 1 \in 1 .. Len(s) /\ 0 + 1 = 1
        BY <1>0
      <4> HIDE DEF s, z, g, key
      <4>2. node40_set_key(Node(With(s, 1, z), g), 0, key) = Node(With(s, 1, Keyed(z, key)), g)
        BY <4>1, SetKey
      <4> QED
        BY <4>2, Zenon DEF s, z, g, key, Node, Keyed
    <3> QED
      BY <1>0, <2>6, <3>3, <3>5, Zenon
  <2>8. LastKey(y) = L
    BY <2>2, <2>5 DEF LastKey, Splittable, tail40_maxreal_key
  <2> HIDE DEF y, a, b, F, L
  <2>9. n.free + k \in Nat /\ (n.free + k) + y.len = n.free + n.items[1].len
    <3> DEFINE fr == n.free  yl == y.len
    <3>1. n.items[1].len = b /\ fr \in Nat /\ yl = b - k
      BY <1>0, <2>5 DEF b
    <3> HIDE DEF fr, yl
    <3>2. fr + k \in Nat
      BY <2>1, <3>1
    <3>3. (fr + k) + yl = fr + b
      BY <2>1, <3>1
    <3> QED
      BY <3>1, <3>2, <3>3, Zenon DEF fr, yl
  <2>10. 1 < Len(n.items) => Tight(y, n.items[2])
    <3>1. SUFFICES ASSUME 1 < Len(n.items) PROVE Tight(y, n.items[2])
      OBVIOUS
    <3>2. 1 \in 1 .. Len(n.items) - 1 /\ 1 + 1 \in 1 .. Len(n.items) /\ 1 + 1 = 2
      BY <3>1
    <3>3. Tight(it, n.items[1 + 1]) /\ n.items[1 + 1] \in GoodItems
      BY <1>0, <3>2, ElementOfSeq DEF NodeOK, Neat
    <3>4. n.items[2] \in GoodItems /\ Tight(it, n.items[2])
      BY <3>2, <3>3
    <3> QED
      BY <1>1, <2>4, <2>5, <2>8, <3>4, TightByKeys DEF L
  <2>11. ~(1 > 1) /\ 1 + 1 = 2
    OBVIOUS
  <2> DEFINE m == node40_set_key(node40_shrink(n, Pos(0, 0), k, 1), 0, a + k)
  <2>12. NodeOK(m) /\ m.free = n.free + k /\ Instead(m, n, 1, y)
    <3> DEFINE f == n.free + k
    <3>1. m = [items |-> With(n.items, 1, y), free |-> f]
      BY <2>7, Zenon
    <3>2. Fitting(n, 1, y, f)
      <4>1. 1 < Len(n.items) => Tight(y, n.items[1 + 1])
        BY <2>10, <2>11
      <4> QED
        BY <1>0, <2>4, <2>9, <2>11, <4>1, Zenon DEF Fitting
    <3> HIDE DEF m, f
    <3>3. Exchanged(m, n, 1, y, f)
      BY <3>1, <3>2, Exchange
    <3> QED
      BY <3>3, Zenon DEF f, Exchanged
  <2> QED
    BY <2>12 DEF y, a, b
<1>4. LET m == node40_shrink(n, Pos(0, MAX_UINT32), it.len, 1)
      IN  NodeOK(m) /\ FromBehind(m, n, 1)
  <2> DEFINE s == n.items  m == node40_shrink(n, Pos(0, MAX_UINT32), it.len, 1)
  <2>1. 0 \in 0 .. Len(s) /\ 1 \in 0 .. Len(s) - 0 /\ ~(0 > 0)
    BY <1>0
  <2>2. it.len = SumLen(SubSeq(s, 0 + 1, 0 + 1))
    <3>1. SubSeq(s, 1, 1) = <<s[1]>>
      <4>1. s \in Seq(GoodItems) /\ 1 \in 1 .. Len(s)
        BY <1>0
      <4> HIDE DEF s
      <4> QED
        BY <4>1, Single
    <3>2. SumLen(<<it>>) = it.len
      BY <1>1, SumOne, ItemFacts
    <3> QED
      BY <1>0, <3>1, <3>2, Zenon
  <2>3. NodeOK(m) /\ m.items = SubSeq(s, 1, 0) \o SubSeq(s, (0 + 1) + 1, Len(s))
    BY <2>1, <2>2, Shrunk
  <2> HIDE DEF m, s
  <2>4. Len(m.items) = Len(s) - 1 /\ \A j \in 0 + 1 .. Len(s) - 1 : m.items[j] = s[j + 1]
    BY <1>0, <2>1, <2>3, Dropped DEF s, Drops
  <2> QED
    BY <1>0, <2>3, <2>4, Zenon DEF m, s, FromBehind
<1> QED
  BY <1>3, <1>4

\* m is n with k units more at the end of its tail it, which is the N-th item.
Widened(m, n, N, it, k) ==
  /\ NodeOK(m) /\ m.free = n.free - k
  /\ Instead(m, n, N, Tail40(it.key, it.len + k))
  /\ Tail40(it.key, it.len + k) \in GoodItems

(* The last tail of a node grows at its end.                                *)
LEMMA TakeLast ==
  ASSUME NEW n, NodeOK(n), NEW N \in Nat, N = Len(n.items), N > 0,
         NEW it, it = n.items[N], it.kind = "tail", NEW k \in Nat, k > 0, k =< n.free,
         LastKey(it) + k < First(it.key) + KeySpan, NEW u \in Nat, u # MAX_UINT32, NEW new
  PROVE  Widened(node40_expand(n, Pos(N - 1, u), k, new), n, N, it, k)
<1>0. n.items \in Seq(GoodItems) /\ n.free \in Nat /\ N \in 1 .. Len(n.items) /\ (N - 1) + 1 = N
  BY DEF NodeOK
<1>1. it \in GoodItems
  BY <1>0, ElementOfSeq
<1> DEFINE a == it.key  b == it.len  F == First(it.key)  L == LastKey(it)  fr == n.free
           y == Tail40(a, b + k)
<1>2. /\ a \in Nat /\ b \in Nat /\ b > 0 /\ L = (a + b) - 1 /\ F < a /\ F \in Nat /\ fr \in Nat
      /\ KeySpan \in Nat /\ F = First(a) /\ L + k < F + KeySpan /\ k =< fr
  BY <1>0, <1>1, ItemFacts, FirstFacts, NodeConstants
<1>3. [it EXCEPT !.len = b + k] = y
  BY <1>1, TailAgain
<1>4. node40_expand(n, Pos(N - 1, u), k, new) = [items |-> With(n.items, N, y), free |-> fr - k]
  <2>1. k # 0
    OBVIOUS
  <2>2. node40_expand(n, Pos(N - 1, u), k, new) =
          [items |-> With(n.items, (N - 1) + 1, [n.items[(N - 1) + 1] EXCEPT !.len = n.items[(N - 1) + 1].len + k]),
           free  |-> n.free - k]
    BY <2>1, GrowUnits, Zenon
  <2> QED
    BY <1>0, <1>3, <2>2, Zenon
<1>5. y.len = b + k /\ y.key = a /\ y.kind = "tail"
  BY DEF Tail40
<1> HIDE DEF a, b, F, L, fr
<1>6. b + k \in Nat /\ b + k > 0 /\ (a + (b + k)) - 1 < F + KeySpan /\ fr - k \in Nat
  <2>1. b + k \in Nat /\ b + k > 0
    BY <1>2
  <2>2. (a + (b + k)) - 1 = L + k
    BY <1>2
  <2>3. fr - k \in Nat
    BY <1>2
  <2> QED
    BY <1>2, <2>1, <2>2, <2>3, Zenon
<1>7. y \in GoodItems
  BY <1>2, <1>6, TailGood
<1> HIDE DEF y
<1>8. (fr - k) + y.len = n.free + n.items[N].len
  <2>1. n.items[N].len = b /\ n.free = fr /\ y.len = b + k
    BY <1>5 DEF b, fr
  <2> DEFINE yl == y.len
  <2> HIDE DEF yl
  <2>2. (fr - k) + (b + k) = fr + b
    BY <1>2
  <2> QED
    BY <2>1, <2>2, Zenon
<1>9. N > 1 => Tight(n.items[N - 1], y)
  <2>1. SUFFICES ASSUME N > 1 PROVE Tight(n.items[N - 1], y)
    OBVIOUS
  <2>2. N - 1 \in 1 .. Len(n.items) - 1 /\ N - 1 \in 1 .. Len(n.items)
    BY <1>0, <2>1
  <2>3. Tight(n.items[N - 1], it) /\ n.items[N - 1] \in GoodItems
    BY <1>0, <2>2, ElementOfSeq DEF NodeOK, Neat
  <2>4. y.key = it.key /\ it.kind = "tail" /\ y.kind = "tail" /\ it \in GoodItems
    BY <1>1, <1>5, <1>7 DEF a, Tail40
  <2> DEFINE w == n.items[N - 1]
  <2> HIDE DEF w, y
  <2>5. /\ LastKey(w) < it.key /\ (w.kind = "tail" => LastKey(w) + 1 # it.key)
    <3>1. Tight(w, it) /\ w \in GoodItems
      BY <2>3 DEF w
    <3> QED
      BY <2>4, <3>1, TightByKeys
  <2>6. w \in GoodItems /\ y \in GoodItems
    BY <1>7, <2>3 DEF w
  <2>7. Tight(w, y)
    BY <2>4, <2>5, <2>6, TightByKeys
  <2> QED
    BY <2>7 DEF w
<1>10. ~(N < Len(n.items))
  BY <1>0
<1> DEFINE m == node40_expand(n, Pos(N - 1, u), k, new)
<1>11. NodeOK(m) /\ m.free = fr - k /\ Instead(m, n, N, y)
  <2> DEFINE f == fr - k
  <2>1. m = [items |-> With(n.items, N, y), free |-> f] /\ f \in Nat /\ f + y.len = n.free + n.items[N].len
    BY <1>4, <1>6, <1>8
  <2> HIDE DEF m, f
  <2>2. Fitting(n, N, y, f)
    BY <1>0, <1>7, <1>9, <1>10, <2>1, Zenon DEF Fitting
  <2>3. Exchanged(m, n, N, y, f)
    BY <2>1, <2>2, Exchange
  <2> QED
    BY <2>3, Zenon DEF Exchanged, f
<1>12. m.free = n.free - k /\ y = Tail40(it.key, it.len + k)
  BY <1>11 DEF y, a, b, fr
<1> QED
  BY <1>7, <1>11, <1>12, Zenon DEF Widened

(* The first tail of a node grows at its start.                             *)
LEMMA TakeFirst ==
  ASSUME NEW n, NodeOK(n), NEW N \in Nat, N = Len(n.items), N > 0,
         NEW it, it = n.items[1], it.kind = "tail", NEW k \in Nat, k > 0, k =< n.free,
         First(it.key) + k < it.key, NEW new
  PROVE  LET grown == node40_expand(n, Pos(0, 0), k, new)
             m == node40_set_key(grown, 0, Item(grown, 0).key - k)
         IN  /\ NodeOK(m) /\ m.free = n.free - k
             /\ Instead(m, n, 1, Tail40(it.key - k, it.len + k))
             /\ Tail40(it.key - k, it.len + k) \in GoodItems
<1>0. n.items \in Seq(GoodItems) /\ n.free \in Nat /\ 1 \in 1 .. Len(n.items) /\ 0 + 1 = 1
  BY DEF NodeOK
<1>1. it \in GoodItems
  BY <1>0, ElementOfSeq
<1> DEFINE a == it.key  b == it.len  F == First(it.key)  L == LastKey(it)  fr == n.free
           z == Tail40(a, b + k)  y == Tail40(a - k, b + k)  s == n.items
           grown == node40_expand(n, Pos(0, 0), k, new)
           m == node40_set_key(grown, 0, Item(grown, 0).key - k)
<1>2. /\ a \in Nat /\ b \in Nat /\ b > 0 /\ L = (a + b) - 1 /\ F < a /\ F \in Nat /\ fr \in Nat
      /\ KeySpan \in Nat /\ F = First(a) /\ L < F + KeySpan /\ F + k < a /\ k =< fr
  BY <1>0, <1>1, ItemFacts, FirstFacts, NodeConstants
<1>3. [it EXCEPT !.len = b + k] = z
  BY <1>1, TailAgain
<1>4. grown = [items |-> With(s, 1, z), free |-> fr - k]
  <2>1. k # 0
    OBVIOUS
  <2>2. 0 # MAX_UINT32
    BY SMT DEF MAX_UINT32
  <2>3. node40_expand(n, Pos(0, 0), k, new) =
          [items |-> With(n.items, 0 + 1, [n.items[0 + 1] EXCEPT !.len = n.items[0 + 1].len + k]),
           free  |-> n.free - k]
    BY <2>1, <2>2, GrowUnits, Zenon
  <2> QED
    BY <1>0, <1>3, <2>3, Zenon
<1>5. y.len = b + k /\ y.key = a - k /\ y.kind = "tail" /\ z.key = a
  BY DEF Tail40
<1>6. s \in Seq(GoodItems) /\ 1 \in 1 .. Len(s) /\ s[1].len = b /\ s[1] = it
  BY <1>0
<1> HIDE DEF a, b, F, L, fr, z, y, s, grown
<1>7. Item(grown, 0).key = a
  <2>1. grown.items = With(s, 1, z) /\ With(s, 1, z)[1] = z
    BY <1>4, <1>6 DEF With
  <2> QED
    BY <1>0, <1>5, <2>1, Zenon DEF Item
<1>8. m = [items |-> With(s, 1, y), free |-> fr - k]
  <2>1. 0 \in Nat /\ 0 + 1 = 1
    OBVIOUS
  <2> DEFINE g == fr - k  key == a - k
  <2> HIDE DEF g, key
  <2>2. node40_set_key(Node(With(s, 1, z), g), 0, key) = Node(With(s, 1, Keyed(z, key)), g)
    BY <1>6, <2>1, SetKey
  <2>3. Keyed(z, key) = y
    BY TailKey DEF Keyed, z, y, key
  <2>4. grown = Node(With(s, 1, z), g)
    BY <1>4 DEF Node, g
  <2>5. m = Node(With(s, 1, y), g)
    BY <1>7, <2>2, <2>3, <2>4, Zenon DEF key
  <2> QED
    BY <2>5 DEF Node, g
<1> HIDE DEF m
<1>9. /\ b + k \in Nat /\ b + k > 0 /\ a - k \in Nat /\ F < a - k /\ a - k < F + KeySpan
      /\ ((a - k) + (b + k)) - 1 = L /\ fr - k \in Nat
  <2>1. b + k \in Nat /\ b + k > 0
    BY <1>2
  <2>2. a - k \in Nat /\ F < a - k
    BY <1>2
  <2>3. ((a - k) + (b + k)) - 1 = L
    BY <1>2
  <2>4. fr - k \in Nat
    BY <1>2
  <2>5. a - k < F + KeySpan
    BY <1>2
  <2> QED
    BY <2>1, <2>2, <2>3, <2>4, <2>5, Zenon
<1>10. First(a - k) = F
  BY <1>2, <1>9, SameFirst, SMT
<1>11. y \in GoodItems /\ LastKey(y) = L
  <2>1. y \in GoodItems
    BY <1>2, <1>9, <1>10, TailGood DEF y
  <2> QED
    BY <1>5, <1>9, <2>1, ItemFacts
<1>12. (fr - k) + y.len = n.free + n.items[1].len
  <2>1. n.items[1].len = b /\ n.free = fr /\ y.len = b + k
    BY <1>5, <1>6 DEF fr, s
  <2>2. (fr - k) + (b + k) = fr + b
    BY <1>2
  <2> QED
    BY <2>1, <2>2, Zenon
<1>13. 1 < Len(n.items) => Tight(y, n.items[1 + 1])
  <2>1. SUFFICES ASSUME 1 < Len(n.items) PROVE Tight(y, n.items[1 + 1])
    OBVIOUS
  <2>2. 1 \in 1 .. Len(n.items) - 1 /\ 1 + 1 \in 1 .. Len(n.items)
    BY <2>1
  <2>3. Tight(it, n.items[1 + 1]) /\ n.items[1 + 1] \in GoodItems
    BY <1>0, <2>2, ElementOfSeq DEF NodeOK, Neat
  <2> QED
    BY <1>1, <1>5, <1>11, <2>3, TightByKeys DEF L
<1>14. ~(1 > 1)
  OBVIOUS
<1>15. NodeOK(m) /\ m.free = fr - k /\ Instead(m, n, 1, y)
  BY <1>0, <1>8, <1>9, <1>11, <1>12, <1>13, <1>14, OtherItem DEF s
<1> QED
  BY <1>11, <1>15 DEF m, grown, y, a, b, fr

(* The ends of two sequences put together.                                  *)
LEMMA Ends ==
  ASSUME NEW S, NEW s \in Seq(S), NEW t \in Seq(S)
  PROVE  /\ s \o t \in Seq(S) /\ Len(s \o t) = Len(s) + Len(t)
         /\ t # <<>> => (s \o t)[Len(s) + Len(t)] = t[Len(t)] /\ Len(t) > 0
         /\ s # <<>> => (s \o t)[1] = s[1] /\ Len(s) > 0
<1> DEFINE m == Len(s)  n == Len(t)  st == s \o t
<1>1. /\ st \in Seq(S) /\ Len(st) = m + n /\ m \in Nat /\ n \in Nat
      /\ \A i \in 1 .. m + n : st[i] = IF i <= m THEN s[i] ELSE t[i - m]
      /\ (s # <<>> => m # 0) /\ (t # <<>> => n # 0)
  BY ConcatProperties, EmptySeq
<1> HIDE DEF m, n, st
<1>2. ASSUME n # 0 PROVE st[m + n] = t[n]
  <2>1. m + n \in 1 .. m + n /\ ~(m + n <= m) /\ (m + n) - m = n
    BY <1>1, <1>2
  <2> QED
    BY <1>1, <2>1
<1>3. ASSUME m # 0 PROVE st[1] = s[1]
  <2>1. 1 \in 1 .. m + n /\ 1 <= m
    BY <1>1, <1>3
  <2> QED
    BY <1>1, <2>1
<1>4. (n # 0 => n > 0) /\ (m # 0 => m > 0)
  BY <1>1
<1> QED
  BY <1>1, <1>2, <1>3, <1>4, Zenon DEF m, n, st

(* Some items have some length.                                              *)
LEMMA SumPositive ==
  ASSUME NEW s \in Seq(ItemSet), s # <<>>
  PROVE  SumLen(s) \in Nat /\ SumLen(s) > 0
<1>1. Len(s) \in Nat /\ Len(s) # 0
  BY EmptySeq
<1>2. 1 \in 1 .. Len(s) /\ 1 - 1 \in 0 .. Len(s) /\ 1 \in 1 - 1 .. Len(s)
  BY <1>1
<1> DEFINE A == SubSeq(s, 1, 1 - 1)  B == SubSeq(s, 1 + 1, Len(s))  x == s[1]
           M == SubSeq(s, (1 - 1) + 1, 1)
<1>3. x \in ItemSet
  BY <1>2, ElementOfSeq
<1>4. s = (A \o <<x>>) \o B
  BY <1>2, <1>3, Changed, Zenon
<1>5. A \in Seq(ItemSet) /\ B \in Seq(ItemSet)
  <2>1. Pieces(ItemSet, s, 1 - 1, 1, A, M, B)
    BY <1>2, Cut
  <2> QED
    BY <2>1, Zenon DEF Pieces
<1> HIDE DEF A, B, x
<1>6. <<x>> \in Seq(ItemSet) /\ A \o <<x>> \in Seq(ItemSet)
  BY <1>3, <1>5, ConcatProperties
<1>7. SumLen(s) = SumLen(A \o <<x>>) + SumLen(B) /\ SumLen(B) \in Nat
  BY <1>4, <1>5, <1>6, SumConcat
<1>8. SumLen(A \o <<x>>) = SumLen(A) + SumLen(<<x>>) /\ SumLen(A) \in Nat
  BY <1>5, <1>6, SumConcat
<1>9. SumLen(<<x>>) = x.len /\ x.len \in Nat /\ x.len > 0
  BY <1>3, WeightOne, SumOne
<1> DEFINE a == SumLen(A)  b == SumLen(B)  l == x.len
<1>10. SumLen(s) = (a + l) + b /\ a \in Nat /\ b \in Nat /\ l \in Nat /\ l > 0
  BY <1>7, <1>8, <1>9, Zenon
<1> HIDE DEF a, b, l
<1>11. (a + l) + b \in Nat /\ (a + l) + b > 0
  BY <1>10
<1> QED
  BY <1>10, <1>11, Zenon

\* New items for a node with room for them
Arrives(n, new) ==
  new \in Seq(GoodItems) /\ new # <<>> /\ Neat(new) /\ Weight(new) =< n.free

(* The node m the items new have arrived in.                                *)
Received(m, n, new) ==
  /\ NodeOK(m) /\ m.free = n.free - Weight(new)
  /\ m.items \in Seq(GoodItems) /\ Len(m.items) > 0 /\ m.items # <<>>

(* Items arrive behind the last item of a node.                             *)
AtEnd(m, n, new) ==
  Received(m, n, new) /\ m.items[Len(m.items)] = new[Len(new)] /\ m.items = n.items \o new

(* Where a whole shift to the left puts what it takes.                        *)
LEMMA Appended ==
  ASSUME NEW n, NodeOK(n), NEW new, Arrives(n, new), Joint(n.items, new)
  PROVE  AtEnd(node40_expand(n, Pos(Len(n.items), MAX_UINT32), SumLen(new), new), n, new)
<1> DEFINE s == n.items  k == Len(s)  A == SubSeq(s, 1, k)  B == SubSeq(s, k + 1, k)
           M == SubSeq(s, k + 1, k)
           m == node40_expand(n, Pos(k, MAX_UINT32), SumLen(new), new)
<1>0. s \in Seq(GoodItems) /\ k \in Nat /\ k \in 0 .. Len(s) /\ k \in k .. Len(s) /\ ~(k < Len(s))
  BY DEF NodeOK
<1>1. new \in Seq(GoodItems) /\ new # <<>> /\ Neat(new) /\ Weight(new) =< n.free
  BY DEF Arrives
<1>2. SumLen(new) # 0
  <2>1. new \in Seq(ItemSet)
    BY <1>1, GoodSeqs
  <2>2. SumLen(new) \in Nat /\ SumLen(new) > 0
    BY <1>1, <2>1, SumPositive
  <2> DEFINE l == SumLen(new)
  <2> HIDE DEF l
  <2>3. l # 0
    BY <2>2 DEF l
  <2> QED
    BY <2>3 DEF l
<1>3. k > 0 => Tight(s[k], new[1])
  <2>1. k > 0 => s # <<>>
    BY <1>0, EmptySeq
  <2> QED
    BY <1>1, <2>1 DEF Joint
<1>4. NodeOK(m) /\ m.free = n.free - Weight(new) /\ m.items = (A \o new) \o B
  BY <1>0, <1>1, <1>2, <1>3, Expanded
<1>5. A \in Seq(GoodItems) /\ B \in Seq(GoodItems) /\ Len(B) = k - k /\ A = s
  <2>1. Pieces(GoodItems, s, k, k, A, M, B)
    BY <1>0, Cut
  <2>2. /\ A \in Seq(GoodItems) /\ B \in Seq(GoodItems) /\ Len(B) = k - k
        /\ Len(A) = Len(s) /\ \A i \in 1 .. Len(A) : A[i] = s[i]
    BY <2>1, Zenon DEF Pieces
  <2> HIDE DEF A
  <2> QED
    BY <1>0, <2>2, SeqEqual
<1>6. m.items \in Seq(GoodItems)
  BY <1>4 DEF NodeOK
<1> HIDE DEF A, B, k, s, m
<1>7. B = <<>>
  BY <1>0, <1>5, EmptySeq
<1>8. /\ A \o new \in Seq(GoodItems) /\ Len(A \o new) = Len(A) + Len(new)
      /\ (A \o new)[Len(A) + Len(new)] = new[Len(new)] /\ Len(new) > 0
  BY <1>1, <1>5, Ends
<1>9. m.items = A \o new
  BY <1>4, <1>7, <1>8, ConcatEmptySeq
<1>10. Len(m.items) > 0 /\ m.items # <<>>
  <2>1. Len(m.items) > 0
    BY <1>1, <1>5, <1>8, <1>9
  <2> QED
    BY <1>6, <2>1, EmptySeq
<1>11. m.items[Len(m.items)] = new[Len(new)]
  BY <1>8, <1>9, Zenon
<1>12. AtEnd(m, n, new)
  <2>1. m.items = n.items \o new
    BY <1>5, <1>9 DEF s
  <2> QED
    BY <1>4, <1>6, <1>10, <1>11, <2>1, Zenon DEF AtEnd, Received
<1> QED
  BY <1>12 DEF m, k, s

(* Items arrive in front of the first item of a node.                       *)
AtStart(m, n, new) == Received(m, n, new) /\ m.items[1] = new[1] /\ m.items = new \o n.items

(* Where a whole shift to the right puts what it takes.                       *)
LEMMA Prepended ==
  ASSUME NEW n, NodeOK(n), NEW new, Arrives(n, new), Joint(new, n.items)
  PROVE  AtStart(node40_expand(n, Pos(0, MAX_UINT32), SumLen(new), new), n, new)
<1> DEFINE s == n.items  k == Len(s)  A == SubSeq(s, 1, 0)  B == SubSeq(s, 0 + 1, k)
           M == SubSeq(s, 0 + 1, 0)
           m == node40_expand(n, Pos(0, MAX_UINT32), SumLen(new), new)
<1>0. s \in Seq(GoodItems) /\ k \in Nat /\ 0 \in 0 .. Len(s) /\ 0 \in 0 .. 0 /\ ~(0 > 0)
  BY DEF NodeOK
<1>1. new \in Seq(GoodItems) /\ new # <<>> /\ Neat(new) /\ Weight(new) =< n.free
  BY DEF Arrives
<1>2. SumLen(new) # 0
  <2>1. new \in Seq(ItemSet)
    BY <1>1, GoodSeqs
  <2>2. SumLen(new) \in Nat /\ SumLen(new) > 0
    BY <1>1, <2>1, SumPositive
  <2> DEFINE l == SumLen(new)
  <2> HIDE DEF l
  <2>3. l # 0
    BY <2>2 DEF l
  <2> QED
    BY <2>3 DEF l
<1>3. 0 < k => Tight(new[Len(new)], s[0 + 1])
  <2>1. 0 < k => s # <<>>
    BY <1>0, EmptySeq
  <2>2. 0 + 1 = 1
    OBVIOUS
  <2> QED
    BY <1>1, <2>1, <2>2 DEF Joint
<1>4. NodeOK(m) /\ m.free = n.free - Weight(new) /\ m.items = (A \o new) \o B
  BY <1>0, <1>1, <1>2, <1>3, Expanded
<1>5. A \in Seq(GoodItems) /\ B \in Seq(GoodItems) /\ Len(A) = 0 /\ B = s
  <2>1. 0 \in 0 .. Len(s)
    BY <1>0
  <2>2. Pieces(GoodItems, s, 0, 0, A, M, B)
    BY <1>0, <2>1, Cut
  <2>3. /\ A \in Seq(GoodItems) /\ B \in Seq(GoodItems) /\ Len(A) = 0
        /\ Len(B) = Len(s) - 0 /\ \A i \in 1 .. Len(s) - 0 : B[i] = s[0 + i]
    BY <2>2, Zenon DEF Pieces
  <2> HIDE DEF A, B
  <2>4. Len(B) = Len(s) /\ \A i \in 1 .. Len(s) : B[i] = s[i]
    BY <1>0, <2>3
  <2> QED
    BY <1>0, <2>3, <2>4, SeqEqual
<1>6. m.items \in Seq(GoodItems)
  BY <1>4 DEF NodeOK
<1> HIDE DEF A, B, k, s, m
<1>7. A = <<>>
  BY <1>5, EmptySeq
<1>8. A \o new = new
  BY <1>1, <1>7, ConcatEmptySeq
<1>9. m.items = new \o B
  BY <1>4, <1>8
<1>10. (new \o B)[1] = new[1] /\ Len(new) > 0 /\ Len(new \o B) = Len(new) + Len(B) /\ Len(new) \in Nat /\ Len(B) \in Nat
  BY <1>1, <1>5, Ends
<1>11. Len(m.items) > 0 /\ m.items # <<>>
  <2>1. Len(m.items) > 0
    BY <1>9, <1>10
  <2> QED
    BY <1>6, <2>1, EmptySeq
<1>12. AtStart(m, n, new)
  <2>1. m.items = new \o n.items
    BY <1>5, <1>9 DEF s
  <2> QED
    BY <1>4, <1>6, <1>9, <1>10, <1>11, <2>1, Zenon DEF AtStart, Received
<1> QED
  BY <1>12 DEF m, k, s

-----------------------------------------------------------------------------
(* Hints *)

HintSet ==
  [left : BOOLEAN, update : BOOLEAN, move : BOOLEAN, merge : BOOLEAN,
   pos : [item : Nat, unit : Nat],
   moved : BOOLEAN, changed : BOOLEAN, create : BOOLEAN,
   items_number : Nat, items_bytes : Nat, units_number : Nat, units_bytes : Nat]

\* What of a hint stays the same where units move
SameMode(g, h) ==
  /\ g.left = h.left /\ g.update = h.update /\ g.move = h.move
  /\ g.items_number = h.items_number /\ g.items_bytes = h.items_bytes

\* The insert point is in the tail at item i.
At(h, i) == h.update /\ i = h.pos.item /\ h.pos.unit # MAX_UINT32

(* The fields of a shift hint.                                               *)
LEMMA HintFields ==
  ASSUME NEW h \in HintSet
  PROVE  /\ h.left \in BOOLEAN /\ h.update \in BOOLEAN /\ h.move \in BOOLEAN /\ h.moved \in BOOLEAN
         /\ h.create \in BOOLEAN /\ h.pos \in [item : Nat, unit : Nat] /\ h.pos.item \in Nat /\ h.pos.unit \in Nat
         /\ h.items_number \in Nat /\ h.items_bytes \in Nat
         /\ h.units_number \in Nat /\ h.units_bytes \in Nat
  BY DEF HintSet

\* What tail40_prep_shift() makes of the hint when k units go
Prepared(g, h, k) ==
  /\ g \in HintSet /\ SameMode(g, h) /\ g.create = h.create
  /\ g.units_number = k /\ g.units_bytes \in Nat
  /\ g.pos.item = h.pos.item
  /\ g.moved => h.moved \/ h.move

(* What the insert point of a hint is when k units of the border tail go.    *)
LEMMA UnitsPointFacts ==
  ASSUME NEW h \in HintSet, NEW point \in BOOLEAN, NEW k \in Nat, NEW reached \in BOOLEAN, NEW dstlen \in Nat,
         h.left => ~reached, point /\ h.left => k =< h.pos.unit, reached => h.move
  PROVE  LET g == UnitsPoint(h, point, k, reached, dstlen)
         IN  /\ Prepared(g, h, k)
             /\ h.left => g.pos.unit = IF point THEN h.pos.unit - k ELSE h.pos.unit
             /\ ~h.left /\ ~reached => g.pos.unit = h.pos.unit
<1> DEFINE u == IF ~point \/ (~h.left /\ ~reached) THEN h.pos.unit
                ELSE IF ~h.left THEN 0
                ELSE IF reached THEN k + dstlen ELSE h.pos.unit - k
           g == [h EXCEPT !.units_bytes = k, !.units_number = k,
                          !.moved = h.moved \/ reached, !.pos.unit = u]
<1>1. u \in Nat
  BY HintFields
<1>2. g = UnitsPoint(h, point, k, reached, dstlen)
  BY DEF UnitsPoint
<1>3. /\ h.left => u = IF point THEN h.pos.unit - k ELSE h.pos.unit
      /\ ~h.left /\ ~reached => u = h.pos.unit
  OBVIOUS
<1> HIDE DEF u
<1>4. /\ g \in HintSet /\ g.left = h.left /\ g.update = h.update /\ g.move = h.move /\ g.create = h.create
      /\ g.units_number = k /\ g.units_bytes = k /\ g.pos.item = h.pos.item /\ g.pos.unit = u
      /\ g.moved = (h.moved \/ reached)
      /\ g.items_number = h.items_number /\ g.items_bytes = h.items_bytes
  BY <1>1 DEF HintSet
<1> HIDE DEF g
<1>5. Prepared(g, h, k)
  BY <1>4 DEF Prepared, SameMode
<1> QED
  BY <1>2, <1>3, <1>4, <1>5

\* How much the hint lets go of the tail it at item i
Limit(h, i, it) ==
  IF ~At(h, i) THEN it.len
  ELSE IF h.left THEN h.pos.unit
  ELSE IF h.pos.unit < it.len THEN it.len - h.pos.unit ELSE 0

\* g counts k units of the tail it at item i.
CountsUnits(g, h, i, it, k) ==
  /\ Prepared(g, h, k)
  /\ k \in Nat /\ k =< h.units_bytes /\ k =< it.len
  /\ k < h.units_bytes => k = Limit(h, i, it)
  /\ k =< Limit(h, i, it)
  /\ h.left => g.pos.unit = IF At(h, i) THEN h.pos.unit - k ELSE h.pos.unit
  /\ h.left /\ At(h, i) => k =< h.pos.unit
  /\ ~h.left /\ ~h.move => g.pos.unit = h.pos.unit

(* tail40_prep_shift() counts no more units than there are, than there is   *)
(* room for and than the insert point allows, and stops short of a whole    *)
(* tail only for one of these reasons.                                      *)
LEMMA PrepFacts ==
  ASSUME NEW h \in HintSet, h.left => ~h.move, NEW i \in Nat, NEW it, it.len \in Nat,
         NEW dstlen \in Nat, h.left /\ At(h, i) => h.pos.unit =< it.len, h.units_bytes > 0
  PROVE  LET g == tail40_prep_shift(h, i, it, dstlen)
         IN  CountsUnits(g, h, i, it, g.units_number)
<1> DEFINE point == At(h, i)
           limit == Limit(h, i, it)
           k == IF h.units_bytes > limit THEN limit ELSE h.units_bytes
           reached == /\ point /\ h.move
                      /\ IF h.left THEN k = h.pos.unit
                         ELSE h.pos.unit < it.len => k = it.len - h.pos.unit
           g == UnitsPoint(h, point, k, reached, dstlen)
<1>1. /\ h.left \in BOOLEAN /\ h.update \in BOOLEAN /\ h.move \in BOOLEAN
      /\ h.pos.item \in Nat /\ h.pos.unit \in Nat /\ h.units_bytes \in Nat /\ h.units_bytes # 0
  <2>1. h.units_bytes \in Nat
    BY HintFields
  <2> QED
    BY <2>1, HintFields
<1>2. tail40_prep_shift(h, i, it, dstlen) = g
  BY <1>1, Zenon DEF tail40_prep_shift, UnitsReach, At, Limit
<1>3. point \in BOOLEAN /\ reached \in BOOLEAN
  BY DEF At
<1>4. limit \in Nat /\ limit =< it.len /\ (h.left /\ point => limit = h.pos.unit)
  <2> HIDE DEF point, reached, g, k
  <2> QED
    BY <1>1 DEF Limit, point
<1>5. reached => h.move
  OBVIOUS
<1>6. h.left => ~reached
  BY <1>1
<1> HIDE DEF limit, reached, point
<1>7. k \in Nat /\ k =< h.units_bytes /\ k =< it.len /\ (k < h.units_bytes => k = limit)
      /\ k =< limit /\ (h.left /\ point => k =< h.pos.unit)
  BY <1>1, <1>4
<1> HIDE DEF k
<1>8. /\ Prepared(g, h, k)
      /\ h.left => g.pos.unit = IF point THEN h.pos.unit - k ELSE h.pos.unit
      /\ ~h.left /\ ~reached => g.pos.unit = h.pos.unit
  BY <1>3, <1>5, <1>6, <1>7, UnitsPointFacts
<1> HIDE DEF g
<1>9. g.units_number = k
  BY <1>8 DEF Prepared
<1> QED
  BY <1>2, <1>5, <1>7, <1>8, <1>9, Zenon DEF limit, point, CountsUnits

-----------------------------------------------------------------------------
(* Units that go over *)

\* What stays of a node whose first, or last, tail gives k units
LeftRest(n, it, k) ==
  IF k = it.len THEN node40_shrink(n, Pos(0, MAX_UINT32), it.len, 1)
  ELSE node40_set_key(node40_shrink(n, Pos(0, 0), k, 1), 0, it.key + k)

RightRest(n, N, it, k) ==
  IF k = it.len THEN node40_shrink(n, Pos(N - 1, MAX_UINT32), it.len, 1)
  ELSE node40_shrink(n, Pos(N - 1, 0), k, 1)

\* Of a source shifted to the left: what its items are then
LeftItems(r, src, it, k) ==
  IF k = it.len THEN FromBehind(r, src, 1) ELSE Instead(r, src, 1, Tail40(it.key + k, it.len - k))

\* Of a source shifted to the right: what its items are then
RightItems(r, src, it, k) ==
  IF k = it.len THEN UpTo(r, src, Len(src.items) - 1)
  ELSE Instead(r, src, Len(src.items), Tail40(it.key, it.len - k))

(* What stays goes with the tail y that the first k units are the end of.   *)
LEMMA LeavesFirst ==
  ASSUME NEW n, NodeOK(n), NEW N \in Nat, N = Len(n.items), N > 0,
         NEW it, it = n.items[1], it.kind = "tail", NEW k \in 1 .. it.len,
         NEW y \in GoodItems, y.kind = "tail", LastKey(y) = (it.key + k) - 1
  PROVE  LET m == LeftRest(n, it, k)
         IN  /\ NodeOK(m)
             /\ m.items # <<>> => Precedes(y, m.items[1])
             /\ k = it.len => FromBehind(m, n, 1) /\ (m.items # <<>> => Tight(y, m.items[1]))
             /\ k # it.len => Instead(m, n, 1, Tail40(it.key + k, it.len - k)) /\ k < it.len
<1> DEFINE m == LeftRest(n, it, k)
<1>0. n.items \in Seq(GoodItems) /\ 1 \in 1 .. Len(n.items)
  BY DEF NodeOK
<1>1. it \in GoodItems
  BY <1>0, ElementOfSeq
<1>2. it.len \in Nat /\ it.key \in Nat /\ LastKey(it) = (it.key + it.len) - 1 /\ LastKey(y) \in Nat
  BY <1>1, ItemFacts
<1>3. CASE k = it.len
  <2>1. NodeOK(m) /\ FromBehind(m, n, 1)
    BY <1>3, GiveFirst DEF LeftRest
  <2> HIDE DEF m
  <2>2. LastKey(y) = LastKey(it)
    BY <1>2, <1>3
  <2>3. m.items # <<>> => Tight(y, m.items[1])
    <3> SUFFICES ASSUME m.items # <<>> PROVE Tight(y, m.items[1])
      OBVIOUS
    <3>1. m.items \in Seq(GoodItems)
      BY <2>1 DEF NodeOK
    <3>2. Len(m.items) \in Nat /\ Len(m.items) # 0 /\ Len(m.items) = N - 1
      BY <2>1, <3>1, EmptySeq DEF FromBehind
    <3>3. 1 \in 1 .. N - 1 /\ 1 + 1 \in 1 .. N
      BY <3>2
    <3>4. m.items[1] = n.items[1 + 1]
      BY <2>1, <3>3, Zenon DEF FromBehind
    <3>5. n.items[1 + 1] \in GoodItems
      BY <1>0, <3>3, ElementOfSeq
    <3>6. Tight(n.items[1], n.items[1 + 1])
      BY <3>3 DEF NodeOK, Neat
    <3> QED
      BY <1>1, <2>2, <3>4, <3>5, <3>6, TightByKeys
  <2>4. m.items # <<>> => Precedes(y, m.items[1])
    BY <2>3 DEF Tight
  <2> QED
    BY <1>3, <2>1, <2>3, <2>4 DEF m
<1>4. CASE k # it.len
  <2> DEFINE z == Tail40(it.key + k, it.len - k)
  <2>1. k < it.len
    BY <1>2, <1>4
  <2>2. NodeOK(m) /\ Instead(m, n, 1, z)
    BY <1>4, <2>1, GiveFirst DEF LeftRest
  <2>3. z.key = it.key + k
    BY DEF Tail40
  <2> HIDE DEF m, z
  <2>4. m.items[1] = z
    BY <2>2 DEF Instead
  <2>5. LastKey(y) < z.key
    <3> DEFINE a == it.key
    <3>1. a \in Nat /\ LastKey(y) = (a + k) - 1 /\ z.key = a + k
      BY <1>2, <2>3
    <3> HIDE DEF a
    <3>2. (a + k) - 1 < a + k
      BY <3>1
    <3> QED
      BY <3>1, <3>2, Zenon
  <2>6. Precedes(y, m.items[1])
    BY <2>4, <2>5 DEF Precedes
  <2> QED
    BY <1>4, <2>1, <2>2, <2>6 DEF m, z
<1> QED
  BY <1>3, <1>4

(* What stays goes with the tail y that the last k units are the start of.  *)
LEMMA LeavesLast ==
  ASSUME NEW n, NodeOK(n), NEW N \in Nat, N = Len(n.items), N > 0,
         NEW it, it = n.items[N], it.kind = "tail", NEW k \in 1 .. it.len,
         NEW y \in GoodItems, y.kind = "tail", y.key = (it.key + it.len) - k
  PROVE  LET m == RightRest(n, N, it, k)
         IN  /\ NodeOK(m)
             /\ m.items # <<>> => Precedes(m.items[Len(m.items)], y)
             /\ k = it.len => (m.items # <<>> => Tight(m.items[Len(m.items)], y))
             /\ k # it.len => Len(m.items) = N /\ k < it.len
             /\ RightItems(m, n, it, k)
<1> DEFINE m == RightRest(n, N, it, k)
<1>0. n.items \in Seq(GoodItems) /\ N \in 1 .. Len(n.items)
  BY DEF NodeOK
<1>1. it \in GoodItems
  BY <1>0, ElementOfSeq
<1>2. it.len \in Nat /\ it.key \in Nat /\ y.key \in Nat
  BY <1>1, ItemFacts
<1>3. CASE k = it.len
  <2>1. NodeOK(m) /\ UpTo(m, n, N - 1)
    BY <1>3, GiveLast DEF RightRest
  <2> HIDE DEF m
  <2>2. y.key = it.key
    <3> DEFINE a == it.key  b == it.len
    <3>1. a \in Nat /\ b \in Nat /\ y.key = (a + b) - b
      BY <1>2, <1>3
    <3> HIDE DEF a, b
    <3>2. (a + b) - b = a
      BY <3>1
    <3> QED
      BY <3>1, <3>2 DEF a
  <2>3. m.items # <<>> => Tight(m.items[Len(m.items)], y)
    <3> SUFFICES ASSUME m.items # <<>> PROVE Tight(m.items[Len(m.items)], y)
      OBVIOUS
    <3>1. m.items \in Seq(GoodItems)
      BY <2>1 DEF NodeOK
    <3>2. Len(m.items) \in Nat /\ Len(m.items) # 0 /\ Len(m.items) = N - 1
      BY <2>1, <3>1, EmptySeq DEF UpTo
    <3>3. N - 1 \in 1 .. N - 1 /\ N - 1 \in 1 .. N /\ (N - 1) + 1 = N
      BY <3>2
    <3>4. m.items[N - 1] = n.items[N - 1]
      BY <2>1, <3>3, Zenon DEF UpTo
    <3>5. n.items[N - 1] \in GoodItems
      BY <1>0, <3>3, ElementOfSeq
    <3>6. Tight(n.items[N - 1], n.items[N])
      BY <3>3 DEF NodeOK, Neat
    <3>7. Tight(n.items[N - 1], y)
      BY <1>1, <2>2, <3>5, <3>6, TightByKeys
    <3> QED
      BY <3>2, <3>4, <3>7
  <2>4. m.items # <<>> => Precedes(m.items[Len(m.items)], y)
    BY <2>3 DEF Tight
  <2>5. RightItems(m, n, it, k)
    BY <1>3, <2>1 DEF RightItems
  <2> QED
    BY <1>3, <2>1, <2>3, <2>4, <2>5 DEF m
<1>4. CASE k # it.len
  <2> DEFINE z == Tail40(it.key, it.len - k)
  <2>1. k < it.len
    BY <1>2, <1>4
  <2>2. NodeOK(m) /\ Instead(m, n, N, z)
    BY <1>4, <2>1, GiveLast DEF RightRest
  <2>3. z.key = it.key /\ z.len = it.len - k /\ z.kind = "tail"
    BY DEF Tail40
  <2> HIDE DEF m, z
  <2>4. m.items[N] = z /\ Len(m.items) = N
    BY <2>2 DEF Instead
  <2>5. LastKey(z) < y.key
    <3> DEFINE a == it.key  b == it.len
    <3>1. a \in Nat /\ b \in Nat /\ k \in Nat /\ y.key = (a + b) - k
      BY <1>2
    <3>2. LastKey(z) = z.key + z.len - 1
      <4>1. LastKey(z) = tail40_maxreal_key(z)
        BY <2>3, Zenon DEF LastKey, Splittable
      <4> QED
        BY <4>1, Zenon DEF tail40_maxreal_key
    <3>3. LastKey(z) = a + (b - k) - 1
      BY <2>3, <3>2, Zenon
    <3> HIDE DEF a, b
    <3>4. a + (b - k) - 1 < (a + b) - k
      BY <3>1
    <3> QED
      BY <3>1, <3>3, <3>4, Zenon
  <2>6. Precedes(m.items[Len(m.items)], y)
    BY <2>4, <2>5 DEF Precedes
  <2>7. RightItems(m, n, it, k)
    BY <1>4, <2>2 DEF RightItems, z
  <2> QED
    BY <1>4, <2>1, <2>2, <2>4, <2>6, <2>7 DEF m
<1> QED
  BY <1>3, <1>4

(* Tails that may be merged are of one object.                              *)
LEMMA Joins ==
  ASSUME NEW a \in GoodItems, NEW b \in GoodItems, reiser4_item_mergeable(a, b)
  PROVE  a.kind = "tail" /\ b.kind = "tail" /\ LastKey(a) + 1 = b.key /\ First(a.key) = First(b.key)
<1>1. a.kind = "tail" /\ b.kind = "tail" /\ LastKey(a) + 1 = b.key
  BY TightByKeys
<1> DEFINE p == a.key  q == b.key  L == LastKey(a)  F == First(p)  G == First(q)
<1>2. /\ p \in Nat /\ q \in Nat /\ L \in Nat /\ p =< L /\ L < F + KeySpan /\ G < q /\ L + 1 = q
      /\ F \in Nat /\ G \in Nat /\ KeySpan \in Nat
  BY <1>1, ItemFacts, FirstFacts, NodeConstants
<1>3. p =< q => (F # G => F + KeySpan =< G)
  BY <1>2, Apart
<1> HIDE DEF p, q, L, F, G
<1>4. F = G
  BY <1>2, <1>3
<1> QED
  BY <1>1, <1>4 DEF F, G, p, q

(* A part of a tail, from a place in it on.                                 *)
LEMMA Part ==
  ASSUME NEW it \in GoodItems, it.kind = "tail", NEW k \in 1 .. it.len, NEW j \in 0 .. it.len - k
  PROVE  /\ Tail40(it.key + j, k) \in GoodItems
         /\ LastKey(Tail40(it.key + j, k)) = ((it.key + j) + k) - 1
<1> DEFINE a == it.key  b == it.len  F == First(a)  L == LastKey(it)  y == Tail40(a + j, k)
<1>1. /\ a \in Nat /\ b \in Nat /\ k \in Nat /\ k > 0 /\ k =< b /\ j \in Nat /\ j =< b - k
      /\ F \in Nat /\ F < a /\ L = (a + b) - 1 /\ L < F + KeySpan /\ KeySpan \in Nat
  BY ItemFacts, FirstFacts, NodeConstants
<1>2. y.kind = "tail" /\ y.key = a + j /\ y.len = k
  BY DEF Tail40
<1>3. First(a) = F
  OBVIOUS
<1> HIDE DEF a, b, F, L, y
<1>4. a + j \in Nat /\ F =< a + j /\ F < a + j /\ a + j < F + KeySpan /\ ((a + j) + k) - 1 < F + KeySpan
  <2>1. a + j \in Nat
    BY <1>1
  <2>2. F =< a + j /\ F < a + j
    BY <1>1
  <2>3. a + j < F + KeySpan
    BY <1>1
  <2>4. ((a + j) + k) - 1 < F + KeySpan
    BY <1>1
  <2> QED
    BY <2>1, <2>2, <2>3, <2>4, Zenon
<1>5. First(a + j) = F
  BY <1>1, <1>3, <1>4, SameFirst, SMT
<1>6. y \in GoodItems
  BY <1>1, <1>4, <1>5, TailGood DEF y
<1>7. LastKey(y) = ((a + j) + k) - 1
  BY <1>2, <1>6, ItemFacts
<1> QED
  BY <1>6, <1>7 DEF y, a

-----------------------------------------------------------------------------
(* What items hold, unit by unit *)

UnitSet == Kinds \X Nat

\* The units of two sequences of items are those of the first, then those of the second.
UnitsAddUp ==
  /\ \A s \in Seq(GoodItems) : Flat(s) \in Seq(UnitSet)
  /\ \A s, t \in Seq(GoodItems) : Flat(s \o t) = Flat(s) \o Flat(t)
  /\ \A y \in GoodItems : Flat(<<y>>) = UnitKeys(y) /\ UnitKeys(y) \in Seq(UnitSet)
  /\ Flat(<<>>) = <<>>

(* A good item has units, with keys.                                        *)
LEMMA UnitsOf ==
  ASSUME NEW y \in GoodItems
  PROVE  UnitKeys(y) \in Seq(UnitSet) /\ Len(UnitKeys(y)) = Units(y) /\ Units(y) \in Nat \ {0}
<1>1. y.key \in Nat /\ y.kind \in Kinds /\ y.len \in Nat \ {0}
  BY DEF GoodItems, ItemSet
<1>2. Units(y) \in Nat \ {0}
  BY <1>1 DEF Units
<1> DEFINE n == Units(y)  kind == y.kind  key == y.key
           f == [u \in 1 .. n |-> <<kind, key + u - 1>>]
<1>3. UnitKeys(y) = f
  BY DEF UnitKeys
<1>4. n \in Nat /\ kind \in Kinds /\ key \in Nat
  BY <1>1, <1>2
<1> HIDE DEF n, kind, key
<1>5. \A u \in 1 .. n : key + u - 1 \in Nat
  BY <1>4
<1>6. \A u \in 1 .. n : <<kind, key + u - 1>> \in UnitSet
  BY <1>4, <1>5 DEF UnitSet
<1>7. f \in [1 .. n -> UnitSet] /\ DOMAIN f = 1 .. n
  BY <1>6
<1> HIDE DEF f
<1>8. f \in Seq(UnitSet) /\ Len(f) = n
  <2>1. f \in UNION {[1 .. m -> UnitSet] : m \in Nat}
    BY <1>4, <1>7
  <2>2. f \in Seq(UnitSet)
    BY <2>1, SeqDef
  <2> QED
    BY <1>4, <1>7, <2>2, LenProperties
<1> QED
  BY <1>2, <1>3, <1>8 DEF n

(* The units are put together piece by piece.                               *)
LEMMA UnitsTogether == UnitsAddUp
<1> DEFINE g == [y \in GoodItems |-> UnitKeys(y)]
<1>1. g \in [GoodItems -> Seq(UnitSet)] /\ \A y \in GoodItems : g[y] = UnitKeys(y)
  BY UnitsOf
<1> HIDE DEF g
<1>2. ASSUME NEW s \in Seq(GoodItems) PROVE Flat(s) = FlatMap(g, s)
  <2>1. Len(s) \in Nat /\ DOMAIN s = 1 .. Len(s) /\ \A i \in 1 .. Len(s) : s[i] \in GoodItems
    BY ElementOfSeq, LenProperties
  <2>2. [i \in 1 .. Len(s) |-> UnitKeys(s[i])] = [i \in DOMAIN s |-> g[s[i]]]
    BY <1>1, <2>1
  <2> QED
    BY <2>2, Zenon DEF Flat, FlatMap
<1>3. \A s, t \in Seq(GoodItems) : /\ FlatMap(g, s \o t) = FlatMap(g, s) \o FlatMap(g, t)
                                   /\ FlatMap(g, s) \in Seq(UnitSet)
                                   /\ FlatMap(g, t) \in Seq(UnitSet)
  BY <1>1, FlatMapConcat
<1>4. \A s, t \in Seq(GoodItems) : s \o t \in Seq(GoodItems)
  BY ConcatProperties
<1>5. \A y \in GoodItems : FlatMap(g, <<y>>) = g[y]
  BY <1>1, FlatMapOne
<1>6. FlatMap(g, <<>>) = <<>>
  BY FlatMapEmpty
<1>7. <<>> \in Seq(GoodItems) /\ \A y \in GoodItems : <<y>> \in Seq(GoodItems)
  OBVIOUS
<1>8. \A s \in Seq(GoodItems) : Flat(s) \in Seq(UnitSet)
  BY <1>2, <1>3, Zenon
<1>9. \A s, t \in Seq(GoodItems) : Flat(s \o t) = Flat(s) \o Flat(t)
  BY <1>2, <1>3, <1>4, Zenon
<1>10. \A y \in GoodItems : Flat(<<y>>) = UnitKeys(y) /\ UnitKeys(y) \in Seq(UnitSet)
  BY <1>1, <1>2, <1>5, <1>7, UnitsOf, Zenon
<1>11. Flat(<<>>) = <<>>
  BY <1>2, <1>6, <1>7, Zenon
<1> QED
  BY <1>8, <1>9, <1>10, <1>11, Zenon DEF UnitsAddUp

(* The units of two nodes.                                                   *)
LEMMA FlatOf ==
  ASSUME NEW m, NodeOK(m), NEW n, NodeOK(n)
  PROVE  /\ Flat(m.items) \in Seq(UnitSet) /\ Flat(n.items) \in Seq(UnitSet)
         /\ Flat(m.items \o n.items) = Flat(m.items) \o Flat(n.items)
<1>1. m.items \in Seq(GoodItems) /\ n.items \in Seq(GoodItems)
  BY DEF NodeOK
<1> QED
  BY <1>1, UnitsTogether, Zenon DEF UnitsAddUp

Splits(key, a, b) == UnitKeys(Tail40(key, a + b)) = UnitKeys(Tail40(key, a)) \o UnitKeys(Tail40(key + a, b))

(* A tail cut in two holds what it held.                                    *)
LEMMA UnitsSplit ==
  ASSUME NEW key \in Nat, NEW a \in Nat, NEW b \in Nat
  PROVE  Splits(key, a, b)
<1> DEFINE F(k, n) == [u \in 1 .. n |-> <<"tail", k + u - 1>>]
<1>1. ASSUME NEW k, NEW n PROVE UnitKeys(Tail40(k, n)) = F(k, n)
  BY DEF UnitKeys, Units, Tail40
<1>2. ASSUME NEW k \in Nat, NEW n \in Nat
      PROVE  F(k, n) \in Seq(UnitSet) /\ Len(F(k, n)) = n /\ \A u \in 1 .. n : F(k, n)[u] = <<"tail", k + u - 1>>
  <2>1. \A u \in 1 .. n : <<"tail", k + u - 1>> \in UnitSet
    BY DEF UnitSet, Kinds
  <2> DEFINE f == F(k, n)
  <2>2. f \in [1 .. n -> UnitSet] /\ DOMAIN f = 1 .. n /\ \A u \in 1 .. n : f[u] = <<"tail", k + u - 1>>
    BY <2>1
  <2> HIDE DEF f
  <2>3. f \in UNION {[1 .. m -> UnitSet] : m \in Nat}
    BY <2>2
  <2>4. f \in Seq(UnitSet)
    BY <2>3, SeqDef
  <2>5. Len(f) = n
    BY <2>2, <2>4, LenProperties
  <2> QED
    BY <2>2, <2>4, <2>5 DEF f
<1> HIDE DEF F
<1> DEFINE x == F(key, a)  y == F(key + a, b)  z == F(key, a + b)  xy == x \o y
<1>3. /\ x \in Seq(UnitSet) /\ Len(x) = a /\ \A u \in 1 .. a : x[u] = <<"tail", key + u - 1>>
      /\ y \in Seq(UnitSet) /\ Len(y) = b /\ \A u \in 1 .. b : y[u] = <<"tail", (key + a) + u - 1>>
      /\ z \in Seq(UnitSet) /\ Len(z) = a + b /\ \A u \in 1 .. a + b : z[u] = <<"tail", key + u - 1>>
  <2>1. key + a \in Nat /\ a + b \in Nat
    OBVIOUS
  <2> QED
    BY <1>2, <2>1, Zenon
<1> HIDE DEF x, y, z
<1>4. /\ xy \in Seq(UnitSet) /\ Len(xy) = Len(x) + Len(y)
      /\ \A i \in 1 .. Len(x) + Len(y) : xy[i] = IF i <= Len(x) THEN x[i] ELSE y[i - Len(x)]
  BY <1>3, ConcatProperties
<1>5. Len(xy) = a + b /\ \A i \in 1 .. a + b : xy[i] = IF i <= a THEN x[i] ELSE y[i - a]
  BY <1>3, <1>4, Zenon
<1> HIDE DEF xy
<1>6. ASSUME NEW i \in 1 .. a + b PROVE xy[i] = z[i]
  <2>1. z[i] = <<"tail", key + i - 1>>
    BY <1>3
  <2>2. CASE i <= a
    <3>1. i \in 1 .. a
      BY <2>2
    <3>2. xy[i] = x[i] /\ x[i] = <<"tail", key + i - 1>>
      BY <1>3, <1>5, <2>2, <3>1
    <3> QED
      BY <2>1, <3>2
  <2>3. CASE ~(i <= a)
    <3>1. i - a \in 1 .. b /\ (key + a) + (i - a) - 1 = key + i - 1
      BY <2>3
    <3>2. xy[i] = y[i - a]
      BY <1>5, <2>3
    <3>3. y[i - a] = <<"tail", (key + a) + (i - a) - 1>>
      BY <1>3, <3>1
    <3> QED
      BY <2>1, <3>1, <3>2, <3>3
  <2> QED
    BY <2>2, <2>3
<1>7. xy = z
  <2>1. xy \in Seq(UnitSet) /\ z \in Seq(UnitSet) /\ Len(xy) = Len(z)
    BY <1>3, <1>4, <1>5
  <2>2. \A i \in 1 .. Len(xy) : xy[i] = z[i]
    BY <1>5, <1>6
  <2> QED
    BY <2>1, <2>2, SeqEqual
<1> QED
  BY <1>1, <1>7, Zenon DEF x, y, z, xy, Splits

(* A sequence without its first element.                                    *)
LEMMA FirstApart ==
  ASSUME NEW S, NEW s \in Seq(S), s # <<>>, NEW t \in Seq(S), Len(t) = Len(s) - 1,
         \A j \in 1 .. Len(s) - 1 : t[j] = s[j + 1]
  PROVE  s = <<s[1]>> \o t /\ s[1] \in S
<1>1. s = <<s[1]>> \o Tail(s) /\ s[1] \in S /\ Tail(s) \in Seq(S)
  BY ConsOf
<1>2. Len(Tail(s)) = Len(s) - 1 /\ \A j \in 1 .. Len(s) - 1 : Tail(s)[j] = s[j + 1]
  BY HeadTailProperties
<1>3. t = Tail(s)
  <2> DEFINE q == Tail(s)
  <2>1. q \in Seq(S) /\ Len(q) = Len(t) /\ \A j \in 1 .. Len(t) : q[j] = t[j]
    BY <1>1, <1>2
  <2> HIDE DEF q
  <2>2. q = t
    BY <2>1, SeqEqual
  <2> QED
    BY <2>2 DEF q
<1> QED
  BY <1>1, <1>3

(* A sequence without its last element.                                     *)
LEMMA LastApart ==
  ASSUME NEW S, NEW s \in Seq(S), s # <<>>, NEW N, N = Len(s), NEW t \in Seq(S), Len(t) = N - 1,
         \A j \in 1 .. N - 1 : t[j] = s[j]
  PROVE  s = t \o <<s[N]>> /\ s[N] \in S
<1>1. N \in Nat /\ N > 0
  BY EmptySeq
<1>2. s[N] \in S
  <2>1. N \in 1 .. Len(s)
    BY <1>1
  <2> QED
    BY <2>1, ElementOfSeq
<1> DEFINE o == <<s[N]>>  q == t \o o
<1>3. o \in Seq(S) /\ Len(o) = 1 /\ o[1] = s[N]
  BY <1>2
<1> HIDE DEF o
<1>4. /\ q \in Seq(S) /\ Len(q) = Len(t) + Len(o)
      /\ \A i \in 1 .. Len(t) + Len(o) : q[i] = IF i <= Len(t) THEN t[i] ELSE o[i - Len(t)]
  BY <1>3, ConcatProperties
<1> HIDE DEF q
<1>5. Len(q) = N /\ \A i \in 1 .. N : q[i] = IF i <= N - 1 THEN t[i] ELSE o[i - (N - 1)]
  <2>1. Len(t) + Len(o) = N
    BY <1>1, <1>3
  <2> QED
    BY <1>4, <2>1, Zenon
<1>6. ASSUME NEW i \in 1 .. N PROVE q[i] = s[i]
  <2>1. CASE i <= N - 1
    <3>1. i \in 1 .. N - 1
      BY <1>1, <2>1
    <3> QED
      BY <1>5, <2>1, <3>1
  <2>2. CASE ~(i <= N - 1)
    <3>1. i = N /\ i - (N - 1) = 1
      BY <1>1, <2>2
    <3>2. q[i] = o[i - (N - 1)]
      BY <1>5, <2>2
    <3> QED
      BY <1>3, <3>1, <3>2
  <2> QED
    BY <2>1, <2>2
<1>7. q = s
  BY <1>4, <1>5, <1>6, SeqEqual
<1> QED
  BY <1>2, <1>7 DEF q, o

\* The units of n and of m, which differ in the first item only, or the last
FirstOther(m, n, y) ==
  \E b \in Seq(UnitSet) : /\ Flat(n.items) = UnitKeys(n.items[1]) \o b
                          /\ Flat(m.items) = UnitKeys(y) \o b

LastOther(m, n, y) ==
  \E b \in Seq(UnitSet) : /\ Flat(n.items) = b \o UnitKeys(n.items[Len(n.items)])
                          /\ Flat(m.items) = b \o UnitKeys(y)

(* What the first item of a node holds, and the others.                      *)
LEMMA UnitsFirst ==
  ASSUME NEW n, NodeOK(n), NEW m, NodeOK(m), n.items # <<>>
  PROVE  /\ FromBehind(m, n, 1) => Flat(n.items) = UnitKeys(n.items[1]) \o Flat(m.items)
         /\ \A y \in GoodItems : Instead(m, n, 1, y) => FirstOther(m, n, y)
         /\ n.items[1] \in GoodItems
<1> DEFINE s == n.items  t == m.items  N == Len(s)
<1>1. s \in Seq(GoodItems) /\ t \in Seq(GoodItems) /\ N \in Nat /\ N > 0 /\ s # <<>>
  <2>1. s \in Seq(GoodItems) /\ t \in Seq(GoodItems) /\ s # <<>>
    BY DEF NodeOK
  <2> QED
    BY <2>1, EmptySeq
<1>2. FromBehind(m, n, 1) <=> (Len(t) = N - 1 /\ \A j \in 1 .. N - 1 : t[j] = s[j + 1])
  BY Zenon DEF FromBehind
<1>3. ASSUME NEW y, Instead(m, n, 1, y)
      PROVE  Len(t) = N /\ t[1] = y /\ \A j \in 1 .. N : j # 1 => t[j] = s[j]
  BY <1>3, Zenon DEF Instead
<1> HIDE DEF s, t, N
<1>4. ASSUME NEW q \in Seq(GoodItems), Len(q) = Len(s) - 1, \A j \in 1 .. Len(s) - 1 : q[j] = s[j + 1]
      PROVE  s = <<s[1]>> \o q /\ s[1] \in GoodItems
  BY <1>1, <1>4, FirstApart
<1>5. Tail(s) \in Seq(GoodItems) /\ Len(Tail(s)) = N - 1 /\ (\A j \in 1 .. N - 1 : Tail(s)[j] = s[j + 1]) /\ N = Len(s)
  <2>1. /\ Tail(s) \in Seq(GoodItems) /\ Len(Tail(s)) = Len(s) - 1
        /\ \A j \in 1 .. Len(Tail(s)) : Tail(s)[j] = s[j + 1]
    BY <1>1, HeadTailProperties
  <2> QED
    BY <2>1, Zenon DEF N
<1> DEFINE q == Tail(s)
<1> HIDE DEF q
<1>6. /\ q \in Seq(GoodItems) /\ Len(q) = N - 1 /\ (\A j \in 1 .. N - 1 : q[j] = s[j + 1]) /\ N = Len(s)
      /\ s = <<s[1]>> \o q /\ s[1] \in GoodItems
  <2>1. q \in Seq(GoodItems) /\ Len(q) = N - 1 /\ (\A j \in 1 .. N - 1 : q[j] = s[j + 1]) /\ N = Len(s)
    BY <1>5 DEF q
  <2> QED
    BY <1>4, <2>1, Zenon
<1>7. \A y \in GoodItems : Flat(<<y>> \o q) = UnitKeys(y) \o Flat(q) /\ UnitKeys(y) \in Seq(UnitSet) /\ Flat(q) \in Seq(UnitSet)
  <2>1. \A y \in GoodItems : <<y>> \in Seq(GoodItems)
    OBVIOUS
  <2> QED
    BY <1>6, <2>1, UnitsTogether, Zenon DEF UnitsAddUp
<1>8. ASSUME Len(t) = N - 1, \A j \in 1 .. N - 1 : t[j] = s[j + 1]
      PROVE  Flat(s) = UnitKeys(s[1]) \o Flat(t)
  <2>1. t = q
    BY <1>1, <1>6, <1>8, SeqEqual
  <2> QED
    BY <1>6, <1>7, <2>1, Zenon
<1>9. ASSUME NEW y \in GoodItems, Len(t) = N, t[1] = y, \A j \in 1 .. N : j # 1 => t[j] = s[j]
      PROVE  \E b \in Seq(UnitSet) : Flat(s) = UnitKeys(s[1]) \o b /\ Flat(t) = UnitKeys(y) \o b
  <2>1. t # <<>>
    BY <1>1, <1>9, EmptySeq
  <2>2. ASSUME NEW j \in 1 .. N - 1 PROVE q[j] = t[j + 1]
    <3>1. j + 1 \in 1 .. N /\ j + 1 # 1
      BY <1>1
    <3> QED
      BY <1>6, <1>9, <3>1
  <2>3. t = <<t[1]>> \o q
    BY <1>1, <1>6, <1>9, <2>1, <2>2, FirstApart
  <2> QED
    BY <1>6, <1>7, <1>9, <2>3, Zenon
<1>10. s[1] \in GoodItems
  BY <1>6
<1> QED
  BY <1>2, <1>3, <1>8, <1>9, <1>10, Zenon DEF s, t, FirstOther

(* What the last item of a node holds, and the others.                      *)
LEMMA UnitsLast ==
  ASSUME NEW n, NodeOK(n), NEW m, NodeOK(m), n.items # <<>>, NEW N, N = Len(n.items)
  PROVE  /\ UpTo(m, n, N - 1) => Flat(n.items) = Flat(m.items) \o UnitKeys(n.items[N])
         /\ \A y \in GoodItems : Instead(m, n, N, y) => LastOther(m, n, y)
         /\ n.items[N] \in GoodItems
<1> DEFINE s == n.items  t == m.items
<1>1. s \in Seq(GoodItems) /\ t \in Seq(GoodItems) /\ N \in Nat /\ N > 0 /\ s # <<>> /\ N = Len(s)
  <2>1. s \in Seq(GoodItems) /\ t \in Seq(GoodItems) /\ s # <<>>
    BY DEF NodeOK
  <2> QED
    BY <2>1, EmptySeq
<1>2. UpTo(m, n, N - 1) <=> (Len(t) = N - 1 /\ \A j \in 1 .. N - 1 : t[j] = s[j])
  BY Zenon DEF UpTo
<1>3. ASSUME NEW y, Instead(m, n, N, y)
      PROVE  Len(t) = N /\ t[N] = y /\ \A j \in 1 .. N : j # N => t[j] = s[j]
  BY <1>3, Zenon DEF Instead
<1> HIDE DEF s, t
<1> DEFINE q == SubSeq(s, 1, N - 1)
<1>5. q \in Seq(GoodItems) /\ Len(q) = N - 1 /\ \A j \in 1 .. N - 1 : q[j] = s[j]
  <2>1. N - 1 \in 0 .. Len(s) /\ N - 1 \in N - 1 .. Len(s)
    BY <1>1
  <2>2. Pieces(GoodItems, s, N - 1, N - 1, q, SubSeq(s, (N - 1) + 1, N - 1), SubSeq(s, (N - 1) + 1, Len(s)))
    BY <1>1, <2>1, Cut
  <2> QED
    BY <2>2, Zenon DEF Pieces
<1> HIDE DEF q
<1>6. s = q \o <<s[N]>> /\ s[N] \in GoodItems
  BY <1>1, <1>5, LastApart
<1>7. \A y \in GoodItems : Flat(q \o <<y>>) = Flat(q) \o UnitKeys(y) /\ UnitKeys(y) \in Seq(UnitSet) /\ Flat(q) \in Seq(UnitSet)
  <2>1. \A y \in GoodItems : <<y>> \in Seq(GoodItems)
    OBVIOUS
  <2> QED
    BY <1>5, <2>1, UnitsTogether, Zenon DEF UnitsAddUp
<1>8. ASSUME Len(t) = N - 1, \A j \in 1 .. N - 1 : t[j] = s[j]
      PROVE  Flat(s) = Flat(t) \o UnitKeys(s[N])
  <2>1. t = q
    BY <1>1, <1>5, <1>8, SeqEqual
  <2> QED
    BY <1>6, <1>7, <2>1, Zenon
<1>9. ASSUME NEW y \in GoodItems, Len(t) = N, t[N] = y, \A j \in 1 .. N : j # N => t[j] = s[j]
      PROVE  \E a \in Seq(UnitSet) : Flat(s) = a \o UnitKeys(s[N]) /\ Flat(t) = a \o UnitKeys(y)
  <2>1. t # <<>>
    BY <1>1, <1>9, EmptySeq
  <2>2. ASSUME NEW j \in 1 .. N - 1 PROVE q[j] = t[j]
    <3>1. j \in 1 .. N /\ j # N
      BY <1>1
    <3> QED
      BY <1>5, <1>9, <3>1
  <2>3. t = q \o <<t[N]>>
    BY <1>1, <1>5, <1>9, <2>1, <2>2, LastApart
  <2> QED
    BY <1>6, <1>7, <1>9, <2>3, Zenon
<1> QED
  BY <1>2, <1>3, <1>6, <1>8, <1>9, Zenon DEF s, t, LastOther

-----------------------------------------------------------------------------
(* The insert point among the units *)

(* An item is smaller than its node.                                        *)
LEMMA ItemInside ==
  ASSUME NEW n, NodeOK(n), NEW i \in 1 .. Len(n.items), NEW it, it = n.items[i]
  PROVE  it \in GoodItems /\ it.len \in Nat /\ it.len < NodeSize /\ it.len # MAX_UINT32
<1> DEFINE s == n.items  A == SubSeq(s, 1, i - 1)  B == SubSeq(s, i + 1, Len(s))  o == <<it>>
<1>1. s \in Seq(GoodItems) /\ n.free \in Nat /\ n.free + Weight(s) = NodeSize
  BY DEF NodeOK
<1>2. it \in GoodItems
  BY <1>1, ElementOfSeq
<1>3. it \in ItemSet /\ it.len \in Nat /\ it.len > 0
  BY <1>2, ItemFacts
<1>4. i \in 1 .. Len(s) /\ i \in Nat /\ Len(s) \in Nat
  BY <1>1, LenProperties
<1>5. s = (A \o o) \o B
  <2>1. s[i] = it
    OBVIOUS
  <2> HIDE DEF s
  <2>2. s = (SubSeq(s, 1, i - 1) \o <<s[i]>>) \o SubSeq(s, i + 1, Len(s))
    BY <1>1, <1>2, <1>4, Changed
  <2> QED
    BY <2>1, <2>2, Zenon
<1>6. A \in Seq(GoodItems) /\ B \in Seq(GoodItems)
  <2>1. \A j \in 1 .. Len(s) : s[j] \in GoodItems
    BY <1>1, ElementOfSeq
  <2> HIDE DEF s
  <2>2. A \in Seq(GoodItems)
    <3>1. \A j \in 1 .. i - 1 : s[j] \in GoodItems
      BY <1>4, <2>1
    <3>2. 1 \in Int /\ i - 1 \in Int
      BY <1>4
    <3> QED
      BY <3>1, <3>2, SubSeqProperties
  <2>3. B \in Seq(GoodItems)
    <3>1. \A j \in i + 1 .. Len(s) : s[j] \in GoodItems
      BY <1>4, <2>1
    <3>2. i + 1 \in Int /\ Len(s) \in Int
      BY <1>4
    <3> QED
      BY <3>1, <3>2, SubSeqProperties
  <2> QED
    BY <2>2, <2>3
<1>7. A \in Seq(ItemSet) /\ B \in Seq(ItemSet) /\ o \in Seq(ItemSet) /\ A \o o \in Seq(ItemSet)
  <2>1. A \in Seq(ItemSet) /\ B \in Seq(ItemSet)
    BY <1>6, GoodSeqs
  <2>2. o \in Seq(ItemSet)
    BY <1>3
  <2> HIDE DEF A, B, o
  <2> QED
    BY <2>1, <2>2, ConcatProperties
<1> HIDE DEF A, B, s
<1>8. Weight(o) = it.len + IhSize
  BY <1>3, WeightOne
<1> HIDE DEF o
<1>9. /\ Weight(A \o o) = Weight(A) + Weight(o) /\ Weight(A) \in Nat /\ Weight(o) \in Nat
      /\ Weight(s) = Weight(A \o o) + Weight(B) /\ Weight(B) \in Nat
  BY <1>5, <1>7, WeightConcat
<1> DEFINE a == Weight(A)  b == Weight(B)  w == Weight(s)  l == it.len  f == n.free
<1>10. a \in Nat /\ b \in Nat /\ l \in Nat /\ f \in Nat /\ w = (a + (l + IhSize)) + b /\ f + w = NodeSize
       /\ IhSize \in Nat /\ IhSize > 0 /\ NodeSize \in Nat
  BY <1>1, <1>3, <1>8, <1>9, NodeConstants
<1> HIDE DEF a, b, w, l, f
<1>11. l < NodeSize
  BY <1>10
<1>12. l # MAX_UINT32
  <2>1. NodeSize < MAX_UINT32 /\ MAX_UINT32 \in Nat
    <3>1. MAX_UINT32 \in Nat
      BY SMT DEF MAX_UINT32
    <3> QED
      BY <3>1, NodeConstants
  <2> QED
    BY <1>10, <1>11, <2>1
<1> QED
  BY <1>2, <1>3, <1>11, <1>12 DEF l

\* h is the first j members of s.
PrefixOf(S, s, j, h) == h \in Seq(S) /\ Len(h) = j /\ \A i \in 1 .. j : h[i] = s[i]

(* The first j members of a sequence.                                       *)
LEMMA PrefixIs ==
  ASSUME NEW S, NEW s \in Seq(S), NEW j \in 0 .. Len(s)
  PROVE  PrefixOf(S, s, j, SubSeq(s, 1, j))
<1> DEFINE h == SubSeq(s, 1, j)
<1>1. \A i \in 1 .. j : s[i] \in S
  BY ElementOfSeq
<1>2. j \in Nat
  OBVIOUS
<1>3. /\ h \in Seq(S) /\ Len(h) = IF 1 <= j THEN j - 1 + 1 ELSE 0
      /\ \A i \in 1 .. j - 1 + 1 : h[i] = s[1 + i - 1]
  BY <1>1, <1>2, SubSeqProperties
<1> HIDE DEF h
<1>4. Len(h) = j /\ j - 1 + 1 = j /\ \A i \in 1 .. j : 1 + i - 1 = i
  BY <1>2, <1>3
<1> QED
  BY <1>3, <1>4 DEF PrefixOf, h

(* The start of two sequences put together, behind the first one and within *)
(* it.                                                                      *)
LEMMA PrefixOver ==
  ASSUME NEW S, NEW a \in Seq(S), NEW b \in Seq(S), NEW j \in 0 .. Len(b)
  PROVE  SubSeq(a \o b, 1, Len(a) + j) = a \o SubSeq(b, 1, j)
<1> DEFINE m == Len(a)  n == Len(b)  c == a \o b  p == SubSeq(c, 1, m + j)  h == SubSeq(b, 1, j)  q == a \o h
<1>1. m \in Nat /\ n \in Nat /\ j \in Nat /\ j <= n
  OBVIOUS
<1>2. c \in Seq(S) /\ Len(c) = m + n /\ \A i \in 1 .. m + n : c[i] = IF i <= m THEN a[i] ELSE b[i - m]
  BY ConcatProperties
<1> HIDE DEF m, n, c
<1>3. p \in Seq(S) /\ Len(p) = m + j /\ \A i \in 1 .. m + j : p[i] = c[i]
  <2>1. m + j \in 0 .. Len(c)
    BY <1>1, <1>2
  <2> QED
    BY <1>2, <2>1, PrefixIs DEF PrefixOf
<1>4. h \in Seq(S) /\ Len(h) = j /\ \A i \in 1 .. j : h[i] = b[i]
  BY PrefixIs DEF PrefixOf
<1> HIDE DEF h, p
<1>5. q \in Seq(S) /\ Len(q) = m + j /\ \A i \in 1 .. m + j : q[i] = IF i <= m THEN a[i] ELSE h[i - m]
  BY <1>4, ConcatProperties DEF m
<1> HIDE DEF q
<1>6. ASSUME NEW i \in 1 .. m + j PROVE p[i] = q[i]
  <2>1. i \in 1 .. m + n /\ i \in Nat
    BY <1>1
  <2>2. CASE i <= m
    BY <1>2, <1>3, <1>5, <2>1, <2>2
  <2>3. CASE ~(i <= m)
    <3>1. i - m \in 1 .. j
      BY <1>1, <2>1, <2>3
    <3> QED
      BY <1>2, <1>3, <1>4, <1>5, <2>1, <2>3, <3>1
  <2> QED
    BY <2>2, <2>3
<1>7. p = q
  BY <1>3, <1>5, <1>6, SeqEqual
<1> QED
  BY <1>7 DEF p, q, h, c, m

(* Sequences that agree so far have the same start.                         *)
LEMMA SamePrefix ==
  ASSUME NEW S, NEW a \in Seq(S), NEW b \in Seq(S), NEW j \in Nat, j =< Len(a), j =< Len(b),
         \A i \in 1 .. j : a[i] = b[i]
  PROVE  SubSeq(a, 1, j) = SubSeq(b, 1, j)
<1> DEFINE p == SubSeq(a, 1, j)  q == SubSeq(b, 1, j)
<1>1. j \in 0 .. Len(a) /\ j \in 0 .. Len(b)
  OBVIOUS
<1>2. p \in Seq(S) /\ Len(p) = j /\ \A i \in 1 .. j : p[i] = a[i]
  BY <1>1, PrefixIs DEF PrefixOf
<1>3. q \in Seq(S) /\ Len(q) = j /\ \A i \in 1 .. j : q[i] = b[i]
  BY <1>1, PrefixIs DEF PrefixOf
<1> HIDE DEF p, q
<1>4. p = q
  BY <1>2, <1>3, SeqEqual
<1> QED
  BY <1>4 DEF p, q

Count(s) == Len(Flat(s))

Inner(p) == IF p.unit = MAX_UINT32 THEN 0 ELSE p.unit

(* The units in front of the insert point are counted piece by piece.        *)
LEMMA CountIs ==
  /\ \A s \in Seq(GoodItems) : Count(s) \in Nat
  /\ \A s, t \in Seq(GoodItems) : Count(s \o t) = Count(s) + Count(t)
  /\ \A y \in GoodItems : Count(<<y>>) = Units(y) /\ Units(y) \in Nat
  /\ Count(<<>>) = 0
<1>1. ASSUME NEW s \in Seq(GoodItems) PROVE Count(s) \in Nat
  <2>1. Flat(s) \in Seq(UnitSet)
    BY UnitsTogether DEF UnitsAddUp
  <2> QED
    BY <2>1, LenProperties DEF Count
<1>2. ASSUME NEW s \in Seq(GoodItems), NEW t \in Seq(GoodItems) PROVE Count(s \o t) = Count(s) + Count(t)
  <2> DEFINE a == Flat(s)  b == Flat(t)
  <2>1. a \in Seq(UnitSet) /\ b \in Seq(UnitSet) /\ Flat(s \o t) = a \o b
    BY UnitsTogether DEF UnitsAddUp
  <2>2. Count(s) = Len(a) /\ Count(t) = Len(b) /\ Count(s \o t) = Len(Flat(s \o t))
    BY DEF Count
  <2> HIDE DEF a, b
  <2>3. Len(a \o b) = Len(a) + Len(b)
    BY <2>1, ConcatProperties
  <2> QED
    BY <2>1, <2>2, <2>3
<1>3. ASSUME NEW y \in GoodItems PROVE Count(<<y>>) = Units(y) /\ Units(y) \in Nat
  <2>1. Flat(<<y>>) = UnitKeys(y) /\ Len(UnitKeys(y)) = Units(y) /\ Units(y) \in Nat
    BY UnitsOf, UnitsTogether DEF UnitsAddUp
  <2> QED
    BY <2>1, Zenon DEF Count
<1>4. Count(<<>>) = 0
  <2>1. Flat(<<>>) = <<>>
    BY UnitsTogether DEF UnitsAddUp
  <2> QED
    BY <2>1, EmptySeq DEF Count
<1> QED
  BY <1>1, <1>2, <1>3, <1>4

PointSet == [item : Nat, unit : Nat]

(* A point is its item and its unit.                                        *)
LEMMA SamePoint ==
  ASSUME NEW p \in PointSet, NEW q \in PointSet, p.item = q.item, p.unit = q.unit
  PROVE  p = q
  BY DEF PointSet

\* The insert point is in n: before an item, in one or behind the last one.
There(n, p) == Exists(n, p) /\ p.item =< Len(n.items)

(* What the start of a node counts, and how many units are in front of p.   *)
LEMMA GapIs ==
  ASSUME NEW n, NodeOK(n), NEW p \in PointSet, p.item =< Len(n.items)
  PROVE  /\ Gap(n.items, p) = Count(SubSeq(n.items, 1, p.item)) + Inner(p)
         /\ SubSeq(n.items, 1, p.item) \in Seq(GoodItems)
         /\ Count(SubSeq(n.items, 1, p.item)) \in Nat /\ Inner(p) \in Nat
         /\ Gap(n.items, p) \in Nat
<1> DEFINE s == n.items  j == p.item  a == SubSeq(s, 1, j)
<1>1. s \in Seq(GoodItems) /\ p.item \in Nat /\ p.unit \in Nat
  BY DEF NodeOK, PointSet
<1>2. j \in 0 .. Len(s)
  BY <1>1
<1> HIDE DEF s
<1>3. a \in Seq(GoodItems)
  BY <1>1, <1>2, PrefixIs DEF PrefixOf
<1>4. Gap(s, p) = Count(a) + Inner(p)
  BY Zenon DEF Gap, Count, Inner
<1> HIDE DEF a
<1>5. Count(a) \in Nat
  BY <1>3, CountIs
<1>6. Inner(p) \in Nat
  BY <1>1 DEF Inner
<1> DEFINE c == Count(a)  u == Inner(p)
<1> HIDE DEF c, u
<1>7. c + u \in Nat
  BY <1>5, <1>6 DEF c, u
<1> QED
  BY <1>3, <1>4, <1>5, <1>6, <1>7 DEF a, s, c, u
\* Where the insert point p is when k units of the first tail, it, have gone
PointFront(q, p, it, k) ==
  IF k = it.len
  THEN /\ q.item = IF 0 < p.item THEN p.item - 1 ELSE p.item
       /\ q.unit = IF 0 = p.item THEN MAX_UINT32 ELSE p.unit
  ELSE /\ q.item = p.item
       /\ q.unit = IF 0 = p.item THEN p.unit - k ELSE p.unit

\* y and the sequence t behind it make up s, which has j items at least.
FirstParts(s, y, t, j) ==
  /\ s \in Seq(GoodItems) /\ y \in GoodItems /\ t \in Seq(GoodItems) /\ s = <<y>> \o t
  /\ j \in Nat /\ j > 0 /\ j =< Len(s)

(* A sequence of items by its first one.                                    *)
LEMMA FirstCount ==
  ASSUME NEW s, NEW y, NEW t, NEW j, FirstParts(s, y, t, j)
  PROVE  /\ Len(s) = Len(t) + 1
         /\ Count(SubSeq(s, 1, j)) = Units(y) + Count(SubSeq(t, 1, j - 1))
         /\ Count(SubSeq(t, 1, j - 1)) \in Nat
<1> USE DEF FirstParts
<1> DEFINE o == <<y>>  h == SubSeq(t, 1, j - 1)
<1>1. o \in Seq(GoodItems) /\ Len(o) = 1
  OBVIOUS
<1>2. Count(o) = Units(y)
  BY CountIs
<1> HIDE DEF o
<1>3. s = o \o t /\ Len(s) = Len(o) + Len(t) /\ Len(t) \in Nat
  <2>1. Len(o \o t) = Len(o) + Len(t) /\ Len(t) \in Nat
    BY <1>1, ConcatProperties, LenProperties
  <2> QED
    BY <2>1 DEF o
<1>4. j - 1 \in 0 .. Len(t) /\ Len(o) + (j - 1) = j
  BY <1>1, <1>3
<1>5. SubSeq(s, 1, j) = o \o h
  <2>1. SubSeq(o \o t, 1, Len(o) + (j - 1)) = o \o SubSeq(t, 1, j - 1)
    <3> DEFINE m == j - 1
    <3>1. m \in 0 .. Len(t)
      BY <1>4
    <3> HIDE DEF m
    <3>2. SubSeq(o \o t, 1, Len(o) + m) = o \o SubSeq(t, 1, m)
      BY <1>1, <3>1, PrefixOver
    <3> QED
      BY <3>2 DEF m
  <2> QED
    BY <1>3, <1>4, <2>1
<1>6. h \in Seq(GoodItems)
  BY <1>4, PrefixIs DEF PrefixOf
<1> HIDE DEF h
<1>7. Count(SubSeq(s, 1, j)) = Count(o) + Count(h) /\ Count(h) \in Nat
  BY <1>1, <1>5, <1>6, CountIs
<1> QED
  BY <1>1, <1>2, <1>3, <1>7 DEF h

(* Units that leave at the start of a node are no longer in front of the    *)
(* insert point; those that are still there are.                            *)
LEMMA FrontGone ==
  ASSUME NEW src, NodeOK(src), src.items # <<>>, NEW r, NodeOK(r),
         NEW it, it = src.items[1], it.kind = "tail", NEW k \in 1 .. it.len, LeftItems(r, src, it, k),
         NEW p \in PointSet, There(src, p), ~(p.item = 0 /\ p.unit = MAX_UINT32), p.item = 0 => k =< p.unit,
         NEW q \in PointSet, PointFront(q, p, it, k)
  PROVE  There(r, q) /\ k + Gap(r.items, q) = Gap(src.items, p)
<1> DEFINE s == src.items  t == r.items  N == Len(s)  j == p.item  u == p.unit
<1>1. s \in Seq(GoodItems) /\ t \in Seq(GoodItems) /\ N \in Nat /\ N > 0 /\ N = Len(s) /\ s # <<>>
  <2>1. s \in Seq(GoodItems) /\ t \in Seq(GoodItems) /\ s # <<>>
    BY DEF NodeOK
  <2> QED
    BY <2>1, EmptySeq
<1>2. j \in Nat /\ u \in Nat /\ q.item \in Nat /\ q.unit \in Nat
  BY DEF PointSet
<1>3. j =< N /\ (u # MAX_UINT32 => j < N /\ u =< Units(s[j + 1]))
  BY DEF There, Exists, Item, node40_items
<1>4. it \in GoodItems /\ it.len \in Nat /\ it.len < NodeSize /\ NodeSize < MAX_UINT32 /\ NodeSize \in Nat
      /\ Units(it) = it.len /\ MAX_UINT32 \in Nat
  <2>1. 1 \in 1 .. Len(src.items) /\ it = src.items[1]
    BY <1>1
  <2>2. it \in GoodItems /\ it.len \in Nat /\ it.len < NodeSize
    BY <2>1, ItemInside
  <2> QED
    BY <2>2, NodeConstants DEF Units, MAX_UINT32
<1>5. k \in Nat /\ k >= 1 /\ k =< it.len
  BY <1>4
<1>6. /\ Gap(s, p) = Count(SubSeq(s, 1, j)) + Inner(p) /\ Inner(p) \in Nat
      /\ j > 0 => s[j] \in GoodItems
  <2>1. j > 0 => s[j] \in GoodItems
    BY <1>1, <1>2, <1>3, ElementOfSeq
  <2> QED
    BY <1>3, <2>1, GapIs
<1>7. \A x \in Seq(GoodItems) : Count(SubSeq(x, 1, 0)) = 0
  <2>1. ASSUME NEW x \in Seq(GoodItems) PROVE SubSeq(x, 1, 0) = <<>>
    BY SubSeqEmpty
  <2> QED
    BY <2>1, CountIs
<1>8. CASE k = it.len
  <2>1. Len(t) = N - 1 /\ \A i \in 1 .. N - 1 : t[i] = s[i + 1]
    BY <1>8 DEF LeftItems, FromBehind
  <2>2. s = <<it>> \o t
    BY <1>1, <2>1, FirstApart
  <2>3. CASE j = 0
    <3>1. q.item = 0 /\ q.unit = MAX_UINT32
      BY <1>8, <2>3 DEF PointFront
    <3>2. u # MAX_UINT32 /\ u = k
      <4>1. u # MAX_UINT32 /\ k =< u
        BY <2>3
      <4>2. u =< Units(s[0 + 1])
        BY <1>3, <2>3, <4>1
      <4> QED
        BY <1>2, <1>4, <1>5, <1>8, <4>1, <4>2
    <3>3. Gap(s, p) = k
      BY <1>1, <1>2, <1>5, <1>6, <1>7, <2>3, <3>2 DEF Inner
    <3>4. There(r, q)
      <4>1. Len(t) \in Nat
        BY <1>1, <2>1
      <4> QED
        BY <3>1, <4>1 DEF There, Exists
    <3>5. Gap(t, q) = 0
      <4>1. Gap(t, q) = Count(SubSeq(t, 1, 0)) + 0
        BY <3>1, Zenon DEF Gap, Count
      <4> QED
        BY <1>1, <1>7, <4>1
    <3> QED
      BY <1>5, <3>3, <3>4, <3>5
  <2>4. CASE j # 0
    <3>1. q.item = j - 1 /\ q.unit = u
      BY <1>2, <1>8, <2>4 DEF PointFront
    <3>2. j > 0 /\ j - 1 =< N - 1
      BY <1>1, <1>2, <1>3, <2>4
    <3>3. There(r, q)
      <4>1. q.unit # MAX_UINT32 => q.item < Len(t) /\ q.unit =< Units(t[q.item + 1])
        <5> SUFFICES ASSUME u # MAX_UINT32 PROVE j - 1 < N - 1 /\ u =< Units(t[(j - 1) + 1])
          BY <2>1, <3>1
        <5>1. j < N /\ u =< Units(s[j + 1])
          BY <1>3
        <5>2. j \in 1 .. N - 1 /\ (j - 1) + 1 = j
          BY <1>1, <1>2, <3>2, <5>1
        <5>3. t[(j - 1) + 1] = s[j + 1]
          BY <2>1, <5>2
        <5> QED
          BY <1>1, <1>2, <5>1, <5>3
      <4> QED
        BY <2>1, <3>1, <3>2, <4>1 DEF There, Exists, Item, node40_items
    <3>4. Gap(t, q) = Count(SubSeq(t, 1, j - 1)) + Inner(p)
      <4>1. Gap(t, q) = Count(SubSeq(t, 1, q.item)) + Inner(q) /\ Inner(q) = Inner(p)
        BY <3>1, Zenon DEF Gap, Count, Inner
      <4> QED
        BY <3>1, <4>1
    <3>5. Count(SubSeq(s, 1, j)) = Units(it) + Count(SubSeq(t, 1, j - 1)) /\ Count(SubSeq(t, 1, j - 1)) \in Nat
      <4> DEFINE x == it
      <4>1. FirstParts(s, x, t, j)
        BY <1>1, <1>2, <1>3, <1>4, <2>2, <3>2 DEF FirstParts
      <4> HIDE DEF x, s, t, j
      <4>2. /\ Count(SubSeq(s, 1, j)) = Units(x) + Count(SubSeq(t, 1, j - 1))
            /\ Count(SubSeq(t, 1, j - 1)) \in Nat
        BY <4>1, FirstCount, SMT
      <4> QED
        BY <4>2 DEF x
    <3> DEFINE c == Count(SubSeq(t, 1, j - 1))  e == Count(SubSeq(s, 1, j))
    <3> HIDE DEF c, e
    <3>6. k + (c + Inner(p)) = e + Inner(p)
      BY <1>4, <1>5, <1>6, <1>8, <3>5 DEF c, e
    <3> QED
      BY <1>6, <3>3, <3>4, <3>6 DEF c, e
  <2> QED
    BY <2>3, <2>4
<1>9. CASE k # it.len
  <2> DEFINE y == Tail40(it.key + k, it.len - k)
  <2>1. Len(t) = N /\ t[1] = y /\ \A i \in 1 .. N : i # 1 => t[i] = s[i]
    BY <1>9, Zenon DEF LeftItems, Instead
  <2>2. Units(y) = it.len - k
    BY DEF Units, Tail40
  <2> HIDE DEF y
  <2>3. y \in GoodItems
    <3>1. 1 \in 1 .. Len(t)
      BY <1>1, <2>1
    <3>2. t[1] \in GoodItems
      BY <1>1, <3>1, ElementOfSeq
    <3> QED
      BY <2>1, <3>2
  <2>4. CASE j = 0
    <3>1. u # MAX_UINT32 /\ k =< u /\ q.item = 0 /\ q.unit = u - k
      BY <1>9, <2>4 DEF PointFront
    <3>2. u =< it.len
      <4>1. u =< Units(s[0 + 1])
        BY <1>3, <2>4, <3>1
      <4> QED
        BY <1>4, <4>1
    <3>3. q.unit # MAX_UINT32 /\ q.unit =< it.len - k
      BY <1>2, <1>4, <1>5, <3>1, <3>2
    <3>4. There(r, q)
      <4>1. Item(r, q.item) = y
        BY <2>1, <3>1 DEF Item
      <4> QED
        BY <1>1, <2>1, <2>2, <3>1, <3>3, <4>1 DEF There, Exists, node40_items
    <3>5. Gap(t, q) = u - k
      <4>1. Gap(t, q) = Count(SubSeq(t, 1, 0)) + (u - k)
        BY <3>1, <3>3, Zenon DEF Gap, Count
      <4> QED
        BY <1>1, <1>2, <1>5, <1>7, <4>1
    <3>6. Gap(s, p) = u
      BY <1>1, <1>2, <1>6, <1>7, <2>4, <3>1 DEF Inner
    <3> QED
      BY <1>2, <1>5, <3>4, <3>5, <3>6
  <2>5. CASE j # 0
    <3>1. q.item = j /\ q.unit = u
      BY <1>2, <1>9, <2>5 DEF PointFront
    <3>2. j > 0
      BY <1>2, <2>5
    <3>3. There(r, q)
      <4>1. u # MAX_UINT32 => j < Len(t) /\ u =< Units(t[j + 1])
        <5> SUFFICES ASSUME u # MAX_UINT32 PROVE j < N /\ u =< Units(t[j + 1])
          BY <2>1
        <5>1. j < N /\ u =< Units(s[j + 1])
          BY <1>3
        <5>2. j + 1 \in 1 .. N /\ j + 1 # 1
          BY <1>1, <1>2, <3>2, <5>1
        <5>3. t[j + 1] = s[j + 1]
          BY <2>1, <5>2
        <5> QED
          BY <5>1, <5>3
      <4> QED
        BY <1>3, <2>1, <3>1, <4>1 DEF There, Exists, Item, node40_items
    <3> DEFINE w == Tail(s)
    <3>4. w \in Seq(GoodItems) /\ s = <<it>> \o w /\ Len(w) = N - 1 /\ \A i \in 1 .. N - 1 : w[i] = s[i + 1]
      <4>1. s = <<s[1]>> \o Tail(s) /\ Tail(s) \in Seq(GoodItems)
        BY <1>1, ConsOf
      <4>2. Len(Tail(s)) = N - 1 /\ \A i \in 1 .. N - 1 : Tail(s)[i] = s[i + 1]
        BY <1>1, HeadTailProperties
      <4> QED
        BY <4>1, <4>2
    <3> HIDE DEF w
    <3>5. t = <<y>> \o w
      <4>1. t # <<>>
        BY <1>1, <2>1, EmptySeq
      <4>2. \A i \in 1 .. Len(t) - 1 : w[i] = t[i + 1]
        <5> SUFFICES ASSUME NEW i \in 1 .. N - 1 PROVE w[i] = t[i + 1]
          BY <2>1
        <5>1. i + 1 \in 1 .. N /\ i + 1 # 1
          BY <1>1
        <5> QED
          BY <2>1, <3>4, <5>1
      <4>3. Len(w) = Len(t) - 1
        BY <2>1, <3>4
      <4>4. t = <<t[1]>> \o w
        BY <1>1, <3>4, <4>1, <4>2, <4>3, FirstApart
      <4> QED
        BY <2>1, <4>4
    <3>6. /\ Count(SubSeq(s, 1, j)) = Units(it) + Count(SubSeq(w, 1, j - 1))
          /\ Count(SubSeq(w, 1, j - 1)) \in Nat
      <4> DEFINE x == it
      <4>1. FirstParts(s, x, w, j)
        BY <1>1, <1>2, <1>3, <1>4, <3>2, <3>4 DEF FirstParts
      <4> HIDE DEF x, s, j
      <4>2. /\ Count(SubSeq(s, 1, j)) = Units(x) + Count(SubSeq(w, 1, j - 1))
            /\ Count(SubSeq(w, 1, j - 1)) \in Nat
        BY <4>1, FirstCount, SMT
      <4> QED
        BY <4>2 DEF x
    <3>7. Count(SubSeq(t, 1, j)) = Units(y) + Count(SubSeq(w, 1, j - 1))
      <4>1. FirstParts(t, y, w, j)
        BY <1>1, <1>2, <1>3, <2>1, <2>3, <3>2, <3>4, <3>5 DEF FirstParts
      <4> HIDE DEF t, j
      <4> QED
        BY <4>1, FirstCount, SMT
    <3>8. Gap(t, q) = Count(SubSeq(t, 1, j)) + Inner(p)
      <4>1. Gap(t, q) = Count(SubSeq(t, 1, q.item)) + Inner(q) /\ Inner(q) = Inner(p)
        BY <3>1, Zenon DEF Gap, Count, Inner
      <4> QED
        BY <3>1, <4>1
    <3> DEFINE c == Count(SubSeq(w, 1, j - 1))  e == Count(SubSeq(s, 1, j))  f == Count(SubSeq(t, 1, j))
    <3> HIDE DEF c, e, f
    <3>9. k + (f + Inner(p)) = e + Inner(p)
      BY <1>4, <1>5, <1>6, <2>2, <3>6, <3>7 DEF c, e, f
    <3> QED
      BY <1>6, <3>3, <3>8, <3>9 DEF e, f
  <2> QED
    BY <2>4, <2>5
<1> QED
  BY <1>8, <1>9

\* Where the insert point p is when k units of the last tail, it, the N-th
\* item, have gone
PointBack(q, p, it, N, k) ==
  IF k = it.len
  THEN /\ q.item = IF N - 1 < p.item THEN p.item - 1 ELSE p.item
       /\ q.unit = IF N - 1 = p.item THEN MAX_UINT32 ELSE p.unit
  ELSE q.item = p.item /\ q.unit = p.unit

(* What the nodes have in common in front of the insert point counts alike. *)
LEMMA SameGap ==
  ASSUME NEW m, NodeOK(m), NEW n, NodeOK(n), NEW p \in PointSet, p.item =< Len(m.items), p.item =< Len(n.items),
         \A i \in 1 .. p.item : m.items[i] = n.items[i],
         NEW q \in PointSet, q.item = p.item, Inner(q) = Inner(p)
  PROVE  Gap(m.items, q) = Gap(n.items, p)
<1> DEFINE s == m.items  t == n.items  j == p.item
<1>1. s \in Seq(GoodItems) /\ t \in Seq(GoodItems) /\ j \in Nat /\ j =< Len(s) /\ j =< Len(t)
      /\ \A i \in 1 .. j : s[i] = t[i]
  BY DEF NodeOK, PointSet
<1>2. /\ Gap(s, q) = Count(SubSeq(s, 1, q.item)) + Inner(q)
      /\ Gap(t, p) = Count(SubSeq(t, 1, j)) + Inner(p)
  BY Zenon DEF Gap, Count, Inner
<1> HIDE DEF s, t, j
<1>3. SubSeq(s, 1, j) = SubSeq(t, 1, j)
  BY <1>1, SamePrefix
<1> QED
  BY <1>2, <1>3 DEF s, t, j

(* Units that leave at the end of a node were behind the insert point.      *)
LEMMA BackGone ==
  ASSUME NEW src, NodeOK(src), src.items # <<>>, NEW r, NodeOK(r), NEW N, N = Len(src.items),
         NEW it, it = src.items[N], it.kind = "tail", NEW k \in 1 .. it.len, RightItems(r, src, it, k),
         NEW p \in PointSet, There(src, p), ~(p.item = N /\ p.unit = MAX_UINT32),
         p.item = N - 1 /\ p.unit # MAX_UINT32 => p.unit + k =< it.len,
         NEW q \in PointSet, PointBack(q, p, it, N, k)
  PROVE  There(r, q) /\ Gap(r.items, q) = Gap(src.items, p)
<1> DEFINE s == src.items  t == r.items  j == p.item  u == p.unit
<1>1. s \in Seq(GoodItems) /\ t \in Seq(GoodItems) /\ N \in Nat /\ N > 0 /\ N = Len(s)
  <2>1. s \in Seq(GoodItems) /\ t \in Seq(GoodItems) /\ s # <<>>
    BY DEF NodeOK
  <2> QED
    BY <2>1, EmptySeq
<1>2. j \in Nat /\ u \in Nat /\ MAX_UINT32 \in Nat
  BY DEF PointSet, MAX_UINT32
<1>3. u # MAX_UINT32 => j < N /\ u =< Units(s[j + 1])
  BY DEF There, Exists, Item, node40_items
<1>4. j =< N - 1
  <2>1. j =< N /\ j # N
    BY <1>1, <1>3 DEF There
  <2> QED
    BY <1>1, <1>2, <2>1
<1>5. it.len \in Nat /\ k \in Nat /\ k >= 1
  <2>1. N \in 1 .. Len(src.items)
    BY <1>1
  <2>2. it.len \in Nat
    BY <2>1, ItemInside
  <2> QED
    BY <2>2
<1>6. Len(t) >= N - 1 /\ \A i \in 1 .. N - 1 : t[i] = s[i]
  <2>1. CASE k = it.len
    BY <1>1, <2>1 DEF RightItems, UpTo
  <2>2. CASE k # it.len
    <3>1. Len(t) = N /\ \A i \in 1 .. N : i # N => t[i] = s[i]
      BY <2>2, Zenon DEF RightItems, Instead
    <3>2. \A i \in 1 .. N - 1 : i \in 1 .. N /\ i # N
      BY <1>1
    <3> QED
      BY <1>1, <3>1, <3>2
  <2> QED
    BY <2>1, <2>2
<1>7. /\ q.item = j
      /\ q.unit = IF k = it.len /\ N - 1 = j THEN MAX_UINT32 ELSE u
  BY <1>1, <1>2, <1>4 DEF PointBack
<1>8. Inner(q) = Inner(p)
  <2>1. CASE k = it.len /\ N - 1 = j
    <3>1. u = MAX_UINT32 \/ u = 0
      BY <1>2, <1>5, <2>1
    <3> QED
      BY <1>7, <2>1, <3>1 DEF Inner
  <2>2. CASE ~(k = it.len /\ N - 1 = j)
    BY <1>7, <2>2 DEF Inner
  <2> QED
    BY <2>1, <2>2
<1>9. Gap(t, q) = Gap(s, p)
  <2>1. j =< Len(t) /\ j =< Len(s) /\ \A i \in 1 .. j : t[i] = s[i]
    <3>1. Len(t) \in Nat
      BY <1>1, LenProperties
    <3>2. \A i \in 1 .. j : i \in 1 .. N - 1
      BY <1>1, <1>2, <1>4
    <3> QED
      BY <1>1, <1>2, <1>4, <1>6, <3>1, <3>2
  <2> QED
    BY <1>7, <1>8, <2>1, SameGap
<1>10. There(r, q)
  <2>1. q.item =< Len(t)
    <3>1. Len(t) \in Nat
      BY <1>1, LenProperties
    <3> QED
      BY <1>1, <1>2, <1>4, <1>6, <1>7, <3>1
  <2>2. q.unit # MAX_UINT32 => q.item < Len(t) /\ q.unit =< Units(t[q.item + 1])
    <3> SUFFICES ASSUME q.unit # MAX_UINT32 PROVE j < Len(t) /\ u =< Units(t[j + 1])
      BY <1>7
    <3>1. u # MAX_UINT32 /\ ~(k = it.len /\ N - 1 = j)
      BY <1>7
    <3>2. CASE j = N - 1
      <4>1. k # it.len
        BY <3>1, <3>2
      <4>2. Len(t) = N /\ t[N] = Tail40(it.key, it.len - k)
        BY <4>1, Zenon DEF RightItems, Instead
      <4>3. Units(t[N]) = it.len - k
        BY <4>2 DEF Units, Tail40
      <4>4. u + k =< it.len /\ j + 1 = N
        BY <1>1, <3>1, <3>2
      <4> QED
        BY <1>1, <1>2, <1>5, <3>2, <4>2, <4>3, <4>4
    <3>3. CASE j # N - 1
      <4>1. j + 1 \in 1 .. N - 1 /\ j < N - 1
        BY <1>1, <1>2, <1>4, <3>3
      <4>2. t[j + 1] = s[j + 1] /\ Len(t) \in Nat
        BY <1>1, <1>6, <4>1, LenProperties
      <4> QED
        BY <1>1, <1>2, <1>3, <1>6, <3>1, <4>1, <4>2
    <3> QED
      BY <3>2, <3>3
  <2> QED
    BY <2>1, <2>2 DEF There, Exists, Item, node40_items
<1> QED
  BY <1>9, <1>10

\* The k items of new go from the start of src, now r, to the end of dst, now m,
\* and the insert point p is q afterwards.
FrontGoes(src, dst, r, m, new, k, p, q) ==
  /\ NodeOK(src) /\ NodeOK(dst) /\ NodeOK(r)
  /\ new \in Seq(GoodItems) /\ p \in PointSet /\ q \in PointSet
  /\ k = Len(new) /\ src.items = new \o r.items /\ m.items = dst.items \o new
  /\ There(src, p) /\ q.item + k = p.item /\ q.unit = p.unit

(* Whole items that leave at the start of a node arrive at the end of the   *)
(* one on the left: the insert point has as many units in front of it.      *)
LEMMA FrontWhole ==
  ASSUME NEW src, NEW dst, NEW r, NEW m, NEW new, NEW k, NEW p, NEW q,
         FrontGoes(src, dst, r, m, new, k, p, q)
  PROVE  There(r, q) /\ Count(m.items) + Gap(r.items, q) = Count(dst.items) + Gap(src.items, p)
<1> USE DEF FrontGoes
<1> DEFINE s == src.items  t == r.items  j == q.item  u == p.unit  N == Len(t)
<1>1. s \in Seq(GoodItems) /\ t \in Seq(GoodItems) /\ dst.items \in Seq(GoodItems) /\ j \in Nat /\ u \in Nat
  BY DEF NodeOK, PointSet
<1>2. N \in Nat /\ k \in Nat
  BY <1>1, LenProperties
<1>3. Len(s) = k + N /\ \A i \in 1 .. k + N : s[i] = IF i <= k THEN new[i] ELSE t[i - k]
  BY <1>1, ConcatProperties
<1>4. p.item = k + j /\ j =< N
  <2>1. p.item =< Len(s) /\ j + k = p.item
    BY DEF There
  <2> HIDE DEF s, N, j
  <2> QED
    BY <1>1, <1>2, <1>3, <2>1
<1>5. There(r, q)
  <2>1. u # MAX_UINT32 => p.item < Len(s) /\ u =< Units(s[p.item + 1])
    BY DEF There, Exists, Item, node40_items
  <2>2. u # MAX_UINT32 => j < N /\ u =< Units(t[j + 1])
    <3> HIDE DEF s, t, j, N, u
    <3> SUFFICES ASSUME u # MAX_UINT32 PROVE j < N /\ u =< Units(t[j + 1])
      OBVIOUS
    <3>1. j < N /\ (k + j) + 1 \in 1 .. k + N /\ ~((k + j) + 1 <= k) /\ ((k + j) + 1) - k = j + 1
      BY <1>1, <1>2, <1>3, <1>4, <2>1
    <3>2. s[(k + j) + 1] = t[j + 1]
      <4> DEFINE i == (k + j) + 1
      <4>1. i \in 1 .. k + N /\ ~(i <= k) /\ i - k = j + 1
        BY <3>1
      <4> HIDE DEF i
      <4>2. s[i] = t[i - k]
        BY <1>3, <4>1
      <4> QED
        BY <4>1, <4>2 DEF i
    <3> QED
      BY <1>4, <2>1, <3>1, <3>2
  <2> QED
    BY <1>4, <2>2 DEF There, Exists, Item, node40_items
<1> DEFINE a == SubSeq(t, 1, j)
<1>6. a \in Seq(GoodItems)
  <2>1. j \in 0 .. Len(t)
    BY <1>1, <1>2, <1>4
  <2> QED
    BY <1>1, <2>1, PrefixIs DEF PrefixOf
<1>7. SubSeq(s, 1, p.item) = new \o a
  <2>1. j \in 0 .. Len(t)
    BY <1>1, <1>2, <1>4
  <2> HIDE DEF t, j
  <2>2. SubSeq(new \o t, 1, Len(new) + j) = new \o SubSeq(t, 1, j)
    BY <1>1, <2>1, PrefixOver
  <2> QED
    BY <1>4, <2>2 DEF t, j
<1>8. /\ Gap(s, p) = Count(SubSeq(s, 1, p.item)) + Inner(p)
      /\ Gap(t, q) = Count(a) + Inner(p) /\ Inner(p) \in Nat
  <2>1. Inner(q) = Inner(p) /\ Inner(p) \in Nat
    BY <1>1 DEF Inner
  <2>2. /\ Gap(s, p) = Count(SubSeq(s, 1, p.item)) + Inner(p)
        /\ Gap(t, q) = Count(SubSeq(t, 1, q.item)) + Inner(q)
    BY Zenon DEF Gap, Count, Inner
  <2> QED
    BY <2>1, <2>2
<1> HIDE DEF a
<1>9. /\ Count(new \o a) = Count(new) + Count(a) /\ Count(dst.items \o new) = Count(dst.items) + Count(new)
      /\ Count(new) \in Nat /\ Count(a) \in Nat /\ Count(dst.items) \in Nat
  BY <1>1, <1>6, CountIs
<1> DEFINE x == Count(new)  y == Count(a)  z == Count(dst.items)  g == Gap(s, p)  h == Gap(t, q)  e == Inner(p)
<1>10. g = (x + y) + e /\ h = y + e /\ Count(m.items) = z + x /\ x \in Nat /\ y \in Nat /\ z \in Nat /\ e \in Nat
  BY <1>7, <1>8, <1>9
<1> HIDE DEF x, y, z, g, h, e
<1>11. (z + x) + h = z + g
  BY <1>10
<1>12. Count(m.items) + Gap(t, q) = Count(dst.items) + Gap(s, p)
  BY <1>10, <1>11 DEF z, g, h
<1> QED
  BY <1>5, <1>12

\* Items behind the insert point p of s, the last c of it
Spared(s, p, c) == p.item + c =< Len(s) /\ (p.unit # MAX_UINT32 => p.item + c < Len(s))

(* Whole items that leave at the end of a node were behind the insert point. *)
LEMMA BackWhole ==
  ASSUME NEW src, NodeOK(src), NEW r, NodeOK(r), NEW new \in Seq(GoodItems), src.items = r.items \o new,
         NEW p \in PointSet, There(src, p), Spared(src.items, p, Len(new))
  PROVE  There(r, p) /\ Gap(r.items, p) = Gap(src.items, p)
<1> DEFINE s == src.items  t == r.items  j == p.item  N == Len(t)  k == Len(new)
<1>1. s \in Seq(GoodItems) /\ t \in Seq(GoodItems) /\ j \in Nat /\ p.unit \in Nat
  BY DEF NodeOK, PointSet
<1>2. N \in Nat /\ k \in Nat
  BY <1>1, LenProperties
<1>3. Len(s) = N + k /\ \A i \in 1 .. N + k : s[i] = IF i <= N THEN t[i] ELSE new[i - N]
  BY <1>1, ConcatProperties
<1>4. j + k =< Len(s) /\ (p.unit # MAX_UINT32 => j + k < Len(s))
  BY DEF Spared
<1>5. j =< N /\ (p.unit # MAX_UINT32 => j < N)
  <2> HIDE DEF s, N, k, j
  <2> QED
    BY <1>1, <1>2, <1>3, <1>4
<1>6. \A i \in 1 .. N : t[i] = s[i]
  <2>1. \A i \in 1 .. N : i \in 1 .. N + k /\ i <= N
    BY <1>2
  <2> QED
    BY <1>3, <2>1
<1>7. There(r, p)
  <2>1. p.unit # MAX_UINT32 => p.unit =< Units(s[j + 1])
    BY DEF There, Exists, Item, node40_items
  <2>2. p.unit # MAX_UINT32 => j + 1 \in 1 .. N
    BY <1>1, <1>2, <1>5
  <2>3. p.unit # MAX_UINT32 => p.unit =< Units(t[j + 1])
    BY <1>6, <2>1, <2>2
  <2> QED
    BY <1>5, <2>3 DEF There, Exists, Item, node40_items
<1>8. j =< Len(t) /\ j =< Len(s) /\ \A i \in 1 .. j : t[i] = s[i]
  <2>1. j =< Len(s)
    BY DEF There
  <2>2. \A i \in 1 .. j : i \in 1 .. N
    BY <1>1, <1>2, <1>5
  <2> QED
    BY <1>5, <1>6, <2>1, <2>2
<1>9. Gap(t, p) = Gap(s, p)
  BY <1>8, SameGap
<1> QED
  BY <1>7, <1>9

-----------------------------------------------------------------------------
(* What goes over, unit by unit *)

\* What two neighbours hold, unit by unit, when src is shifted to the side l
Held(src, dst, l) == Flat(IF l THEN dst.items \o src.items ELSE src.items \o dst.items)

\* The first k units of the tail it, and the last
FrontOf(it, k) == UnitKeys(Tail40(it.key, k))
BackOf(it, k)  == UnitKeys(Tail40(it.key + (it.len - k), k))

\* m is what n was before it gave, or took, such units.
GaveFirst(m, n, it, k) == Flat(n.items) = FrontOf(it, k) \o Flat(m.items)
GaveLast(m, n, it, k)  == Flat(n.items) = Flat(m.items) \o BackOf(it, k)
TookLast(m, n, it, k)  == Flat(m.items) = Flat(n.items) \o FrontOf(it, k)
TookFirst(m, n, it, k) == Flat(m.items) = BackOf(it, k) \o Flat(n.items)

(* The two ends of a tail are sequences of units, and make the tail.         *)
LEMMA TailEnds ==
  ASSUME NEW it \in GoodItems, it.kind = "tail", NEW k \in 1 .. it.len
  PROVE  /\ FrontOf(it, k) \in Seq(UnitSet) /\ BackOf(it, k) \in Seq(UnitSet)
         /\ k = it.len => FrontOf(it, k) = UnitKeys(it) /\ BackOf(it, k) = UnitKeys(it)
         /\ k < it.len => /\ UnitKeys(it) = FrontOf(it, k) \o UnitKeys(Tail40(it.key + k, it.len - k))
                          /\ UnitKeys(it) = UnitKeys(Tail40(it.key, it.len - k)) \o BackOf(it, k)
                          /\ Tail40(it.key + k, it.len - k) \in GoodItems
                          /\ Tail40(it.key, it.len - k) \in GoodItems
<1> DEFINE a == it.key  b == it.len
<1>1. a \in Nat /\ b \in Nat /\ k \in Nat /\ k > 0 /\ k =< b
  BY ItemFacts
<1>2. it = Tail40(a, b)
  BY TailAgain
<1>3. \A c \in 1 .. b : \A j \in 0 .. b - c : Tail40(a + j, c) \in GoodItems
  BY Part
<1> HIDE DEF a, b
<1>4. /\ 0 \in 0 .. b - k /\ b - k \in 0 .. b - k /\ k \in 1 .. b /\ a + 0 = a /\ a + (b - k) \in Nat
      /\ b - k \in Nat
  BY <1>1
<1>5. Tail40(a, k) \in GoodItems /\ Tail40(a + (b - k), k) \in GoodItems
  BY <1>3, <1>4
<1>6. FrontOf(it, k) = UnitKeys(Tail40(a, k)) /\ BackOf(it, k) = UnitKeys(Tail40(a + (b - k), k))
  BY DEF FrontOf, BackOf, a, b
<1>7. FrontOf(it, k) \in Seq(UnitSet) /\ BackOf(it, k) \in Seq(UnitSet)
  BY <1>5, <1>6, UnitsOf
<1>8. ASSUME k = b PROVE FrontOf(it, k) = UnitKeys(it) /\ BackOf(it, k) = UnitKeys(it)
  <2>1. a + (b - k) = a
    BY <1>1, <1>8
  <2> QED
    BY <1>2, <1>6, <1>8, <2>1
<1>9. ASSUME k < b
      PROVE  /\ UnitKeys(it) = FrontOf(it, k) \o UnitKeys(Tail40(a + k, b - k))
             /\ UnitKeys(it) = UnitKeys(Tail40(a, b - k)) \o BackOf(it, k)
             /\ Tail40(a + k, b - k) \in GoodItems
             /\ Tail40(a, b - k) \in GoodItems
  <2>1. b - k \in 1 .. b /\ k \in 0 .. b - (b - k) /\ 0 \in 0 .. b - (b - k) /\ k + (b - k) = b /\ (b - k) + k = b
    BY <1>1, <1>9
  <2>2. Tail40(a + k, b - k) \in GoodItems /\ Tail40(a, b - k) \in GoodItems
    BY <1>3, <1>4, <2>1
  <2>3. Splits(a, k, b - k) /\ Splits(a, b - k, k)
    BY <1>1, <1>4, UnitsSplit
  <2>4. /\ UnitKeys(Tail40(a, k + (b - k))) = UnitKeys(Tail40(a, k)) \o UnitKeys(Tail40(a + k, b - k))
        /\ UnitKeys(Tail40(a, (b - k) + k)) = UnitKeys(Tail40(a, b - k)) \o UnitKeys(Tail40(a + (b - k), k))
    BY <2>3, Zenon DEF Splits
  <2> QED
    BY <1>2, <1>6, <2>1, <2>2, <2>4
<1> QED
  BY <1>7, <1>8, <1>9 DEF a, b

(* The first units of a node go.                                            *)
LEMMA FirstGiven ==
  ASSUME NEW n, NodeOK(n), NEW m, NodeOK(m), n.items # <<>>, NEW it, it = n.items[1], it.kind = "tail",
         NEW k \in 1 .. it.len, LeftItems(m, n, it, k)
  PROVE  GaveFirst(m, n, it, k)
<1> DEFINE z == Tail40(it.key + k, it.len - k)
<1>1. it \in GoodItems /\ it.len \in Nat
  <2>1. n.items[1] \in GoodItems
    BY UnitsFirst
  <2> QED
    BY <2>1, ItemFacts
<1>2. CASE k = it.len
  <2>1. FromBehind(m, n, 1)
    BY <1>2 DEF LeftItems
  <2>2. Flat(n.items) = UnitKeys(n.items[1]) \o Flat(m.items)
    BY <2>1, UnitsFirst
  <2>3. FrontOf(it, k) = UnitKeys(it)
    BY <1>1, <1>2, TailEnds
  <2> QED
    BY <2>2, <2>3 DEF GaveFirst
<1>3. CASE k # it.len
  <2>1. k < it.len /\ Instead(m, n, 1, z)
    BY <1>1, <1>3 DEF LeftItems
  <2>2. FrontOf(it, k) \in Seq(UnitSet) /\ UnitKeys(it) = FrontOf(it, k) \o UnitKeys(z) /\ z \in GoodItems
    BY <1>1, <2>1, TailEnds
  <2> HIDE DEF z
  <2>3. PICK b \in Seq(UnitSet) : Flat(n.items) = UnitKeys(it) \o b /\ Flat(m.items) = UnitKeys(z) \o b
    <3>1. FirstOther(m, n, z)
      BY <2>1, <2>2, UnitsFirst
    <3> QED
      BY <3>1 DEF FirstOther
  <2>4. SeqsAssociate(UnitSet) /\ UnitKeys(z) \in Seq(UnitSet)
    BY <2>2, SeqsJoin, UnitsOf
  <2>5. (FrontOf(it, k) \o UnitKeys(z)) \o b = FrontOf(it, k) \o (UnitKeys(z) \o b)
    BY <2>2, <2>4, Zenon DEF SeqsAssociate
  <2> QED
    BY <2>2, <2>3, <2>5 DEF GaveFirst
<1> QED
  BY <1>2, <1>3

(* The last units of a node go.                                             *)
LEMMA LastGiven ==
  ASSUME NEW n, NodeOK(n), NEW m, NodeOK(m), n.items # <<>>, NEW it, it = n.items[Len(n.items)],
         it.kind = "tail", NEW k \in 1 .. it.len, RightItems(m, n, it, k)
  PROVE  GaveLast(m, n, it, k)
<1> DEFINE z == Tail40(it.key, it.len - k)  N == Len(n.items)
<1>1. it \in GoodItems /\ it.len \in Nat
  <2>1. n.items[Len(n.items)] \in GoodItems
    BY UnitsLast
  <2> QED
    BY <2>1, ItemFacts
<1>0. /\ UpTo(m, n, N - 1) => Flat(n.items) = Flat(m.items) \o UnitKeys(n.items[N])
      /\ \A y \in GoodItems : Instead(m, n, N, y) => LastOther(m, n, y)
  <2>1. N = Len(n.items)
    OBVIOUS
  <2> HIDE DEF N
  <2> QED
    BY <2>1, UnitsLast
<1>2. CASE k = it.len
  <2>1. UpTo(m, n, N - 1)
    BY <1>2 DEF RightItems
  <2>2. Flat(n.items) = Flat(m.items) \o UnitKeys(n.items[N])
    BY <1>0, <2>1
  <2>3. BackOf(it, k) = UnitKeys(it)
    BY <1>1, <1>2, TailEnds
  <2> QED
    BY <2>2, <2>3 DEF GaveLast
<1>3. CASE k # it.len
  <2>1. k < it.len /\ Instead(m, n, N, z)
    BY <1>1, <1>3 DEF RightItems
  <2>2. BackOf(it, k) \in Seq(UnitSet) /\ UnitKeys(it) = UnitKeys(z) \o BackOf(it, k) /\ z \in GoodItems
    BY <1>1, <2>1, TailEnds
  <2> HIDE DEF z
  <2>3. PICK b \in Seq(UnitSet) : Flat(n.items) = b \o UnitKeys(it) /\ Flat(m.items) = b \o UnitKeys(z)
    <3>1. LastOther(m, n, z)
      BY <1>0, <2>1, <2>2
    <3> QED
      BY <3>1 DEF LastOther
  <2>4. SeqsAssociate(UnitSet) /\ UnitKeys(z) \in Seq(UnitSet)
    BY <2>2, SeqsJoin, UnitsOf
  <2>5. (b \o UnitKeys(z)) \o BackOf(it, k) = b \o (UnitKeys(z) \o BackOf(it, k))
    BY <2>2, <2>4, Zenon DEF SeqsAssociate
  <2> QED
    BY <2>2, <2>3, <2>5 DEF GaveLast
<1> QED
  BY <1>2, <1>3

(* Units that go to the last tail of a node.                                 *)
LEMMA LastWidened ==
  ASSUME NEW n, NodeOK(n), NEW m, NodeOK(m), n.items # <<>>, NEW N, N = Len(n.items),
         NEW a, a = n.items[N], a.kind = "tail", NEW k \in Nat, NEW y \in GoodItems, y = Tail40(a.key, a.len + k),
         Instead(m, n, N, y), NEW it \in GoodItems, it.kind = "tail", k \in 1 .. it.len, a.key + a.len = it.key
  PROVE  TookLast(m, n, it, k)
<1>1. LastOther(m, n, y)
  BY UnitsLast
<1>2. n.items[N] \in GoodItems
  BY UnitsLast
<1>3. a \in GoodItems /\ a.key \in Nat /\ a.len \in Nat
  BY <1>2, ItemFacts
<1>4. PICK c \in Seq(UnitSet) : Flat(n.items) = c \o UnitKeys(a) /\ Flat(m.items) = c \o UnitKeys(y)
  BY <1>1 DEF LastOther
<1>5. UnitKeys(y) = UnitKeys(a) \o FrontOf(it, k)
  <2>1. UnitKeys(Tail40(a.key, a.len + k)) = UnitKeys(Tail40(a.key, a.len)) \o UnitKeys(Tail40(a.key + a.len, k))
    <3>1. Splits(a.key, a.len, k)
      BY <1>3, UnitsSplit
    <3> QED
      BY <3>1, Zenon DEF Splits
  <2>2. a = Tail40(a.key, a.len)
    BY <1>3, TailAgain
  <2> QED
    BY <2>1, <2>2, Zenon DEF FrontOf
<1>6. SeqsAssociate(UnitSet) /\ UnitKeys(a) \in Seq(UnitSet) /\ FrontOf(it, k) \in Seq(UnitSet)
  BY <1>3, SeqsJoin, UnitsOf, TailEnds
<1> QED
  <2>1. (c \o UnitKeys(a)) \o FrontOf(it, k) = c \o (UnitKeys(a) \o FrontOf(it, k))
    BY <1>6, Zenon DEF SeqsAssociate
  <2> QED
    BY <1>4, <1>5, <2>1 DEF TookLast

(* Units that go to the first tail of a node.                                *)
LEMMA FirstWidened ==
  ASSUME NEW n, NodeOK(n), NEW m, NodeOK(m), n.items # <<>>,
         NEW a, a = n.items[1], a.kind = "tail", NEW k \in Nat, NEW y \in GoodItems, y = Tail40(a.key - k, a.len + k),
         Instead(m, n, 1, y), NEW it \in GoodItems, it.kind = "tail", k \in 1 .. it.len,
         a.key - k = it.key + (it.len - k)
  PROVE  TookFirst(m, n, it, k)
<1>1. FirstOther(m, n, y)
  BY UnitsFirst
<1>2. n.items[1] \in GoodItems
  BY UnitsFirst
<1>3. a \in GoodItems /\ a.key \in Nat /\ a.len \in Nat /\ y.key \in Nat
  BY <1>2, ItemFacts
<1>4. PICK c \in Seq(UnitSet) : Flat(n.items) = UnitKeys(a) \o c /\ Flat(m.items) = UnitKeys(y) \o c
  BY <1>1 DEF FirstOther
<1>5. UnitKeys(y) = BackOf(it, k) \o UnitKeys(a)
  <2> DEFINE p == a.key - k
  <2>1. p \in Nat /\ p + k = a.key /\ k + a.len = a.len + k
    <3>1. y.key = p
      BY DEF Tail40
    <3> QED
      BY <1>3, <3>1
  <2>2. a = Tail40(a.key, a.len)
    BY <1>3, TailAgain
  <2>3. y = Tail40(p, k + a.len) /\ BackOf(it, k) = UnitKeys(Tail40(p, k))
    BY <2>1 DEF BackOf
  <2> HIDE DEF p
  <2>4. UnitKeys(Tail40(p, k + a.len)) = UnitKeys(Tail40(p, k)) \o UnitKeys(Tail40(p + k, a.len))
    <3>1. Splits(p, k, a.len)
      BY <1>3, <2>1, UnitsSplit
    <3> QED
      BY <3>1, Zenon DEF Splits
  <2> QED
    BY <2>1, <2>2, <2>3, <2>4, Zenon
<1>6. SeqsAssociate(UnitSet) /\ UnitKeys(a) \in Seq(UnitSet) /\ BackOf(it, k) \in Seq(UnitSet)
  BY <1>3, SeqsJoin, UnitsOf, TailEnds
<1> QED
  <2>1. (BackOf(it, k) \o UnitKeys(a)) \o c = BackOf(it, k) \o (UnitKeys(a) \o c)
    BY <1>6, Zenon DEF SeqsAssociate
  <2> QED
    BY <1>4, <1>5, <2>1 DEF TookFirst

-----------------------------------------------------------------------------
(* Where the units land *)

\* m is n with k units, and perhaps an item header, more, and the tail y at
\* the border on the given side
Grown(m, n, k, create, y) ==
  /\ NodeOK(m) /\ m.items # <<>> /\ Len(m.items) > 0 /\ m.items \in Seq(GoodItems)
  /\ y \in GoodItems /\ y.kind = "tail"
  /\ ~create => m.free = n.free - k

\* Where k units of the tail it may go, at the end of n or at its start
RoomLast(n, N, it, k, create) ==
  IF create THEN k + IhSize =< n.free /\ (N > 0 => Tight(n.items[N], it))
  ELSE k =< n.free /\ N > 0 /\ reiser4_item_mergeable(n.items[N], it)

RoomFirst(n, N, it, k, create) ==
  IF create THEN k + IhSize =< n.free /\ (N > 0 => Tight(it, n.items[1]))
  ELSE k =< n.free /\ N > 0 /\ reiser4_item_mergeable(it, n.items[1])

(* One new tail of k units arrives.                                          *)
LEMMA OneArrives ==
  ASSUME NEW n, NodeOK(n), NEW y \in GoodItems, y.len + IhSize =< n.free
  PROVE  Arrives(n, <<y>>) /\ SumLen(<<y>>) = y.len /\ Len(<<y>>) = 1 /\ <<y>>[1] = y
<1>1. y \in ItemSet
  BY ItemFacts
<1>2. <<y>> \in Seq(GoodItems) /\ <<y>> # <<>>
  OBVIOUS
<1>3. Weight(<<y>>) =< n.free
  BY <1>1, WeightOne
<1> QED
  BY <1>1, <1>2, <1>3, NeatOne, SumOne DEF Arrives

\* How they land there, and what is at the border then
LandLast(n, N, it, k, create) ==
  IF create THEN node40_expand(n, Pos(N, MAX_UINT32), k, <<Tail40(it.key, k)>>)
  ELSE node40_expand(n, Pos(N - 1, 0), k, <<>>)

EndsIn(m, n, it, k, create) ==
  /\ \E y : Grown(m, n, k, create, y) /\ m.items[Len(m.items)] = y /\ LastKey(y) = (it.key + k) - 1
  /\ TookLast(m, n, it, k)

LandFirst(n, it, k, create) ==
  LET grown == node40_expand(n, Pos(0, 0), k, <<>>)
  IN  IF create THEN node40_expand(n, Pos(0, MAX_UINT32), k, <<Tail40(it.key + (it.len - k), k)>>)
      ELSE node40_set_key(grown, 0, Item(grown, 0).key - k)

StartsIn(m, n, it, k, create) ==
  /\ \E y : Grown(m, n, k, create, y) /\ m.items[1] = y /\ y.key = it.key + (it.len - k)
  /\ TookFirst(m, n, it, k)

(* The first k units of the tail it arrive at the end of a node.            *)
LEMMA ArrivesLast ==
  ASSUME NEW n, NodeOK(n), NEW N, N = Len(n.items),
         NEW it \in GoodItems, it.kind = "tail", NEW k \in 1 .. it.len,
         NEW create \in BOOLEAN, RoomLast(n, N, it, k, create)
  PROVE  EndsIn(LandLast(n, N, it, k, create), n, it, k, create)
<1> SUFFICES LET m == IF create THEN node40_expand(n, Pos(N, MAX_UINT32), k, <<Tail40(it.key, k)>>)
                      ELSE node40_expand(n, Pos(N - 1, 0), k, <<>>)
             IN  /\ \E y : Grown(m, n, k, create, y) /\ m.items[Len(m.items)] = y /\ LastKey(y) = (it.key + k) - 1
                 /\ TookLast(m, n, it, k)
  BY Zenon DEF EndsIn, LandLast
<1>0. n.items \in Seq(GoodItems) /\ N \in Nat
  BY DEF NodeOK
<1>1. it.key \in Nat /\ it.len \in Nat /\ k \in Nat /\ k > 0 /\ IhSize \in Nat
  BY ItemFacts, NodeConstants
<1>2. CASE create
  <2> DEFINE y == Tail40(it.key, k)  m == node40_expand(n, Pos(N, MAX_UINT32), k, <<y>>)
  <2>1. y \in GoodItems /\ LastKey(y) = (it.key + k) - 1
    <3>1. 0 \in 0 .. it.len - k /\ it.key + 0 = it.key
      BY <1>1
    <3>2. /\ Tail40(it.key + 0, k) \in GoodItems
          /\ LastKey(Tail40(it.key + 0, k)) = ((it.key + 0) + k) - 1
      BY <3>1, Part
    <3> QED
      BY <3>1, <3>2
  <2>2. y.len = k /\ y.kind = "tail" /\ y.key = it.key
    BY DEF Tail40
  <2> HIDE DEF y
  <2>3. Arrives(n, <<y>>) /\ SumLen(<<y>>) = k /\ Len(<<y>>) = 1 /\ <<y>>[1] = y
    <3>1. y.len + IhSize =< n.free
      BY <1>2, <2>2 DEF RoomLast
    <3> QED
      BY <2>1, <2>2, <3>1, OneArrives
  <2>4. Joint(n.items, <<y>>)
    <3> SUFFICES ASSUME n.items # <<>> PROVE Tight(n.items[N], y)
      BY <2>3 DEF Joint
    <3>1. N > 0
      BY <1>0, EmptySeq
    <3>2. Tight(n.items[N], it) /\ n.items[N] \in GoodItems
      BY <1>0, <1>2, <3>1, ElementOfSeq DEF RoomLast
    <3> QED
      BY <2>1, <2>2, <3>2, TightByKeys
  <2>5. /\ NodeOK(m) /\ m.items \in Seq(GoodItems) /\ Len(m.items) > 0 /\ m.items # <<>>
        /\ m.items[Len(m.items)] = <<y>>[Len(<<y>>)]
        /\ m.items = n.items \o <<y>>
    <3> DEFINE new == <<y>>
    <3>1. Arrives(n, new) /\ Joint(n.items, new) /\ SumLen(new) = k
      BY <2>3, <2>4
    <3>2. m = node40_expand(n, Pos(Len(n.items), MAX_UINT32), SumLen(new), new)
      BY <3>1
    <3> HIDE DEF new, m
    <3>3. AtEnd(m, n, new)
      BY <3>1, <3>2, Appended
    <3>4. NodeOK(m) /\ m.items \in Seq(GoodItems) /\ Len(m.items) > 0 /\ m.items # <<>>
      BY <3>3, Zenon DEF AtEnd, Received
    <3>5. m.items[Len(m.items)] = new[Len(new)] /\ m.items = n.items \o new
      BY <3>3, Zenon DEF AtEnd
    <3> QED
      BY <3>4, <3>5 DEF new
  <2>6. m.items[Len(m.items)] = y
    BY <2>3, <2>5
  <2> HIDE DEF m
  <2>7. Grown(m, n, k, create, y)
    BY <1>2, <2>1, <2>2, <2>5 DEF Grown
  <2>8. TookLast(m, n, it, k)
    <3>1. Flat(n.items \o <<y>>) = Flat(n.items) \o UnitKeys(y)
      <4>1. <<y>> \in Seq(GoodItems)
        BY <2>1
      <4> QED
        BY <1>0, <2>1, <4>1, UnitsTogether, Zenon DEF UnitsAddUp
    <3>2. UnitKeys(y) = FrontOf(it, k)
      BY DEF FrontOf, y
    <3> QED
      BY <2>5, <3>1, <3>2 DEF TookLast
  <2> QED
    BY <1>2, <2>1, <2>6, <2>7, <2>8 DEF m, y
<1>3. CASE ~create
  <2> DEFINE a == n.items[N]  y == Tail40(a.key, a.len + k)  m == node40_expand(n, Pos(N - 1, 0), k, <<>>)
  <2>1. k =< n.free /\ N > 0 /\ reiser4_item_mergeable(a, it) /\ a \in GoodItems
    <3>1. k =< n.free /\ N > 0 /\ reiser4_item_mergeable(a, it)
      BY <1>3 DEF RoomLast
    <3> QED
      BY <1>0, <3>1, ElementOfSeq
  <2> DEFINE L == LastKey(a)  F == First(a.key)  ak == a.key  al == a.len  p == it.key  q == it.len
  <2>2. a.kind = "tail" /\ L + 1 = p /\ F = First(p)
    BY <2>1, Joins
  <2>3. /\ L \in Nat /\ p \in Nat /\ q \in Nat /\ (p + q) - 1 < F + KeySpan /\ KeySpan \in Nat
        /\ L = (ak + al) - 1 /\ ak \in Nat /\ al \in Nat /\ F \in Nat
    BY <2>1, <2>2, ItemFacts, FirstFacts, NodeConstants
  <2>4. 0 \in Nat /\ 0 # MAX_UINT32
    BY SMT DEF MAX_UINT32
  <2>5. y.kind = "tail" /\ y.key = ak /\ y.len = al + k
    BY DEF Tail40
  <2> HIDE DEF L, F, p, q, ak, al
  <2>6. L + k < F + KeySpan
    <3>1. k =< q /\ k \in Nat
      BY <1>1 DEF q
    <3> QED
      BY <2>2, <2>3, <3>1
  <2>7. NodeOK(m) /\ m.free = n.free - k /\ Instead(m, n, N, y) /\ y \in GoodItems
    <3>1. a = n.items[N] /\ a.kind = "tail" /\ LastKey(a) + k < First(a.key) + KeySpan /\ k \in Nat /\ k > 0
      BY <1>1, <2>2, <2>6 DEF L, F
    <3> HIDE DEF a
    <3> QED
      <4>1. ASSUME NEW u \in Nat, u # MAX_UINT32, NEW new
            PROVE  Widened(node40_expand(n, Pos(N - 1, u), k, new), n, N, a, k)
        BY <1>0, <2>1, <3>1, <4>1, TakeLast
      <4>2. Widened(m, n, N, a, k)
        BY <2>4, <4>1, Zenon
      <4> QED
        BY <4>2, Zenon DEF Widened
  <2> HIDE DEF y, m
  <2>8. LastKey(y) = (it.key + k) - 1
    <3>1. LastKey(y) = (ak + (al + k)) - 1
      BY <2>5, <2>7, ItemFacts
    <3>2. (ak + (al + k)) - 1 = (p + k) - 1
      <4>1. k \in Nat
        BY <1>1
      <4>2. p = ak + al
        BY <2>2, <2>3
      <4> QED
        BY <2>3, <4>1, <4>2
    <3> QED
      BY <3>1, <3>2 DEF p
  <2>9. m.items[Len(m.items)] = y /\ Len(m.items) > 0
    BY <2>1, <2>7 DEF Instead
  <2>10. m.items \in Seq(GoodItems) /\ m.items # <<>>
    <3>1. m.items \in Seq(GoodItems)
      BY <2>7 DEF NodeOK
    <3> QED
      BY <2>9, <3>1, EmptySeq
  <2>11. Grown(m, n, k, create, y)
    BY <2>5, <2>7, <2>9, <2>10 DEF Grown
  <2>12. TookLast(m, n, it, k)
    <3>1. a.key + a.len = it.key
      <4>1. ak + al = p
        BY <2>2, <2>3
      <4> HIDE DEF a
      <4> QED
        BY <4>1 DEF ak, al, p
    <3>2. a = n.items[N] /\ a.kind = "tail" /\ y = Tail40(a.key, a.len + k) /\ k \in Nat /\ n.items # <<>>
      BY <1>0, <1>1, <2>1, <2>2, EmptySeq DEF y, ak, al
    <3> HIDE DEF a
    <3> QED
      BY <2>7, <3>1, <3>2, LastWidened
  <2> QED
    BY <1>3, <2>8, <2>9, <2>11, <2>12 DEF m
<1> QED
  BY <1>2, <1>3

(* The last k units of the tail it arrive at the start of a node.           *)
LEMMA ArrivesFirst ==
  ASSUME NEW n, NodeOK(n), NEW N, N = Len(n.items),
         NEW it \in GoodItems, it.kind = "tail", NEW k \in 1 .. it.len,
         NEW create \in BOOLEAN, RoomFirst(n, N, it, k, create)
  PROVE  StartsIn(LandFirst(n, it, k, create), n, it, k, create)
<1> SUFFICES LET grown == node40_expand(n, Pos(0, 0), k, <<>>)
                 m == IF create THEN node40_expand(n, Pos(0, MAX_UINT32), k, <<Tail40(it.key + (it.len - k), k)>>)
                      ELSE node40_set_key(grown, 0, Item(grown, 0).key - k)
             IN  /\ \E y : Grown(m, n, k, create, y) /\ m.items[1] = y /\ y.key = it.key + (it.len - k)
                 /\ TookFirst(m, n, it, k)
  BY Zenon DEF StartsIn, LandFirst
<1>0. n.items \in Seq(GoodItems) /\ N \in Nat
  BY DEF NodeOK
<1>1. it.key \in Nat /\ it.len \in Nat /\ k \in Nat /\ k > 0 /\ IhSize \in Nat
  BY ItemFacts, NodeConstants
<1>2. CASE create
  <2> DEFINE y == Tail40(it.key + (it.len - k), k)  m == node40_expand(n, Pos(0, MAX_UINT32), k, <<y>>)
  <2>1. y \in GoodItems /\ LastKey(y) = LastKey(it)
    <3> DEFINE a == it.key  b == it.len
    <3>1. a \in Nat /\ b \in Nat /\ k \in 1 .. b /\ LastKey(it) = (a + b) - 1
      BY <1>1, ItemFacts
    <3>2. \A j \in 0 .. b - k : Tail40(a + j, k) \in GoodItems /\ LastKey(Tail40(a + j, k)) = ((a + j) + k) - 1
      BY Part
    <3> HIDE DEF a, b
    <3>3. b - k \in 0 .. b - k /\ ((a + (b - k)) + k) - 1 = (a + b) - 1
      BY <3>1
    <3>4. Tail40(a + (b - k), k) \in GoodItems /\ LastKey(Tail40(a + (b - k), k)) = (a + b) - 1
      BY <3>2, <3>3
    <3> QED
      BY <3>1, <3>4 DEF a, b
  <2>2. y.len = k /\ y.kind = "tail" /\ y.key = it.key + (it.len - k)
    BY DEF Tail40
  <2> HIDE DEF y
  <2>3. Arrives(n, <<y>>) /\ SumLen(<<y>>) = k /\ Len(<<y>>) = 1 /\ <<y>>[1] = y
    <3>1. y.len + IhSize =< n.free
      BY <1>2, <2>2 DEF RoomFirst
    <3> QED
      BY <2>1, <2>2, <3>1, OneArrives
  <2>4. Joint(<<y>>, n.items)
    <3> SUFFICES ASSUME n.items # <<>> PROVE Tight(y, n.items[1])
      BY <2>3 DEF Joint
    <3>1. N > 0
      BY <1>0, EmptySeq
    <3>2. Tight(it, n.items[1]) /\ n.items[1] \in GoodItems
      BY <1>0, <1>2, <3>1, ElementOfSeq DEF RoomFirst
    <3> QED
      BY <2>1, <2>2, <3>2, TightByKeys
  <2>5. /\ NodeOK(m) /\ m.items \in Seq(GoodItems) /\ Len(m.items) > 0 /\ m.items # <<>>
        /\ m.items[1] = <<y>>[1]
        /\ m.items = <<y>> \o n.items
    <3> DEFINE new == <<y>>
    <3>1. Arrives(n, new) /\ Joint(new, n.items) /\ SumLen(new) = k
      BY <2>3, <2>4
    <3>2. m = node40_expand(n, Pos(0, MAX_UINT32), SumLen(new), new)
      BY <3>1
    <3> HIDE DEF new, m
    <3>3. AtStart(m, n, new)
      BY <3>1, <3>2, Prepended
    <3>4. NodeOK(m) /\ m.items \in Seq(GoodItems) /\ Len(m.items) > 0 /\ m.items # <<>>
      BY <3>3, Zenon DEF AtStart, Received
    <3>5. m.items[1] = new[1] /\ m.items = new \o n.items
      BY <3>3, Zenon DEF AtStart
    <3> QED
      BY <3>4, <3>5 DEF new
  <2>6. m.items[1] = y
    BY <2>3, <2>5
  <2> HIDE DEF m
  <2>7. Grown(m, n, k, create, y)
    BY <1>2, <2>1, <2>2, <2>5 DEF Grown
  <2>8. TookFirst(m, n, it, k)
    <3>1. Flat(<<y>> \o n.items) = UnitKeys(y) \o Flat(n.items)
      <4>1. <<y>> \in Seq(GoodItems)
        BY <2>1
      <4> QED
        BY <1>0, <2>1, <4>1, UnitsTogether, Zenon DEF UnitsAddUp
    <3>2. UnitKeys(y) = BackOf(it, k)
      BY DEF BackOf, y
    <3> QED
      BY <2>5, <3>1, <3>2 DEF TookFirst
  <2> QED
    BY <1>2, <2>2, <2>6, <2>7, <2>8 DEF m, y
<1>3. CASE ~create
  <2> DEFINE b == n.items[1]  y == Tail40(b.key - k, b.len + k)
             grown == node40_expand(n, Pos(0, 0), k, <<>>)
             m == node40_set_key(grown, 0, Item(grown, 0).key - k)
  <2>1. k =< n.free /\ N > 0 /\ reiser4_item_mergeable(it, b) /\ b \in GoodItems
    <3>1. k =< n.free /\ N > 0 /\ reiser4_item_mergeable(it, b)
      BY <1>3 DEF RoomFirst
    <3> QED
      BY <1>0, <3>1, ElementOfSeq
  <2> DEFINE F == First(it.key)  bk == b.key  bl == b.len  p == it.key  q == it.len
  <2>2. b.kind = "tail" /\ LastKey(it) + 1 = bk /\ F = First(bk)
    BY <2>1, Joins
  <2>3. /\ p \in Nat /\ q \in Nat /\ LastKey(it) = (p + q) - 1 /\ F < p /\ bk \in Nat /\ bl \in Nat /\ F \in Nat
        /\ k =< q /\ k \in Nat
    <3>1. bk \in Nat /\ bl \in Nat
      <4> HIDE DEF b
      <4> QED
        BY <2>1, ItemFacts
    <3>2. p \in Nat /\ q \in Nat /\ LastKey(it) = (p + q) - 1 /\ F < p /\ k =< q /\ k \in Nat
      BY <1>1, ItemFacts
    <3>3. F \in Nat
      BY <3>2, FirstFacts
    <3> QED
      BY <3>1, <3>2, <3>3, Zenon
  <2>5. y.kind = "tail" /\ y.key = bk - k /\ y.len = bl + k
    BY DEF Tail40
  <2> HIDE DEF F, p, q, bk, bl
  <2>6. bk = p + q /\ F + k < bk /\ bk - k = p + (q - k)
    <3>1. bk = p + q
      BY <2>2, <2>3
    <3> QED
      BY <2>3, <3>1
  <2>7. NodeOK(m) /\ m.free = n.free - k /\ Instead(m, n, 1, y) /\ y \in GoodItems
    <3>1. b = n.items[1] /\ b.kind = "tail" /\ First(b.key) + k < b.key /\ k \in Nat /\ k > 0
      BY <1>1, <2>2, <2>6 DEF F, bk
    <3> HIDE DEF b
    <3>2. ASSUME NEW new
          PROVE  LET gn == node40_expand(n, Pos(0, 0), k, new)
                     g == node40_set_key(gn, 0, Item(gn, 0).key - k)
                 IN  /\ NodeOK(g) /\ g.free = n.free - k /\ Instead(g, n, 1, y) /\ y \in GoodItems
      BY <1>0, <2>1, <3>1, TakeFirst
    <3> QED
      BY <3>2, Zenon
  <2> HIDE DEF y, m, grown
  <2>9. m.items[1] = y /\ Len(m.items) > 0
    BY <2>1, <2>7 DEF Instead
  <2>10. m.items \in Seq(GoodItems) /\ m.items # <<>>
    <3>1. m.items \in Seq(GoodItems)
      BY <2>7 DEF NodeOK
    <3> QED
      BY <2>9, <3>1, EmptySeq
  <2>11. Grown(m, n, k, create, y)
    BY <2>5, <2>7, <2>9, <2>10 DEF Grown
  <2>12. y.key = it.key + (it.len - k)
    BY <2>5, <2>6, Zenon DEF p, q
  <2>13. TookFirst(m, n, it, k)
    <3>1. b.key - k = it.key + (it.len - k)
      BY <2>6 DEF bk, p, q
    <3>2. b = n.items[1] /\ b.kind = "tail" /\ y = Tail40(b.key - k, b.len + k) /\ k \in Nat /\ n.items # <<>>
      BY <1>0, <1>1, <2>1, <2>2, EmptySeq DEF y, bk, bl
    <3> HIDE DEF b
    <3> QED
      BY <2>7, <3>1, <3>2, FirstWidened
  <2> QED
    BY <1>3, <2>9, <2>11, <2>12, <2>13 DEF m, grown
<1> QED
  BY <1>2, <1>3

-----------------------------------------------------------------------------
(* The passes, on a source, a destination and a hint *)

St(src, dst, h) == [src |-> src, dst |-> dst, hint |-> h]

(* The fields of a shift's state.                                            *)
LEMMA StFields ==
  ASSUME NEW src, NEW dst, NEW h
  PROVE  St(src, dst, h).src = src /\ St(src, dst, h).dst = dst /\ St(src, dst, h).hint = h
  BY DEF St

(* A shift's state with another hint.                                        *)
LEMMA StHint ==
  ASSUME NEW src, NEW dst, NEW h, NEW g
  PROVE  [St(src, dst, h) EXCEPT !.hint = g] = St(src, dst, g)
  BY DEF St

\* Where the units that h counts land, from the tail it
Landed(dst, h, it) ==
  IF h.left THEN LandLast(dst, node40_items(dst), it, h.units_number, h.create)
  ELSE LandFirst(dst, it, h.units_number, h.create)

(* tail40_shift_units() says where the counted units land.                   *)
LEMMA LandedIs ==
  ASSUME NEW dst, NEW h \in HintSet, NEW it \in GoodItems, it.kind = "tail", NodeOK(dst)
  PROVE  tail40_shift_units(dst, h, it) = Landed(dst, h, it)
<1> DEFINE k == h.units_number  N == node40_items(dst)
           key == IF h.left THEN it.key ELSE it.key + (it.len - k)
<1>1. SentTail(h, it) = Tail40(key, k)
  <2>1. SentTail(h, it) = [[it EXCEPT !.len = k] EXCEPT !.key = key]
    BY DEF SentTail
  <2>2. [it EXCEPT !.len = k] = Tail40(it.key, k)
    BY TailAgain
  <2> HIDE DEF key, k
  <2>3. [Tail40(it.key, k) EXCEPT !.key = key] = Tail40(key, k)
    BY TailKey
  <2> QED
    BY <2>1, <2>2, <2>3, Zenon
<1>2. N \in Nat /\ (N - 1) + 1 = N
  <2>1. dst.items \in Seq(GoodItems)
    BY DEF NodeOK
  <2>2. N \in Nat
    BY <2>1 DEF node40_items
  <2> HIDE DEF N
  <2> QED
    BY <2>2
<1>3. CASE h.left
  BY <1>1, <1>2, <1>3, Zenon DEF tail40_shift_units, Landed, LandLast, LandFirst
<1>4. CASE ~h.left
  BY <1>1, <1>4, Zenon DEF tail40_shift_units, Landed, LandLast, LandFirst
<1> QED
  BY <1>3, <1>4

\* What stays of the source, and the hint then
Remains(src, h, it) ==
  IF h.left THEN LeftRest(src, it, h.units_number)
  ELSE RightRest(src, node40_items(src), it, h.units_number)

Behind(h, i, it) ==
  IF h.units_number = it.len
  THEN [h EXCEPT !.pos =
         [item |-> IF ~h.moved /\ i < h.pos.item THEN h.pos.item - 1 ELSE h.pos.item,
          unit |-> IF i = h.pos.item THEN MAX_UINT32 ELSE h.pos.unit]]
  ELSE h

(* What the shift of units leaves of the source, and the hint behind it.     *)
LEMMA DrainedIs ==
  ASSUME NEW src, NEW h, NEW i, NEW it, it.kind = "tail",
         i = node40_border(src, h.left)
  PROVE  LET r == Drained(src, h, i, it)
         IN  r.src = Remains(src, h, it) /\ r.hint = Behind(h, i, it)
<1> DEFINE k == h.units_number  r == Drained(src, h, i, it)
           rest == node40_shrink(src, Pos(i, 0), k, 1)
           y == node40_shrink(src, Pos(i, MAX_UINT32), it.len, 1)
           z == IF h.left THEN node40_set_key(rest, i, it.key + k) ELSE rest
           g == Behind(h, i, it)
<1>1. Units(it) = it.len
  BY DEF Units
<1>2. h.left => i = 0
  BY DEF node40_border
<1>3. ~h.left => i = node40_items(src) - 1
  BY DEF node40_border
<1>4. k = it.len => r = [src |-> y, hint |-> g]
  BY <1>1, Zenon DEF Drained, Behind
<1>5. k # it.len => r = [src |-> z, hint |-> h]
  BY <1>1, Zenon DEF Drained
<1>6. k # it.len => g = h
  BY DEF Behind
<1>7. Remains(src, h, it) = IF k = it.len THEN y ELSE z
  <2>1. CASE h.left
    BY <1>2, <2>1, Zenon DEF Remains, LeftRest
  <2>2. CASE ~h.left
    BY <1>3, <2>2, Zenon DEF Remains, RightRest
  <2> QED
    BY <2>1, <2>2
<1> HIDE DEF r, y, z, g
<1>8. r.src = Remains(src, h, it) /\ r.hint = g
  BY <1>4, <1>5, <1>6, <1>7
<1> QED
  BY <1>8 DEF r, g

Touched(h) == [h EXCEPT !.changed = TRUE]

(* SendUnits() with some units: the source, the destination and the hint it  *)
(* leaves.                                                                   *)
LEMMA SendIs ==
  ASSUME NEW src, NEW dst, NodeOK(dst), NEW h \in HintSet, h.units_number # 0,
         NEW it \in GoodItems, it.kind = "tail",
         NEW i, i = node40_border(src, h.left)
  PROVE  SendUnits(St(src, dst, h), i, it) =
           St(Remains(src, h, it), Landed(dst, h, it), Behind(Touched(h), i, it))
<1> DEFINE g == Touched(h)
<1>1. g.left = h.left /\ g.units_number = h.units_number
  BY DEF HintSet, Touched
<1>2. /\ St(src, dst, h).src = src /\ St(src, dst, h).dst = dst /\ St(src, dst, h).hint = h
  BY StFields
<1>3. SendUnits(St(src, dst, h), i, it) =
        [src |-> Drained(src, g, i, it).src, dst |-> tail40_shift_units(dst, h, it), hint |-> Drained(src, g, i, it).hint]
  BY <1>2, Zenon DEF SendUnits, Touched
<1> HIDE DEF g
<1>4. Drained(src, g, i, it).src = Remains(src, g, it) /\ Drained(src, g, i, it).hint = Behind(g, i, it)
  <2>1. i = node40_border(src, g.left)
    BY <1>1
  <2> QED
    BY <2>1, DrainedIs
<1>5. Remains(src, g, it) = Remains(src, h, it)
  BY <1>1, Zenon DEF Remains
<1>6. tail40_shift_units(dst, h, it) = Landed(dst, h, it)
  BY LandedIs
<1> QED
  BY <1>3, <1>4, <1>5, <1>6, Zenon DEF St, g

\* What meets where the nodes meet: in key order, and not to be merged
Borders(src, dst, l) == IF l THEN Border(dst.items, src.items) ELSE Border(src.items, dst.items)
Joined(src, dst, l)  == IF l THEN Joint(dst.items, src.items) ELSE Joint(src.items, dst.items)

Room(dst, h, it) ==
  IF h.left THEN RoomLast(dst, node40_items(dst), it, h.units_number, h.create)
  ELSE RoomFirst(dst, node40_items(dst), it, h.units_number, h.create)

(* What goes from the start of a node to the end of the one on its left is  *)
(* still between what was before it and what was behind it; and likewise    *)
(* from the end of a node to the start of the one on its right.             *)
LEMMA LeftHeld ==
  ASSUME NEW src, NodeOK(src), NEW dst, NodeOK(dst), NEW r, NodeOK(r), NEW d, NodeOK(d),
         NEW it \in GoodItems, it.kind = "tail", NEW k \in 1 .. it.len,
         TookLast(d, dst, it, k), GaveFirst(r, src, it, k)
  PROVE  Flat(d.items \o r.items) = Flat(dst.items \o src.items)
<1> DEFINE a == Flat(dst.items)  b == FrontOf(it, k)  c == Flat(r.items)
<1>1. /\ a \in Seq(UnitSet) /\ c \in Seq(UnitSet)
      /\ Flat(d.items \o r.items) = Flat(d.items) \o c
      /\ Flat(dst.items \o src.items) = a \o Flat(src.items)
  BY FlatOf
<1>2. b \in Seq(UnitSet)
  BY TailEnds
<1>3. Flat(d.items) = a \o b /\ Flat(src.items) = b \o c
  BY DEF TookLast, GaveFirst
<1> HIDE DEF a, b, c
<1>4. SeqsAssociate(UnitSet)
  BY SeqsJoin
<1>5. (a \o b) \o c = a \o (b \o c)
  BY <1>1, <1>2, <1>4, Zenon DEF SeqsAssociate
<1> QED
  BY <1>1, <1>3, <1>5, Zenon

LEMMA RightHeld ==
  ASSUME NEW src, NodeOK(src), NEW dst, NodeOK(dst), NEW r, NodeOK(r), NEW d, NodeOK(d),
         NEW it \in GoodItems, it.kind = "tail", NEW k \in 1 .. it.len,
         TookFirst(d, dst, it, k), GaveLast(r, src, it, k)
  PROVE  Flat(r.items \o d.items) = Flat(src.items \o dst.items)
<1> DEFINE a == Flat(r.items)  b == BackOf(it, k)  c == Flat(dst.items)
<1>1. /\ a \in Seq(UnitSet) /\ c \in Seq(UnitSet)
      /\ Flat(r.items \o d.items) = a \o Flat(d.items)
      /\ Flat(src.items \o dst.items) = Flat(src.items) \o c
  BY FlatOf
<1>2. b \in Seq(UnitSet)
  BY TailEnds
<1>3. Flat(d.items) = b \o c /\ Flat(src.items) = a \o b
  BY DEF TookFirst, GaveLast
<1> HIDE DEF a, b, c
<1>4. SeqsAssociate(UnitSet)
  BY SeqsJoin
<1>5. (a \o b) \o c = a \o (b \o c)
  BY <1>1, <1>2, <1>4, Zenon DEF SeqsAssociate
<1> QED
  BY <1>1, <1>3, <1>5, Zenon

(* What a node has counted of the units it took.                            *)
LEMMA TookCounts ==
  ASSUME NEW dst, NodeOK(dst), NEW d, NEW it \in GoodItems, it.kind = "tail", NEW k \in 1 .. it.len,
         TookLast(d, dst, it, k)
  PROVE  Count(d.items) = Count(dst.items) + k
<1> DEFINE y == Tail40(it.key, k)  a == Flat(dst.items)  b == FrontOf(it, k)
<1>1. y \in GoodItems
  <2> DEFINE z == it.key  n == it.len
  <2>1. \A c \in 1 .. n : \A j \in 0 .. n - c : Tail40(z + j, c) \in GoodItems
    BY Part
  <2>2. z \in Nat /\ n \in Nat
    BY ItemFacts
  <2> HIDE DEF z, n
  <2>3. k \in 1 .. n /\ 0 \in 0 .. n - k /\ z + 0 = z
    BY <2>2 DEF n
  <2>4. Tail40(z + 0, k) \in GoodItems
    BY <2>1, <2>3
  <2> QED
    BY <2>3, <2>4 DEF z
<1>2. Len(b) = k
  <2>1. Len(UnitKeys(y)) = Units(y) /\ Units(y) = k
    <3>1. Units(y) = k
      BY DEF Units, Tail40
    <3> HIDE DEF y
    <3> QED
      BY <1>1, <3>1, UnitsOf
  <2> QED
    BY <2>1, Zenon DEF FrontOf
<1>3. a \in Seq(UnitSet) /\ b \in Seq(UnitSet) /\ Flat(d.items) = a \o b
  BY FlatOf, TailEnds DEF TookLast
<1>4. Count(d.items) = Len(a \o b) /\ Count(dst.items) = Len(a)
  BY <1>3, Zenon DEF Count
<1> HIDE DEF a, b
<1> QED
  BY <1>2, <1>3, <1>4, ConcatProperties

(* The two nodes after units have gone over.                                *)
LEMMA SentNodes ==
  ASSUME NEW src, NodeOK(src), NEW dst, NodeOK(dst), NEW h \in HintSet, src.items # <<>>,
         NEW i, i = node40_border(src, h.left), NEW it, it = Item(src, i), it.kind = "tail",
         NEW k, k = h.units_number, k \in 1 .. it.len, Room(dst, h, it)
  PROVE  LET r == Remains(src, h, it)
             d == Landed(dst, h, it)
         IN  /\ NodeOK(r) /\ NodeOK(d) /\ Borders(r, d, h.left)
             /\ k = it.len => Joined(r, d, h.left)
             /\ ~h.create => d.free = dst.free - k
             /\ ~h.left /\ k # it.len => Len(r.items) = Len(src.items)
             /\ h.left => LeftItems(r, src, it, k) /\ Count(d.items) = Count(dst.items) + k
             /\ ~h.left => RightItems(r, src, it, k)
             /\ k # it.len => k < it.len
             /\ Held(r, d, h.left) = Held(src, dst, h.left)
<1> DEFINE r == Remains(src, h, it)  d == Landed(dst, h, it)
           N == Len(src.items)  M == node40_items(dst)
<1>0. src.items \in Seq(GoodItems) /\ N \in Nat /\ N > 0
  <2>1. src.items \in Seq(GoodItems)
    BY DEF NodeOK
  <2> QED
    BY <2>1, EmptySeq
<1>1. h.left \in BOOLEAN /\ h.create \in BOOLEAN
  BY HintFields
<1>2. M = Len(dst.items)
  BY DEF node40_items
<1>3. CASE h.left
  <2>1. i = 0 /\ 0 + 1 = 1
    BY <1>3 DEF node40_border
  <2>2. it = src.items[1]
    BY <2>1, Zenon DEF Item
  <2>3. it \in GoodItems
    BY <1>0, <2>2, ElementOfSeq
  <2>4. RoomLast(dst, M, it, k, h.create)
    BY <1>3 DEF Room
  <2>5. r = LeftRest(src, it, k)
    BY <1>3 DEF Remains
  <2>6. d = LandLast(dst, M, it, k, h.create)
    BY <1>3, Zenon DEF Landed
  <2> HIDE DEF M, r, d
  <2> DEFINE c == h.create
  <2>7. PICK y : Grown(d, dst, k, h.create, y) /\ d.items[Len(d.items)] = y /\ LastKey(y) = (it.key + k) - 1
    <3>1. c \in BOOLEAN /\ RoomLast(dst, M, it, k, c) /\ d = LandLast(dst, M, it, k, c)
      BY <1>1, <2>4, <2>6
    <3> HIDE DEF c
    <3>2. EndsIn(d, dst, it, k, c)
      BY <1>2, <2>3, <3>1, ArrivesLast
    <3>3. \E y : Grown(d, dst, k, c, y) /\ d.items[Len(d.items)] = y /\ LastKey(y) = (it.key + k) - 1
      BY <3>2, Zenon DEF EndsIn
    <3> QED
      BY <3>3, Zenon DEF c
  <2>8. /\ NodeOK(d) /\ d.items # <<>> /\ y \in GoodItems /\ y.kind = "tail"
        /\ ~h.create => d.free = dst.free - k
    BY <2>7, Zenon DEF Grown
  <2>9. /\ NodeOK(r)
        /\ r.items # <<>> => Precedes(y, r.items[1])
        /\ k = it.len => FromBehind(r, src, 1) /\ (r.items # <<>> => Tight(y, r.items[1]))
        /\ k # it.len => Instead(r, src, 1, Tail40(it.key + k, it.len - k)) /\ k < it.len
    BY <1>0, <2>2, <2>5, <2>7, <2>8, LeavesFirst
  <2>10. Borders(r, d, h.left)
    BY <1>3, <2>7, <2>9, Zenon DEF Borders, Border
  <2>11. k = it.len => Joined(r, d, h.left)
    BY <1>3, <2>7, <2>9, Zenon DEF Joined, Joint
  <2>12. LeftItems(r, src, it, k)
    BY <2>9, Zenon DEF LeftItems
  <2>13. TookLast(d, dst, it, k)
    <3>1. c \in BOOLEAN /\ RoomLast(dst, M, it, k, c) /\ d = LandLast(dst, M, it, k, c)
      BY <1>1, <2>4, <2>6
    <3> HIDE DEF c
    <3>2. EndsIn(d, dst, it, k, c)
      BY <1>2, <2>3, <3>1, ArrivesLast
    <3> QED
      BY <3>2, Zenon DEF EndsIn
  <2>14. GaveFirst(r, src, it, k)
    BY <2>2, <2>9, <2>12, FirstGiven
  <2>15. Held(r, d, h.left) = Held(src, dst, h.left)
    <3>1. NodeOK(d) /\ NodeOK(r) /\ it \in GoodItems /\ TookLast(d, dst, it, k) /\ GaveFirst(r, src, it, k)
      BY <2>3, <2>8, <2>9, <2>13, <2>14, Zenon
    <3>2. Flat(d.items \o r.items) = Flat(dst.items \o src.items)
      BY <3>1, LeftHeld
    <3> QED
      BY <1>3, <3>2, Zenon DEF Held
  <2>16. Count(d.items) = Count(dst.items) + k
    BY <2>3, <2>13, TookCounts
  <2> QED
    BY <1>3, <2>8, <2>9, <2>10, <2>11, <2>12, <2>15, <2>16, Zenon DEF r, d
<1>4. CASE ~h.left
  <2>1. i = N - 1 /\ (N - 1) + 1 = N
    BY <1>0, <1>4 DEF node40_border, node40_items
  <2>2. it = src.items[N]
    BY <2>1, Zenon DEF Item
  <2>3. it \in GoodItems
    <3>1. N \in 1 .. Len(src.items)
      BY <1>0
    <3> QED
      BY <1>0, <2>2, <3>1, ElementOfSeq
  <2>4. RoomFirst(dst, M, it, k, h.create)
    BY <1>4 DEF Room
  <2>5. r = RightRest(src, N, it, k)
    BY <1>4 DEF Remains, node40_items
  <2>6. d = LandFirst(dst, it, k, h.create)
    BY <1>4, Zenon DEF Landed
  <2> HIDE DEF M, r, d, N
  <2> DEFINE c == h.create
  <2>7. PICK y : Grown(d, dst, k, h.create, y) /\ d.items[1] = y /\ y.key = it.key + (it.len - k)
    <3>1. c \in BOOLEAN /\ RoomFirst(dst, M, it, k, c) /\ d = LandFirst(dst, it, k, c)
      BY <1>1, <2>4, <2>6
    <3> HIDE DEF c
    <3>2. StartsIn(d, dst, it, k, c)
      BY <1>2, <2>3, <3>1, ArrivesFirst
    <3>3. \E y : Grown(d, dst, k, c, y) /\ d.items[1] = y /\ y.key = it.key + (it.len - k)
      BY <3>2, Zenon DEF StartsIn
    <3> QED
      BY <3>3, Zenon DEF c
  <2>8. /\ NodeOK(d) /\ d.items # <<>> /\ y \in GoodItems /\ y.kind = "tail"
        /\ ~h.create => d.free = dst.free - k
    BY <2>7, Zenon DEF Grown
  <2>9. y.key = (it.key + it.len) - k
    <3> DEFINE a == it.key  b == it.len
    <3>1. a \in Nat /\ b \in Nat /\ k \in Nat /\ y.key = a + (b - k)
      BY <2>3, <2>7, ItemFacts
    <3> HIDE DEF a, b
    <3>2. a + (b - k) = (a + b) - k
      BY <3>1
    <3> QED
      BY <3>1, <3>2 DEF a, b
  <2>10. /\ NodeOK(r)
         /\ r.items # <<>> => Precedes(r.items[Len(r.items)], y)
         /\ k = it.len => (r.items # <<>> => Tight(r.items[Len(r.items)], y))
         /\ k # it.len => Len(r.items) = N /\ k < it.len
         /\ RightItems(r, src, it, k)
    <3>1. N = Len(src.items)
      BY DEF N
    <3> QED
      BY <1>0, <2>2, <2>5, <2>8, <2>9, <3>1, LeavesLast
  <2>11. Borders(r, d, h.left)
    BY <1>4, <2>7, <2>10, Zenon DEF Borders, Border
  <2>12. k = it.len => Joined(r, d, h.left)
    BY <1>4, <2>7, <2>10, Zenon DEF Joined, Joint
  <2>13. TookFirst(d, dst, it, k)
    <3>1. c \in BOOLEAN /\ RoomFirst(dst, M, it, k, c) /\ d = LandFirst(dst, it, k, c)
      BY <1>1, <2>4, <2>6
    <3> HIDE DEF c
    <3>2. StartsIn(d, dst, it, k, c)
      BY <1>2, <2>3, <3>1, ArrivesFirst
    <3> QED
      BY <3>2, Zenon DEF StartsIn
  <2>14. GaveLast(r, src, it, k)
    <3>1. it = src.items[Len(src.items)]
      BY <2>2 DEF N
    <3> QED
      BY <2>10, <3>1, LastGiven
  <2>15. Held(r, d, h.left) = Held(src, dst, h.left)
    <3>1. NodeOK(d) /\ NodeOK(r) /\ it \in GoodItems /\ TookFirst(d, dst, it, k) /\ GaveLast(r, src, it, k)
      BY <2>3, <2>8, <2>10, <2>13, <2>14, Zenon
    <3>2. Flat(r.items \o d.items) = Flat(src.items \o dst.items)
      BY <3>1, RightHeld
    <3> QED
      BY <1>4, <3>2, Zenon DEF Held
  <2> QED
    BY <1>4, <2>8, <2>10, <2>11, <2>12, <2>15, Zenon DEF r, d, N
<1> QED
  BY <1>3, <1>4

\* Shifted to the left, the insert point is in an item that is there, or
\* behind the last of its units; once k units of the first item have gone.
LeftPoint(n, h) ==
  h.left /\ h.update /\ h.pos.unit # MAX_UINT32 =>
    h.pos.item < Len(n.items) /\ h.pos.unit =< n.items[h.pos.item + 1].len

LeftPointGone(n, h, k) ==
  h.left /\ h.update /\ h.pos.unit # MAX_UINT32 =>
    /\ h.pos.item < Len(n.items)
    /\ h.pos.unit + (IF h.pos.item = 0 THEN k ELSE 0) =< n.items[h.pos.item + 1].len

\* A shift to the left never takes the insert point along.
ModeOK(h) == (h.moved => h.move) /\ (h.left => ~h.move)

\* The insert point of g is that of h when k units of the tail it at item i
\* have gone.
PointFollows(g, h, i, it, k) ==
  /\ k # it.len => g.pos = h.pos
  /\ k = it.len =>
       /\ g.pos.item = IF ~h.moved /\ i < h.pos.item THEN h.pos.item - 1 ELSE h.pos.item
       /\ g.pos.unit = IF i = h.pos.item THEN MAX_UINT32 ELSE h.pos.unit

\* g is what the units counted by h leave of it behind.
BehindOf(g, h, i, it) ==
  /\ g \in HintSet /\ SameMode(g, h) /\ g.moved = h.moved
  /\ PointFollows(g, h, i, it, h.units_number)

(* The hint behind a shift of units.                                         *)
LEMMA BehindHint ==
  ASSUME NEW h \in HintSet, NEW i \in Nat, NEW it, NEW g, g = Behind(Touched(h), i, it)
  PROVE  BehindOf(g, h, i, it)
<1> SUFFICES /\ g \in HintSet /\ SameMode(g, h) /\ g.moved = h.moved
             /\ h.units_number # it.len => g.pos = h.pos
             /\ h.units_number = it.len =>
                  /\ g.pos.item = IF ~h.moved /\ i < h.pos.item THEN h.pos.item - 1 ELSE h.pos.item
                  /\ g.pos.unit = IF i = h.pos.item THEN MAX_UINT32 ELSE h.pos.unit
  BY Zenon DEF PointFollows, BehindOf
<1> DEFINE f == Touched(h)
           a == IF ~h.moved /\ i < h.pos.item THEN h.pos.item - 1 ELSE h.pos.item
           b == IF i = h.pos.item THEN MAX_UINT32 ELSE h.pos.unit
<1>1. f \in HintSet /\ f.left = h.left /\ f.update = h.update /\ f.move = h.move /\ f.moved = h.moved
      /\ f.pos = h.pos /\ f.units_number = h.units_number
      /\ f.items_number = h.items_number /\ f.items_bytes = h.items_bytes
  BY DEF HintSet, Touched
<1> HIDE DEF f
<1>2. MAX_UINT32 \in Nat
  BY SMT DEF MAX_UINT32
<1>3. a \in Nat /\ b \in Nat
  <2>1. h.pos.item \in Nat /\ h.pos.unit \in Nat
    BY HintFields
  <2> QED
    BY <1>2, <2>1
<1>4. g = IF h.units_number = it.len THEN [f EXCEPT !.pos = [item |-> a, unit |-> b]] ELSE f
  BY <1>1, Zenon DEF Behind, f
<1> HIDE DEF a, b
<1>5. CASE h.units_number = it.len
  <2> DEFINE p == [item |-> a, unit |-> b]
  <2>1. p \in [item : Nat, unit : Nat] /\ p.item = a /\ p.unit = b
    BY <1>3
  <2> HIDE DEF p
  <2>2. g = [f EXCEPT !.pos = p]
    BY <1>4, <1>5 DEF p
  <2>3. g \in HintSet /\ g.left = f.left /\ g.update = f.update /\ g.move = f.move /\ g.moved = f.moved /\ g.pos = p
        /\ g.items_number = f.items_number /\ g.items_bytes = f.items_bytes
    BY <1>1, <2>1, <2>2 DEF HintSet
  <2> QED
    BY <1>1, <1>5, <2>1, <2>3 DEF SameMode, a, b
<1>6. CASE h.units_number # it.len
  BY <1>1, <1>4, <1>6 DEF SameMode
<1> QED
  BY <1>5, <1>6

(* The insert point of a shift to the left stays in the item it is in.      *)
LEMMA BehindPoint ==
  ASSUME NEW src, NodeOK(src), src.items # <<>>, NEW r, NodeOK(r), NEW h \in HintSet, ModeOK(h),
         NEW it, it = src.items[1], NEW k, k = h.units_number, k \in 1 .. it.len, it.len \in Nat,
         h.left => LeftItems(r, src, it, k), LeftPointGone(src, h, k),
         NEW i, h.left => i = 0,
         NEW g \in HintSet, SameMode(g, h), PointFollows(g, h, i, it, k)
  PROVE  LeftPoint(r, g)
<1>0. /\ k # it.len => g.pos = h.pos
      /\ k = it.len =>
           /\ g.pos.item = IF ~h.moved /\ i < h.pos.item THEN h.pos.item - 1 ELSE h.pos.item
           /\ g.pos.unit = IF i = h.pos.item THEN MAX_UINT32 ELSE h.pos.unit
  BY Zenon DEF PointFollows
<1> SUFFICES ASSUME g.left, g.update, g.pos.unit # MAX_UINT32
             PROVE  g.pos.item < Len(r.items) /\ g.pos.unit =< r.items[g.pos.item + 1].len
  BY DEF LeftPoint
<1>1. h.left /\ h.update /\ i = 0 /\ ~h.moved /\ LeftItems(r, src, it, k)
  BY DEF SameMode, ModeOK
<1> DEFINE p == h.pos.item  u == h.pos.unit  N == Len(src.items)
<1>2. p \in Nat /\ u \in Nat /\ N \in Nat /\ N > 0
  <2>1. src.items \in Seq(GoodItems)
    BY DEF NodeOK
  <2>2. N \in Nat /\ N > 0
    BY <2>1, EmptySeq
  <2> QED
    BY <2>2, HintFields
<1>3. u # MAX_UINT32 => p < N /\ u + (IF p = 0 THEN k ELSE 0) =< src.items[p + 1].len
  BY <1>1 DEF LeftPointGone
<1>4. CASE k = it.len
  <2>1. FromBehind(r, src, 1)
    BY <1>1, <1>4 DEF LeftItems
  <2>2. Len(r.items) = N - 1 /\ \A j \in 1 .. N - 1 : r.items[j] = src.items[j + 1]
    BY <2>1 DEF FromBehind
  <2>3. p # 0 /\ g.pos.unit = u /\ u # MAX_UINT32 /\ g.pos.item = p - 1
    <3>1. g.pos.unit = IF 0 = p THEN MAX_UINT32 ELSE u
      BY <1>0, <1>1, <1>4
    <3>2. p # 0 /\ g.pos.unit = u /\ u # MAX_UINT32
      BY <3>1
    <3>3. g.pos.item = IF 0 < p THEN p - 1 ELSE p
      BY <1>0, <1>1, <1>4
    <3>4. 0 < p
      BY <1>2, <3>2
    <3> QED
      BY <3>2, <3>3, <3>4
  <2> HIDE DEF p, u, N
  <2>4. p < N /\ u + 0 =< src.items[p + 1].len
    BY <1>3, <2>3
  <2>5. p \in 1 .. N - 1 /\ (p - 1) + 1 = p /\ p - 1 < N - 1 /\ u + 0 = u
    BY <1>2, <2>3, <2>4
  <2>6. r.items[p] = src.items[p + 1]
    BY <2>2, <2>5
  <2>7. u =< r.items[p].len
    BY <2>4, <2>5, <2>6
  <2> QED
    BY <2>2, <2>3, <2>5, <2>7
<1>5. CASE k # it.len
  <2> DEFINE y == Tail40(it.key + k, it.len - k)
  <2>1. Instead(r, src, 1, y)
    BY <1>1, <1>5 DEF LeftItems
  <2>2. y.len = it.len - k
    BY DEF Tail40
  <2> HIDE DEF y
  <2>3. Len(r.items) = N /\ r.items[1] = y /\ \A j \in 1 .. N : j # 1 => r.items[j] = src.items[j]
    BY <2>1 DEF Instead
  <2>4. g.pos.item = p /\ g.pos.unit = u /\ u # MAX_UINT32
    BY <1>0, <1>5
  <2> HIDE DEF p, u, N
  <2>5. p < N /\ u + (IF p = 0 THEN k ELSE 0) =< src.items[p + 1].len
    BY <1>3, <2>4
  <2>6. CASE p = 0
    <3> DEFINE b == it.len
    <3>1. u + k =< b /\ b \in Nat /\ k \in Nat /\ r.items[p + 1].len = b - k
      BY <2>2, <2>3, <2>5, <2>6
    <3> HIDE DEF b
    <3>2. u =< b - k
      BY <1>2, <3>1
    <3> QED
      BY <2>3, <2>4, <2>5, <3>1, <3>2
  <2>7. CASE p # 0
    <3>1. p + 1 \in 1 .. N /\ p + 1 # 1 /\ u + 0 = u
      BY <1>2, <2>5, <2>7
    <3>2. r.items[p + 1] = src.items[p + 1]
      BY <2>3, <3>1
    <3> QED
      BY <2>3, <2>4, <2>5, <2>7, <3>1, <3>2
  <2> QED
    BY <2>6, <2>7
<1> QED
  BY <1>4, <1>5

\* The insert point p of src is behind so many units, of those that src has
\* and, at its left, dst.
Mark(src, dst, l, p) == (IF l THEN Count(dst.items) ELSE 0) + Gap(src.items, p)

Pointed(src, dst, l, p, gap) == There(src, p) /\ Mark(src, dst, l, p) = gap

\* The nodes hold the units that v says, and the insert point is where v says
\* as long as it stays in src.
Carries(src, dst, h, v) ==
  /\ Held(src, dst, h.left) = v.units
  /\ h.update /\ ~h.move => Pointed(src, dst, h.left, h.pos, v.gap)

(* What neither moves units nor the insert point carries on.                *)
LEMMA CarriesOn ==
  ASSUME NEW src, NEW dst, NEW h, NEW v, Carries(src, dst, h, v), NEW g,
         g.left = h.left, g.update = h.update, g.move = h.move, h.update /\ ~h.move => g.pos = h.pos
  PROVE  Carries(src, dst, g, v)
  BY Zenon DEF Carries

(* What keeps the units together and the insert point among them carries on. *)
LEMMA CarriesOver ==
  ASSUME NEW src, NEW dst, NEW h, NEW v, Carries(src, dst, h, v), NEW r, NEW d, NEW g,
         g.left = h.left, g.update = h.update, g.move = h.move, Held(r, d, h.left) = Held(src, dst, h.left),
         \A gap : h.update /\ ~h.move /\ Pointed(src, dst, h.left, h.pos, gap) => Pointed(r, d, h.left, g.pos, gap)
  PROVE  Carries(r, d, g, v)
  BY Zenon DEF Carries

\* The state between two passes
Sane(src, dst, h, v) ==
  /\ NodeOK(src) /\ NodeOK(dst) /\ Borders(src, dst, h.left)
  /\ h \in HintSet /\ ModeOK(h) /\ LeftPoint(src, h)
  /\ Carries(src, dst, h, v)

\* No item of src can go: no room, or the insert point is in the way.
Stuck(src, dst, h) ==
  \/ dst.free = 0
  \/ /\ h.update /\ ~h.move
     /\ IF h.left THEN h.pos.item = 0
        ELSE \/ h.pos.item >= Len(src.items)
             \/ h.pos.item = Len(src.items) - 1 /\ h.pos.unit # MAX_UINT32

\* Whole items may follow.
Ready(src, dst, h) == Joined(src, dst, h.left) \/ Stuck(src, dst, h)

\* t is such a state, of a shift in the mode of h.
Passed(t, h, v) ==
  /\ t = St(t.src, t.dst, t.hint)
  /\ Sane(t.src, t.dst, t.hint, v) /\ SameMode(t.hint, h)

Mergeable(src, dst, l) ==
  /\ src.items # <<>> /\ dst.items # <<>>
  /\ IF l THEN reiser4_item_mergeable(dst.items[Len(dst.items)], src.items[1])
     ELSE reiser4_item_mergeable(src.items[Len(src.items)], dst.items[1])

\* Room for the units that h counts, or for as many as there is room for
Space(src, dst, h, bytes) ==
  IF h.create THEN bytes + IhSize =< dst.free /\ Joined(src, dst, h.left)
  ELSE bytes =< dst.free /\ Mergeable(src, dst, h.left)

(* The space the first pass looked for is room for the units it sends.       *)
LEMMA RoomIs ==
  ASSUME NEW src, NodeOK(src), NEW dst, NodeOK(dst), NEW h \in HintSet, src.items # <<>>,
         NEW i, i = node40_border(src, h.left), NEW it, it = Item(src, i), it \in GoodItems, it.kind = "tail",
         NEW bytes \in Nat, h.units_number =< bytes, Space(src, dst, h, bytes)
  PROVE  Room(dst, h, it)
<1> DEFINE N == Len(src.items)  M == Len(dst.items)  k == h.units_number
<1>1. src.items \in Seq(GoodItems) /\ N \in Nat /\ N > 0 /\ dst.items \in Seq(GoodItems) /\ M \in Nat
      /\ (dst.items # <<>> <=> M > 0)
  <2>1. src.items \in Seq(GoodItems) /\ dst.items \in Seq(GoodItems)
    BY DEF NodeOK
  <2>2. N \in Nat /\ N > 0
    BY <2>1, EmptySeq
  <2> QED
    BY <2>1, <2>2, EmptySeq
<1>2. k \in Nat /\ IhSize \in Nat /\ dst.free \in Nat
  BY HintFields, NodeConstants DEF NodeOK
<1>3. node40_items(dst) = M
  BY DEF node40_items
<1>4. CASE h.left
  <2>1. i = 0 /\ 0 + 1 = 1
    BY <1>4 DEF node40_border
  <2>2. it = src.items[1]
    BY <2>1, Zenon DEF Item
  <2>3. CASE h.create
    <3>1. bytes + IhSize =< dst.free /\ Joint(dst.items, src.items)
      BY <1>4, <2>3 DEF Space, Joined
    <3>2. k + IhSize =< dst.free
      BY <1>2, <3>1
    <3>3. M > 0 => Tight(dst.items[M], it)
      BY <1>1, <2>2, <3>1, Zenon DEF Joint
    <3> QED
      BY <1>3, <1>4, <2>3, <3>2, <3>3, Zenon DEF Room, RoomLast
  <2>4. CASE ~h.create
    <3>1. bytes =< dst.free /\ M > 0 /\ reiser4_item_mergeable(dst.items[M], it)
      BY <1>1, <1>4, <2>2, <2>4, Zenon DEF Space, Mergeable
    <3>2. k =< dst.free
      BY <1>2, <3>1
    <3> QED
      BY <1>3, <1>4, <2>4, <3>1, <3>2, Zenon DEF Room, RoomLast
  <2> QED
    BY <2>3, <2>4
<1>5. CASE ~h.left
  <2>1. i = N - 1 /\ (N - 1) + 1 = N
    BY <1>1, <1>5 DEF node40_border, node40_items
  <2>2. it = src.items[N]
    BY <2>1, Zenon DEF Item
  <2>3. CASE h.create
    <3>1. bytes + IhSize =< dst.free /\ Joint(src.items, dst.items)
      BY <1>5, <2>3 DEF Space, Joined
    <3>2. k + IhSize =< dst.free
      BY <1>2, <3>1
    <3>3. M > 0 => Tight(it, dst.items[1])
      BY <1>1, <2>2, <3>1, Zenon DEF Joint
    <3> QED
      BY <1>3, <1>5, <2>3, <3>2, <3>3, Zenon DEF Room, RoomFirst
  <2>4. CASE ~h.create
    <3>1. bytes =< dst.free /\ M > 0 /\ reiser4_item_mergeable(it, dst.items[1])
      BY <1>1, <1>5, <2>2, <2>4, Zenon DEF Space, Mergeable
    <3>2. k =< dst.free
      BY <1>2, <3>1
    <3> QED
      BY <1>3, <1>5, <2>4, <3>1, <3>2, Zenon DEF Room, RoomFirst
  <2> QED
    BY <2>3, <2>4
<1> QED
  BY <1>4, <1>5

\* The hint g that is made of h when k units of the tail it at item i go
Counted(g, h, i, it, k) ==
  /\ g \in HintSet /\ SameMode(g, h) /\ g.create = h.create /\ ModeOK(g)
  /\ k = g.units_number /\ k \in Nat /\ k =< h.units_bytes /\ k =< it.len
  /\ k < h.units_bytes => k = Limit(h, i, it)
  /\ k =< Limit(h, i, it)
  /\ h.left => /\ g.pos.item = h.pos.item
               /\ g.pos.unit = IF At(h, i) THEN h.pos.unit - k ELSE h.pos.unit
  /\ h.left /\ At(h, i) => k =< h.pos.unit
  /\ ~h.left /\ ~h.move => g.pos.item = h.pos.item /\ g.pos.unit = h.pos.unit

\* The insert point is not where the nodes meet.
OffBorder(src, h) ==
  h.update => ~(h.pos.unit = MAX_UINT32 /\ h.pos.item = IF h.left THEN 0 ELSE Len(src.items))

\* The border item of src
Source(src, h, i, it) ==
  /\ src.items # <<>> /\ i = node40_border(src, h.left) /\ it = Item(src, i) /\ it.kind = "tail"
  /\ OffBorder(src, h)

(* The border item of the source, by its position.                           *)
LEMMA SourceFacts ==
  ASSUME NEW src, NodeOK(src), NEW h \in HintSet, NEW i, NEW it, Source(src, h, i, it)
  PROVE  /\ it \in GoodItems /\ it.len \in Nat /\ it.len > 0
         /\ Len(src.items) \in Nat /\ Len(src.items) > 0
         /\ i \in Nat /\ i = IF h.left THEN 0 ELSE Len(src.items) - 1
         /\ it = src.items[i + 1]
         /\ h.left => it = src.items[1]
         /\ ~h.left => it = src.items[Len(src.items)]
<1> DEFINE N == Len(src.items)
<1>1. src.items \in Seq(GoodItems) /\ N \in Nat /\ N > 0
  <2>1. src.items \in Seq(GoodItems)
    BY DEF NodeOK
  <2> QED
    BY <2>1, EmptySeq DEF Source
<1>2. i = IF h.left THEN 0 ELSE N - 1
  BY DEF Source, node40_border, node40_items
<1>3. it = src.items[i + 1]
  BY Zenon DEF Source, Item
<1> HIDE DEF N
<1>4. i \in Nat /\ i + 1 \in 1 .. N /\ (h.left => i + 1 = 1) /\ (~h.left => i + 1 = N)
  BY <1>1, <1>2
<1>5. it \in GoodItems
  BY <1>1, <1>3, <1>4, ElementOfSeq DEF N
<1>6. it.len \in Nat /\ it.len > 0
  BY <1>5, ItemFacts
<1> QED
  BY <1>1, <1>2, <1>3, <1>4, <1>5, <1>6 DEF N

(* The insert point at the border stops units that would fit.               *)
LEMMA Blocked ==
  ASSUME NEW h \in HintSet, NEW i, NEW it, it.len \in Nat, NEW g, NEW k, Counted(g, h, i, it, k),
         k # it.len, k # h.units_bytes
  PROVE  h.update /\ i = h.pos.item /\ h.pos.unit # MAX_UINT32
<1>1. k \in Nat /\ k =< h.units_bytes /\ h.units_bytes \in Nat /\ (k < h.units_bytes => k = Limit(h, i, it))
  BY HintFields DEF Counted
<1>2. k = Limit(h, i, it)
  BY <1>1
<1>3. At(h, i)
  BY <1>2, Zenon DEF Limit
<1> QED
  BY <1>3 DEF At

(* A first pass that moves no unit leaves both nodes as they are, and ready  *)
(* when it could only append.                                                *)
LEMMA SendNone ==
  ASSUME NEW src, NEW dst, NEW h, NEW v, Sane(src, dst, h, v), NEW i, NEW it, Source(src, h, i, it),
         h.units_bytes > 0, ~h.create => ~h.move,
         NEW g, NEW k, Counted(g, h, i, it, k), k = 0
  PROVE  LET t == SendUnits(St(src, dst, g), i, it)
         IN  Passed(t, h, v) /\ (~h.create => Ready(t.src, t.dst, t.hint))
<1> DEFINE t == SendUnits(St(src, dst, g), i, it)
<1>1. g.units_number = 0 /\ g \in HintSet /\ SameMode(g, h) /\ ModeOK(g)
  BY DEF Counted
<1>2. t = St(src, dst, g)
  <2>1. St(src, dst, g).hint = g
    BY StFields
  <2>2. St(src, dst, g).hint.units_number = 0
    BY <1>1, <2>1
  <2> QED
    BY <2>2, Zenon DEF SendUnits
<1>3. t.src = src /\ t.dst = dst /\ t.hint = g
  BY <1>2, StFields
<1>4. NodeOK(src) /\ NodeOK(dst) /\ h \in HintSet /\ Borders(src, dst, h.left) /\ ModeOK(h) /\ LeftPoint(src, h)
      /\ Carries(src, dst, h, v)
  BY DEF Sane
<1>5. /\ it.len \in Nat /\ it.len > 0 /\ Len(src.items) \in Nat
      /\ i = IF h.left THEN 0 ELSE Len(src.items) - 1
      /\ h.units_bytes \in Nat /\ h.pos.unit \in Nat
  BY <1>4, SourceFacts, HintFields
<1>6. h.update /\ i = h.pos.item /\ h.pos.unit # MAX_UINT32
  <2>1. k # it.len /\ k # h.units_bytes
    BY <1>5
  <2> QED
    BY <1>4, <1>5, <2>1, Blocked
<1>7. g.left = h.left /\ g.update = h.update /\ g.move = h.move
  BY <1>1 DEF SameMode
<1>8. Borders(src, dst, g.left) /\ Carries(src, dst, g, v)
  <2>1. Borders(src, dst, g.left)
    BY <1>4, <1>7
  <2>2. ASSUME h.update, ~h.move PROVE g.pos = h.pos
    <3>1. g.pos.item = h.pos.item /\ g.pos.unit = h.pos.unit
      <4>1. CASE h.left
        <5>1. At(h, i) /\ h.pos.unit - 0 = h.pos.unit
          BY <1>5, <1>6 DEF At
        <5> QED
          BY <4>1, <5>1 DEF Counted
      <4>2. CASE ~h.left
        BY <2>2, <4>2 DEF Counted
      <4> QED
        BY <4>1, <4>2
    <3>2. g.pos \in PointSet /\ h.pos \in PointSet
      BY <1>1, <1>4, HintFields DEF PointSet
    <3> QED
      BY <3>1, <3>2, SamePoint
  <2>3. Carries(src, dst, g, v)
    BY <1>4, <1>7, <2>2, CarriesOn
  <2> QED
    BY <2>1, <2>3
<1>9. LeftPoint(src, g)
  <2> SUFFICES ASSUME h.left PROVE LeftPoint(src, g)
    BY <1>7 DEF LeftPoint
  <2>1. At(h, i)
    BY <1>6 DEF At
  <2>2. g.pos.item = h.pos.item /\ g.pos.unit = h.pos.unit - 0
    BY <2>1 DEF Counted
  <2>3. h.pos.unit - 0 = h.pos.unit
    BY <1>5
  <2> QED
    BY <1>4, <1>7, <2>2, <2>3 DEF LeftPoint
<1>10. Passed(t, h, v)
  BY <1>1, <1>2, <1>3, <1>4, <1>8, <1>9, Zenon DEF Passed, Sane
<1>11. ~h.create => Stuck(src, dst, g)
  <2> SUFFICES ASSUME ~h.create PROVE Stuck(src, dst, g)
    OBVIOUS
  <2>1. ~h.move
    OBVIOUS
  <2>2. CASE h.left
    <3>1. g.pos.item = 0
      BY <1>5, <1>6, <2>2 DEF Counted
    <3> QED
      BY <1>6, <1>7, <2>1, <2>2, <3>1 DEF Stuck
  <2>3. CASE ~h.left
    <3>1. g.pos.item = Len(src.items) - 1 /\ g.pos.unit # MAX_UINT32
      BY <1>5, <1>6, <2>1, <2>3 DEF Counted
    <3> QED
      BY <1>6, <1>7, <2>1, <2>3, <3>1 DEF Stuck
  <2> QED
    BY <2>2, <2>3
<1> QED
  BY <1>3, <1>10, <1>11, Zenon DEF Ready

(* The insert point stays among the units when some go over.                *)
LEMMA PointSent ==
  ASSUME NEW src, NodeOK(src), NEW dst, NodeOK(dst), NEW r, NodeOK(r), NEW d, NodeOK(d),
         NEW h \in HintSet, NEW i, NEW it, Source(src, h, i, it), h.update, ~h.move,
         NEW gap, Pointed(src, dst, h.left, h.pos, gap),
         NEW g, NEW k, Counted(g, h, i, it, k), k \in 1 .. it.len,
         h.left => LeftItems(r, src, it, k) /\ Count(d.items) = Count(dst.items) + k,
         ~h.left => RightItems(r, src, it, k),
         NEW f \in HintSet, PointFollows(f, g, i, it, k)
  PROVE  Pointed(r, d, h.left, f.pos, gap)
<1> DEFINE p == h.pos  q == f.pos  N == Len(src.items)
<1>1. /\ it \in GoodItems /\ it.len \in Nat /\ it.len > 0 /\ N \in Nat /\ N > 0
      /\ i \in Nat /\ i = IF h.left THEN 0 ELSE N - 1
      /\ h.left => it = src.items[1]
      /\ ~h.left => it = src.items[N]
  BY SourceFacts
<1>2. src.items # <<>> /\ it.kind = "tail" /\ ~(p.unit = MAX_UINT32 /\ p.item = IF h.left THEN 0 ELSE N)
  BY DEF Source, OffBorder
<1>3. /\ ~g.moved /\ k \in Nat /\ k =< Limit(h, i, it)
      /\ h.left => /\ g.pos.item = p.item
                   /\ g.pos.unit = IF At(h, i) THEN p.unit - k ELSE p.unit
      /\ h.left /\ At(h, i) => k =< p.unit
      /\ ~h.left => g.pos.item = p.item /\ g.pos.unit = p.unit
  BY DEF Counted, ModeOK, SameMode
<1>4. /\ k # it.len => q = g.pos
      /\ k = it.len =>
           /\ q.item = IF i < g.pos.item THEN g.pos.item - 1 ELSE g.pos.item
           /\ q.unit = IF i = g.pos.item THEN MAX_UINT32 ELSE g.pos.unit
  BY <1>3, Zenon DEF PointFollows
<1>5. p \in PointSet /\ q \in PointSet /\ p.item \in Nat /\ p.unit \in Nat
  BY HintFields DEF PointSet
<1>6. There(src, p) /\ (IF h.left THEN Count(dst.items) ELSE 0) + Gap(src.items, p) = gap
  BY Zenon DEF Pointed, Mark
<1>7. At(h, i) <=> i = p.item /\ p.unit # MAX_UINT32
  BY DEF At
<1>8. CASE h.left
  <2>1. i = 0 /\ it = src.items[1] /\ ~(p.item = 0 /\ p.unit = MAX_UINT32)
    BY <1>1, <1>2, <1>8
  <2>2. p.item = 0 => k =< p.unit
    BY <1>3, <1>7, <1>8, <2>1
  <2>3. PointFront(q, p, it, k)
    <3>1. CASE k = it.len
      <4>1. q.item = IF 0 < p.item THEN p.item - 1 ELSE p.item
        BY <1>3, <1>4, <1>8, <2>1, <3>1
      <4>2. q.unit = IF 0 = p.item THEN MAX_UINT32 ELSE p.unit
        BY <1>3, <1>4, <1>7, <1>8, <2>1, <3>1
      <4> QED
        BY <3>1, <4>1, <4>2, Zenon DEF PointFront
    <3>2. CASE k # it.len
      <4>1. q.item = p.item /\ q.unit = IF 0 = p.item THEN p.unit - k ELSE p.unit
        BY <1>3, <1>4, <1>7, <1>8, <2>1, <3>2
      <4> QED
        BY <3>2, <4>1, Zenon DEF PointFront
    <3> QED
      BY <3>1, <3>2
  <2>4. There(r, q) /\ k + Gap(r.items, q) = Gap(src.items, p)
    <3> HIDE DEF p, q, N
    <3> QED
      BY <1>2, <1>5, <1>6, <1>8, <2>1, <2>2, <2>3, FrontGone
  <2>5. Count(d.items) = Count(dst.items) + k /\ Count(dst.items) \in Nat /\ Gap(r.items, q) \in Nat
    <3>1. Gap(r.items, q) \in Nat
      BY <1>5, <2>4, GapIs DEF There
    <3>2. dst.items \in Seq(GoodItems)
      BY DEF NodeOK
    <3> QED
      BY <1>8, <3>1, <3>2, CountIs
  <2> DEFINE a == Count(d.items)  b == Count(dst.items)  x == Gap(r.items, q)  y == Gap(src.items, p)
  <2>6. a = b + k /\ b \in Nat /\ x \in Nat /\ k + x = y /\ b + y = gap
    BY <1>6, <1>8, <2>4, <2>5
  <2> HIDE DEF a, b, x, y
  <2>7. a + x = gap
    BY <1>3, <2>6
  <2>8. Mark(r, d, h.left, q) = gap
    BY <1>8, <2>7, Zenon DEF Mark, a, x
  <2> QED
    BY <2>4, <2>8, Zenon DEF Pointed
<1>9. CASE ~h.left
  <2>1. i = N - 1 /\ it = src.items[N] /\ ~(p.item = N /\ p.unit = MAX_UINT32)
    BY <1>1, <1>2, <1>9
  <2>2. p.item = N - 1 /\ p.unit # MAX_UINT32 => p.unit + k =< it.len
    <3> SUFFICES ASSUME p.item = N - 1, p.unit # MAX_UINT32 PROVE p.unit + k =< it.len
      OBVIOUS
    <3>1. k =< IF p.unit < it.len THEN it.len - p.unit ELSE 0
      BY <1>3, <1>7, <1>9, <2>1 DEF Limit
    <3> DEFINE b == it.len  u == p.unit
    <3>2. k =< (IF u < b THEN b - u ELSE 0) /\ b \in Nat /\ u \in Nat /\ k >= 1 /\ k \in Nat
      BY <1>1, <1>3, <1>5, <3>1
    <3> HIDE DEF b, u
    <3>3. u + k =< b
      BY <3>2
    <3> QED
      BY <3>3 DEF b, u
  <2>3. PointBack(q, p, it, N, k)
    <3>1. CASE k = it.len
      BY <1>3, <1>4, <1>9, <2>1, <3>1, Zenon DEF PointBack
    <3>2. CASE k # it.len
      BY <1>3, <1>4, <1>9, <2>1, <3>2, Zenon DEF PointBack
    <3> QED
      BY <3>1, <3>2
  <2>4. There(r, q) /\ Gap(r.items, q) = Gap(src.items, p)
    <3>1. N = Len(src.items)
      OBVIOUS
    <3> HIDE DEF p, q, N
    <3> QED
      BY <1>2, <1>5, <1>6, <1>9, <2>1, <2>2, <2>3, <3>1, BackGone
  <2>5. Mark(r, d, h.left, q) = gap
    BY <1>6, <1>9, <2>4, Zenon DEF Mark
  <2> QED
    BY <2>4, <2>5, Zenon DEF Pointed
<1> QED
  BY <1>8, <1>9

(* A first pass that moves units leaves both nodes right, and ready when it  *)
(* could only append.                                                        *)
LEMMA SendSome ==
  ASSUME NEW src, NEW dst, NEW h, NEW v, Sane(src, dst, h, v), NEW i, NEW it, Source(src, h, i, it),
         Space(src, dst, h, h.units_bytes), ~h.create => h.units_bytes = dst.free /\ ~h.move,
         NEW g, NEW k, Counted(g, h, i, it, k), k # 0
  PROVE  LET t == SendUnits(St(src, dst, g), i, it)
         IN  Passed(t, h, v) /\ (~h.create => Ready(t.src, t.dst, t.hint))
<1> DEFINE t == SendUnits(St(src, dst, g), i, it)
           r == Remains(src, g, it)  d == Landed(dst, g, it)  f == Behind(Touched(g), i, it)
           N == Len(src.items)
<1>1. /\ g.units_number = k /\ g \in HintSet /\ ModeOK(g) /\ g.create = h.create
      /\ k \in Nat /\ k =< h.units_bytes /\ k =< it.len
      /\ g.left = h.left /\ g.update = h.update /\ g.move = h.move
  BY DEF Counted, SameMode
<1>2. NodeOK(src) /\ NodeOK(dst) /\ h \in HintSet /\ Borders(src, dst, h.left) /\ ModeOK(h) /\ LeftPoint(src, h)
      /\ Carries(src, dst, h, v)
  BY DEF Sane
<1>3. /\ it \in GoodItems /\ it.len \in Nat /\ it.len > 0 /\ N \in Nat /\ N > 0
      /\ i \in Nat /\ i = IF h.left THEN 0 ELSE N - 1
      /\ h.left => it = src.items[1]
  BY <1>2, SourceFacts
<1>4. src.items # <<>> /\ i = node40_border(src, g.left) /\ it = Item(src, i) /\ it.kind = "tail"
  BY <1>1 DEF Source
<1>5. h.units_bytes \in Nat /\ h.pos.unit \in Nat /\ h.pos.item \in Nat
  BY <1>2, HintFields
<1>6. k \in 1 .. it.len
  BY <1>1, <1>3
<1>7. t = St(r, d, f)
  BY <1>1, <1>2, <1>3, <1>4, SendIs
<1> HIDE DEF t, N
<1>8. Room(dst, g, it)
  <2>1. Space(src, dst, g, h.units_bytes)
    BY <1>1, Zenon DEF Space
  <2> QED
    BY <1>1, <1>2, <1>3, <1>4, <1>5, <2>1, RoomIs
<1>9. /\ NodeOK(r) /\ NodeOK(d) /\ Borders(r, d, g.left)
      /\ k = it.len => Joined(r, d, g.left)
      /\ ~g.create => d.free = dst.free - k
      /\ ~g.left /\ k # it.len => Len(r.items) = Len(src.items)
      /\ g.left => LeftItems(r, src, it, k) /\ Count(d.items) = Count(dst.items) + k
      /\ ~g.left => RightItems(r, src, it, k)
      /\ k # it.len => k < it.len
      /\ Held(r, d, g.left) = Held(src, dst, g.left)
  BY <1>1, <1>2, <1>4, <1>6, <1>8, SentNodes
<1>10. /\ f \in HintSet /\ SameMode(f, g) /\ f.moved = g.moved
       /\ PointFollows(f, g, i, it, k)
  <2>1. f = Behind(Touched(g), i, it)
    OBVIOUS
  <2> HIDE DEF f
  <2>2. g \in HintSet /\ i \in Nat
    BY <1>1, <1>3
  <2>3. BehindOf(f, g, i, it)
    BY <2>1, <2>2, BehindHint
  <2> QED
    BY <1>1, <2>3, Zenon DEF BehindOf
<1> HIDE DEF r, d, f
<1>11. f.left = h.left /\ f.update = h.update /\ f.move = h.move /\ ModeOK(f) /\ SameMode(f, h)
  <2>1. SameMode(g, h)
    BY DEF Counted
  <2> QED
    BY <1>1, <1>10, <2>1 DEF SameMode, ModeOK
<1>12. LeftPointGone(src, g, k)
  <2> SUFFICES ASSUME h.left, h.update, g.pos.unit # MAX_UINT32
               PROVE  /\ g.pos.item < N
                      /\ g.pos.unit + (IF g.pos.item = 0 THEN k ELSE 0) =< src.items[g.pos.item + 1].len
    BY <1>1 DEF LeftPointGone, N
  <2>1. /\ g.pos.item = h.pos.item
        /\ g.pos.unit = IF At(h, i) THEN h.pos.unit - k ELSE h.pos.unit
        /\ At(h, i) => k =< h.pos.unit
    BY DEF Counted
  <2>2. i = 0
    BY <1>3
  <2>3. At(h, i) <=> h.pos.item = 0 /\ h.pos.unit # MAX_UINT32
    BY <2>2 DEF At
  <2>4. h.pos.unit # MAX_UINT32 => h.pos.item < N /\ h.pos.unit =< src.items[h.pos.item + 1].len
    BY <1>2 DEF LeftPoint, N
  <2> DEFINE u == h.pos.unit  p == h.pos.item  l == src.items[p + 1].len
  <2>5. CASE At(h, i)
    <3>1. p = 0 /\ u =< l /\ p < N /\ g.pos.unit = u - k /\ g.pos.item = p
      BY <2>1, <2>3, <2>4, <2>5
    <3>2. u \in Nat /\ (u - k) + k = u
      <4> HIDE DEF u
      <4>1. u \in Nat
        BY <1>5 DEF u
      <4> QED
        BY <1>1, <4>1
    <3> QED
      BY <3>1, <3>2
  <2>6. CASE ~At(h, i)
    <3>1. g.pos.unit = u /\ u # MAX_UINT32 /\ p # 0 /\ g.pos.item = p
      BY <2>1, <2>3, <2>6
    <3>2. u =< l /\ p < N /\ u + 0 = u
      BY <1>5, <2>4, <3>1
    <3> QED
      BY <3>1, <3>2
  <2> QED
    BY <2>5, <2>6
<1>13. LeftPoint(r, f)
  <2> SUFFICES ASSUME h.left PROVE LeftPoint(r, f)
    BY <1>11 DEF LeftPoint
  <2> DEFINE x == src.items[1]
  <2>1. it = x /\ (g.left => i = 0) /\ src.items # <<>> /\ k = g.units_number
    BY <1>1, <1>3, <1>4
  <2> QED
    BY <1>1, <1>2, <1>3, <1>6, <1>9, <1>10, <1>12, <2>1, BehindPoint
<1>14. t.src = r /\ t.dst = d /\ t.hint = f
  BY <1>7, StFields
<1>15. Passed(t, h, v)
  <2>0. Carries(r, d, f, v)
    <3>1. Held(r, d, h.left) = Held(src, dst, h.left)
      BY <1>1, <1>9
    <3>2. ASSUME NEW gap, h.update, ~h.move, Pointed(src, dst, h.left, h.pos, gap)
          PROVE  Pointed(r, d, h.left, f.pos, gap)
      <4>1. /\ h.left => LeftItems(r, src, it, k) /\ Count(d.items) = Count(dst.items) + k
            /\ ~h.left => RightItems(r, src, it, k)
        BY <1>1, <1>9
      <4> QED
        BY <1>2, <1>6, <1>9, <1>10, <3>2, <4>1, PointSent
    <3> QED
      BY <1>2, <1>11, <3>1, <3>2, CarriesOver
  <2>1. Borders(r, d, f.left) /\ Carries(r, d, f, v)
    BY <1>1, <1>2, <1>9, <1>11, <2>0
  <2>2. Sane(r, d, f, v)
    BY <1>9, <1>10, <1>11, <1>13, <2>1 DEF Sane
  <2> QED
    BY <1>7, <1>11, <1>14, <2>2, Zenon DEF Passed
<1>16. ~h.create => Ready(r, d, f)
  <2> SUFFICES ASSUME ~h.create PROVE Ready(r, d, f)
    OBVIOUS
  <2>0. h.units_bytes = dst.free /\ ~h.move /\ dst.free \in Nat
    BY <1>5
  <2>1. CASE k = it.len
    BY <1>1, <1>9, <1>11, <2>1 DEF Ready
  <2>2. CASE k # it.len /\ k = h.units_bytes
    <3>1. d.free = dst.free - k /\ k = dst.free
      BY <1>1, <1>9, <2>0, <2>2
    <3>2. d.free = 0
      BY <2>0, <3>1
    <3> QED
      BY <3>2 DEF Ready, Stuck
  <2>3. CASE k # it.len /\ k # h.units_bytes
    <3>1. h.update /\ i = h.pos.item /\ h.pos.unit # MAX_UINT32
      BY <1>2, <1>3, <2>3, Blocked
    <3>2. f.pos = g.pos
      BY <1>10, <2>3 DEF PointFollows
    <3>3. CASE h.left
      <4>1. f.pos.item = 0
        BY <1>3, <3>1, <3>2, <3>3 DEF Counted
      <4> QED
        BY <1>11, <2>0, <3>1, <3>3, <4>1 DEF Ready, Stuck
    <3>4. CASE ~h.left
      <4>1. f.pos.item = N - 1 /\ f.pos.unit # MAX_UINT32
        BY <1>3, <2>0, <3>1, <3>2, <3>4 DEF Counted
      <4>2. Len(r.items) = N
        BY <1>1, <1>9, <2>3, <3>4 DEF N
      <4> QED
        BY <1>11, <2>0, <3>1, <3>4, <4>1, <4>2 DEF Ready, Stuck
    <3> QED
      BY <3>3, <3>4
  <2> QED
    BY <2>1, <2>2, <2>3
<1> QED
  BY <1>14, <1>15, <1>16, Zenon DEF t

-----------------------------------------------------------------------------
(* node40_unite() *)

Creating(h, c) == [h EXCEPT !.create = c]
Holding(h, b)  == [h EXCEPT !.units_bytes = b]

\* g has the mode and the insert point of h.
Alike(g, h) == g \in HintSet /\ SameMode(g, h) /\ g.pos = h.pos /\ g.moved = h.moved

(* The hint differs in the mode of the pass only.                            *)
LEMMA CreatingAlike ==
  ASSUME NEW h \in HintSet, NEW c \in BOOLEAN
  PROVE  Alike(Creating(h, c), h) /\ Creating(h, c).create = c /\ Creating(h, c).units_bytes = h.units_bytes
<1> DEFINE g == Creating(h, c)
<1>1. /\ g \in HintSet /\ g.left = h.left /\ g.update = h.update /\ g.move = h.move /\ g.pos = h.pos
      /\ g.moved = h.moved /\ g.create = c /\ g.units_bytes = h.units_bytes
      /\ g.items_number = h.items_number /\ g.items_bytes = h.items_bytes
  BY DEF HintSet, Creating
<1> HIDE DEF g
<1> QED
  BY <1>1 DEF Alike, SameMode, g

(* The hint differs in the space of the pass only.                           *)
LEMMA HoldingAlike ==
  ASSUME NEW h \in HintSet, NEW b \in Nat
  PROVE  Alike(Holding(h, b), h) /\ Holding(h, b).create = h.create /\ Holding(h, b).units_bytes = b
<1> DEFINE g == Holding(h, b)
<1>1. /\ g \in HintSet /\ g.left = h.left /\ g.update = h.update /\ g.move = h.move /\ g.pos = h.pos
      /\ g.moved = h.moved /\ g.create = h.create /\ g.units_bytes = b
      /\ g.items_number = h.items_number /\ g.items_bytes = h.items_bytes
  BY DEF HintSet, Holding
<1> HIDE DEF g
<1> QED
  BY <1>1 DEF Alike, SameMode, g

(* What holds of the nodes under a hint holds under one that differs in      *)
(* mode and space only.                                                      *)
LEMMA AlikeSane ==
  ASSUME NEW src, NEW dst, NEW h, NEW v, Sane(src, dst, h, v), NEW g, Alike(g, h)
  PROVE  /\ Sane(src, dst, g, v)
         /\ \A t : Passed(t, g, v) => Passed(t, h, v)
         /\ Ready(src, dst, g) <=> Ready(src, dst, h)
<1>1. /\ g \in HintSet /\ g.left = h.left /\ g.update = h.update /\ g.move = h.move /\ g.pos = h.pos
      /\ g.moved = h.moved /\ g.items_number = h.items_number /\ g.items_bytes = h.items_bytes
  BY DEF Alike, SameMode
<1>2. NodeOK(src) /\ NodeOK(dst) /\ Borders(src, dst, h.left) /\ ModeOK(h) /\ LeftPoint(src, h)
      /\ Carries(src, dst, h, v)
  BY DEF Sane
<1>3. ModeOK(g)
  BY <1>1, <1>2 DEF ModeOK
<1>4. LeftPoint(src, g)
  BY <1>1, <1>2 DEF LeftPoint
<1>5. Borders(src, dst, g.left) /\ Carries(src, dst, g, v)
  BY <1>1, <1>2, CarriesOn
<1>6. Sane(src, dst, g, v)
  BY <1>1, <1>2, <1>3, <1>4, <1>5 DEF Sane
<1>7. ASSUME NEW t, Passed(t, g, v) PROVE Passed(t, h, v)
  <2>1. SameMode(t.hint, h)
    BY <1>1, <1>7 DEF Passed, SameMode
  <2> QED
    BY <1>7, <2>1 DEF Passed
<1>8. Stuck(src, dst, g) <=> Stuck(src, dst, h)
  BY <1>1, Zenon DEF Stuck
<1>9. Joined(src, dst, g.left) <=> Joined(src, dst, h.left)
  BY <1>1
<1> QED
  BY <1>6, <1>7, <1>8, <1>9, Zenon DEF Ready

(* Items that are in order and may not be merged go together.               *)
LEMMA NotMergeable ==
  ASSUME NEW src, NEW dst, NEW l \in BOOLEAN, Borders(src, dst, l), ~Mergeable(src, dst, l)
  PROVE  Joined(src, dst, l)
<1>1. CASE l
  BY <1>1, Zenon DEF Borders, Border, Mergeable, Joined, Joint, Tight
<1>2. CASE ~l
  BY <1>2, Zenon DEF Borders, Border, Mergeable, Joined, Joint, Tight
<1> QED
  BY <1>1, <1>2

(* The insert point may go along with the units, but only to the right.     *)
LEMMA PrepCounted ==
  ASSUME NEW src, NEW dst, NEW h, NEW v, Sane(src, dst, h, v), NEW i, NEW it, Source(src, h, i, it),
         h.units_bytes > 0, NEW dstlen \in Nat, NEW item \in Nat,
         NEW g, g = SentPoint(tail40_prep_shift(h, i, it, dstlen), item)
  PROVE  Counted(g, h, i, it, g.units_number)
<1> DEFINE p == tail40_prep_shift(h, i, it, dstlen)  k == p.units_number
<1>1. NodeOK(src) /\ h \in HintSet /\ ModeOK(h) /\ LeftPoint(src, h)
  BY DEF Sane
<1>2. /\ it.len \in Nat /\ i \in Nat /\ i = IF h.left THEN 0 ELSE Len(src.items) - 1
      /\ it = src.items[i + 1]
  BY <1>1, SourceFacts
<1>3. h.left /\ At(h, i) => h.pos.unit =< it.len
  <2> SUFFICES ASSUME h.left, At(h, i) PROVE h.pos.unit =< it.len
    OBVIOUS
  <2>1. h.update /\ h.pos.unit # MAX_UINT32 /\ h.pos.item = i
    BY DEF At
  <2>2. h.pos.unit =< src.items[h.pos.item + 1].len
    BY <1>1, <2>1 DEF LeftPoint
  <2> QED
    BY <1>2, <2>1, <2>2
<1>4. h.left => ~h.move
  BY <1>1 DEF ModeOK
<1>50. CountsUnits(p, h, i, it, k)
  BY <1>1, <1>2, <1>3, <1>4, PrepFacts
<1>5. /\ Prepared(p, h, k)
      /\ k \in Nat /\ k =< h.units_bytes /\ k =< it.len
      /\ k < h.units_bytes => k = Limit(h, i, it)
      /\ k =< Limit(h, i, it)
      /\ h.left => p.pos.unit = IF At(h, i) THEN h.pos.unit - k ELSE h.pos.unit
      /\ h.left /\ At(h, i) => k =< h.pos.unit
      /\ ~h.left /\ ~h.move => p.pos.unit = h.pos.unit
  BY <1>50, Zenon DEF CountsUnits
<1>6. g = IF p.update /\ p.moved THEN [p EXCEPT !.pos.item = item] ELSE p
  BY DEF SentPoint
<1> HIDE DEF p
<1>7. /\ p \in HintSet /\ SameMode(p, h) /\ p.create = h.create /\ p.pos.item = h.pos.item
      /\ p.moved => h.moved \/ h.move
  BY <1>5 DEF Prepared
<1>8. p.left = h.left /\ p.move = h.move /\ p.update = h.update
  BY <1>7 DEF SameMode
<1>9. p.moved => h.move
  BY <1>1, <1>7 DEF ModeOK
<1>10. CASE p.update /\ p.moved
  <2>1. g = [p EXCEPT !.pos.item = item]
    BY <1>6, <1>10
  <2>2. /\ g \in HintSet /\ g.left = p.left /\ g.move = p.move /\ g.update = p.update /\ g.create = p.create
        /\ g.moved = p.moved /\ g.units_number = p.units_number
        /\ g.items_number = p.items_number /\ g.items_bytes = p.items_bytes
    BY <1>7, <2>1 DEF HintSet
  <2>3. h.move /\ ~h.left
    BY <1>4, <1>9, <1>10
  <2>4. SameMode(g, h) /\ ModeOK(g)
    BY <1>7, <1>8, <2>2, <2>3 DEF SameMode, ModeOK
  <2> QED
    BY <1>5, <1>7, <2>2, <2>3, <2>4 DEF Counted
<1>11. CASE ~(p.update /\ p.moved)
  <2>1. g = p
    BY <1>6, <1>11
  <2>2. ModeOK(p)
    BY <1>4, <1>8, <1>9 DEF ModeOK
  <2> QED
    BY <1>5, <1>7, <2>1, <2>2 DEF Counted
<1> QED
  BY <1>10, <1>11

\* Where the insert point would go with the units
LandsAt(dst, h, create) ==
  IF ~h.left THEN 0 ELSE IF create THEN node40_items(dst) ELSE node40_items(dst) - 1

(* The two outcomes of node40_unite() on a border item that may go.          *)
LEMMA UniteItemIs ==
  ASSUME NEW src, NEW dst, NEW h \in HintSet, NEW i, NEW it, NEW neig,
         NEW joins \in BOOLEAN, NEW create \in BOOLEAN
  PROVE  LET g == Creating(h, ~joins)
             f == IF create THEN Holding(g, h.units_bytes - IhSize) ELSE g
         IN  UniteItem(St(src, dst, h), i, it, neig, joins, create) =
               IF ~joins # create \/ (create /\ h.units_bytes =< IhSize)
               THEN St(src, dst, g)
               ELSE SendUnits(St(src, dst,
                      SentPoint(tail40_prep_shift(f, i, it, IF joins THEN neig.len ELSE 0),
                                LandsAt(dst, h, create))), i, it)
<1> DEFINE s == St(src, dst, h)
           g == Creating(h, ~joins)
<1>1. s.hint = h /\ s.dst = dst
  BY StFields
<1>2. g = [s.hint EXCEPT !.create = ~joins]
  BY <1>1 DEF Creating
<1>3. g.units_bytes = h.units_bytes /\ g.left = h.left
  BY CreatingAlike DEF Alike, SameMode
<1>4. \A x : [s EXCEPT !.hint = x] = St(src, dst, x)
  BY StHint
<1>5. Holding(g, h.units_bytes - IhSize) = [g EXCEPT !.units_bytes = @ - IhSize]
  BY <1>3 DEF Holding
<1> HIDE DEF g
<1>6. LandsAt(dst, h, create) =
        IF ~g.left THEN 0 ELSE IF create THEN node40_items(s.dst) ELSE node40_items(s.dst) - 1
  BY <1>1, <1>3, Zenon DEF LandsAt
<1> DEFINE f == IF create THEN Holding(g, h.units_bytes - IhSize) ELSE g
           p == SentPoint(tail40_prep_shift(f, i, it, IF joins THEN neig.len ELSE 0), LandsAt(dst, h, create))
<1>7. f = IF create THEN [g EXCEPT !.units_bytes = @ - IhSize] ELSE g
  BY <1>5
<1> HIDE DEF s, f
<1>8. UniteItem(s, i, it, neig, joins, create) =
        IF ~joins # create \/ (create /\ g.units_bytes =< IhSize)
        THEN [s EXCEPT !.hint = g]
        ELSE SendUnits([s EXCEPT !.hint = p], i, it)
  <2> DEFINE c == [s.hint EXCEPT !.create = ~joins]
             e == [c EXCEPT !.units_bytes = @ - IhSize]
             to == IF ~c.left THEN 0
                   ELSE IF create THEN node40_items(s.dst) ELSE node40_items(s.dst) - 1
             q == SentPoint(tail40_prep_shift(IF create THEN e ELSE c, i, it, IF joins THEN neig.len ELSE 0), to)
  <2>1. UniteItem(s, i, it, neig, joins, create) =
          IF ~joins # create \/ (create /\ c.units_bytes =< IhSize)
          THEN [s EXCEPT !.hint = c]
          ELSE SendUnits([s EXCEPT !.hint = q], i, it)
    BY Zenon DEF UniteItem, node40_overhead
  <2>2. c = g
    BY <1>2
  <2> HIDE DEF c
  <2>3. f = (IF create THEN e ELSE c) /\ to = LandsAt(dst, h, create)
    BY <1>6, <1>7, <2>2, Zenon
  <2> HIDE DEF e, to
  <2>4. q = p
    BY <2>3, Zenon
  <2> HIDE DEF p, q
  <2> QED
    BY <2>1, <2>2, <2>4, Zenon
<1> HIDE DEF p
<1>9. [s EXCEPT !.hint = g] = St(src, dst, g) /\ [s EXCEPT !.hint = p] = St(src, dst, p)
  BY <1>4
<1>10. UniteItem(s, i, it, neig, joins, create) =
        IF ~joins # create \/ (create /\ h.units_bytes =< IhSize)
        THEN St(src, dst, g) ELSE SendUnits(St(src, dst, p), i, it)
  BY <1>3, <1>8, <1>9, Zenon
<1> QED
  BY <1>10, Zenon DEF s, g, p, f

\* What node40_unite() leaves behind
United(t, h, create, v) == Passed(t, h, v) /\ (~create => Ready(t.src, t.dst, t.hint))

(* Nothing but the control flags of the hint changes.                       *)
LEMMA NothingSent ==
  ASSUME NEW src, NEW dst, NEW h, NEW v, Sane(src, dst, h, v), NEW g, Alike(g, h), NEW create,
         ~create => Ready(src, dst, h)
  PROVE  United(St(src, dst, g), h, create, v)
<1>1. /\ Sane(src, dst, g, v) /\ (Ready(src, dst, g) <=> Ready(src, dst, h))
  BY AlikeSane
<1>2. SameMode(g, h)
  BY DEF Alike
<1>3. St(src, dst, g).src = src /\ St(src, dst, g).dst = dst /\ St(src, dst, g).hint = g
  BY StFields
<1> QED
  BY <1>1, <1>2, <1>3, Zenon DEF United, Passed

(* Units go as far as the hint f allows.                                    *)
LEMMA Sent ==
  ASSUME NEW src, NEW dst, NEW f, NEW v, Sane(src, dst, f, v), NEW i, NEW it, Source(src, f, i, it),
         f.units_bytes > 0, Space(src, dst, f, f.units_bytes),
         ~f.create => f.units_bytes = dst.free /\ ~f.move,
         NEW dstlen \in Nat, NEW item \in Nat
  PROVE  United(SendUnits(St(src, dst, SentPoint(tail40_prep_shift(f, i, it, dstlen), item)), i, it), f, f.create, v)
<1> DEFINE g == SentPoint(tail40_prep_shift(f, i, it, dstlen), item)
           t == SendUnits(St(src, dst, g), i, it)
<1>1. Counted(g, f, i, it, g.units_number)
  BY PrepCounted
<1> DEFINE k == g.units_number
<1> HIDE DEF g
<1>2. Passed(t, f, v) /\ (~f.create => Ready(t.src, t.dst, t.hint))
  <2>1. Counted(g, f, i, it, k)
    BY <1>1
  <2> HIDE DEF k
  <2>2. CASE k = 0
    BY <2>1, <2>2, SendNone
  <2>3. CASE k # 0
    BY <2>1, <2>3, SendSome
  <2> QED
    BY <2>2, <2>3
<1> QED
  BY <1>2, Zenon DEF United, g

(* node40_unite() on a border item keeps both nodes right.                   *)
LEMMA UniteItemOK ==
  ASSUME NEW src, NEW dst, NEW h, NEW v, Sane(src, dst, h, v), NEW i, NEW it, Source(src, h, i, it),
         h.units_bytes = dst.free, dst.free # 0, NEW neig, NEW joins \in BOOLEAN, NEW create \in BOOLEAN,
         joins <=> Mergeable(src, dst, h.left), joins => neig.len \in Nat,
         ~create /\ h.move => dst.items = <<>>
  PROVE  United(UniteItem(St(src, dst, h), i, it, neig, joins, create), h, create, v)
<1> DEFINE g == Creating(h, ~joins)
           f == IF create THEN Holding(g, h.units_bytes - IhSize) ELSE g
           item == LandsAt(dst, h, create)
           dstlen == IF joins THEN neig.len ELSE 0
           t == UniteItem(St(src, dst, h), i, it, neig, joins, create)
<1>1. h \in HintSet /\ NodeOK(dst) /\ Borders(src, dst, h.left) /\ dst.free \in Nat /\ dst.free > 0
  BY NodeConstants DEF Sane, NodeOK
<1>2. t = IF ~joins # create \/ (create /\ h.units_bytes =< IhSize)
          THEN St(src, dst, g)
          ELSE SendUnits(St(src, dst, SentPoint(tail40_prep_shift(f, i, it, dstlen), item)), i, it)
  <2> HIDE DEF t
  <2>1. UniteItem(St(src, dst, h), i, it, neig, joins, create) =
          IF ~joins # create \/ (create /\ h.units_bytes =< IhSize)
          THEN St(src, dst, g)
          ELSE SendUnits(St(src, dst, SentPoint(tail40_prep_shift(f, i, it, dstlen), item)), i, it)
    BY <1>1, UniteItemIs
  <2> QED
    BY <2>1, Zenon DEF t
<1>3. Alike(g, h) /\ g.create = ~joins /\ g.units_bytes = h.units_bytes
  BY <1>1, CreatingAlike
<1> HIDE DEF g, t, item
<1>4. CASE ~joins # create \/ (create /\ h.units_bytes =< IhSize)
  <2>1. t = St(src, dst, g)
    BY <1>2, <1>4
  <2>2. ~create => Ready(src, dst, h)
    <3> SUFFICES ASSUME ~create PROVE Ready(src, dst, h)
      OBVIOUS
    <3>1. ~joins
      BY <1>4
    <3>2. Joined(src, dst, h.left)
      BY <1>1, <3>1, NotMergeable, HintFields
    <3> QED
      BY <3>2 DEF Ready
  <2> QED
    BY <1>3, <2>1, <2>2, NothingSent DEF t
<1>5. CASE ~(~joins # create \/ (create /\ h.units_bytes =< IhSize))
  <2>1. create = ~joins /\ (create => h.units_bytes > IhSize)
    BY <1>1, <1>5, NodeConstants
  <2>2. t = SendUnits(St(src, dst, SentPoint(tail40_prep_shift(f, i, it, dstlen), item)), i, it)
    BY <1>2, <1>5
  <2>3. Alike(f, h) /\ f.create = create
        /\ f.units_bytes = (IF create THEN h.units_bytes - IhSize ELSE h.units_bytes)
    <3>1. CASE create
      <4>1. h.units_bytes - IhSize \in Nat
        BY <1>1, <2>1, <3>1, NodeConstants
      <4>2. g \in HintSet
        BY <1>3 DEF Alike
      <4>3. f = Holding(g, h.units_bytes - IhSize)
        BY <3>1
      <4>4. Alike(f, g) /\ f.create = g.create /\ f.units_bytes = h.units_bytes - IhSize
        BY <4>1, <4>2, <4>3, HoldingAlike
      <4>5. Alike(f, h)
        BY <1>3, <4>4 DEF Alike, SameMode
      <4> QED
        BY <1>3, <2>1, <3>1, <4>4, <4>5
    <3>2. CASE ~create
      BY <1>3, <2>1, <3>2
    <3> QED
      BY <3>1, <3>2
  <2> HIDE DEF f
  <2>4. f.left = h.left /\ f.move = h.move
    BY <2>3 DEF Alike, SameMode
  <2>5. Sane(src, dst, f, v) /\ (\A x : Passed(x, f, v) => Passed(x, h, v))
    BY <2>3, AlikeSane
  <2>6. Source(src, f, i, it)
    <3>1. f.update = h.update /\ f.pos = h.pos
      BY <2>3 DEF Alike, SameMode
    <3>2. OffBorder(src, f) <=> OffBorder(src, h)
      BY <2>4, <3>1, Zenon DEF OffBorder
    <3> QED
      BY <2>4, <3>2 DEF Source
  <2>7. f.units_bytes > 0
    BY <1>1, <2>1, <2>3, NodeConstants
  <2>8. Space(src, dst, f, f.units_bytes)
    <3>1. CASE create
      <4>1. f.units_bytes + IhSize =< dst.free
        BY <1>1, <2>3, <3>1, NodeConstants
      <4>2. Joined(src, dst, f.left)
        BY <1>1, <2>1, <2>4, <3>1, NotMergeable, HintFields
      <4> QED
        BY <2>3, <3>1, <4>1, <4>2 DEF Space
    <3>2. CASE ~create
      <4>1. f.units_bytes =< dst.free
        BY <1>1, <2>3, <3>2
      <4>2. Mergeable(src, dst, f.left)
        BY <2>1, <2>4, <3>2
      <4> QED
        BY <2>3, <3>2, <4>1, <4>2 DEF Space
    <3> QED
      BY <3>1, <3>2
  <2>9. ~f.create => f.units_bytes = dst.free /\ ~f.move
    <3> SUFFICES ASSUME ~create PROVE f.units_bytes = dst.free /\ ~f.move
      BY <2>3
    <3>1. dst.items # <<>>
      BY <2>1 DEF Mergeable
    <3> QED
      BY <2>3, <2>4, <3>1
  <2>10. dstlen \in Nat
    OBVIOUS
  <2>11. item \in Nat
    <3>1. dst.items \in Seq(GoodItems)
      BY <1>1 DEF NodeOK
    <3>2. Len(dst.items) \in Nat /\ (dst.items # <<>> => Len(dst.items) > 0)
      BY <3>1, EmptySeq
    <3>3. ~create => dst.items # <<>>
      BY <2>1 DEF Mergeable
    <3> QED
      BY <3>2, <3>3 DEF item, LandsAt, node40_items
  <2> HIDE DEF dstlen
  <2>12. United(t, f, f.create, v)
    BY <2>2, <2>5, <2>6, <2>7, <2>8, <2>9, <2>10, <2>11, Sent
  <2> QED
    BY <2>3, <2>5, <2>12, Zenon DEF United, t
<1> QED
  BY <1>4, <1>5 DEF t

\* What makes node40_unite() do nothing
Barred(src, dst, h) ==
  \/ node40_items(src) = 0 \/ dst.free = 0
  \/ h.update /\ h.pos.unit = MAX_UINT32 /\ h.pos.item = IF h.left THEN 0 ELSE node40_items(src)
  \/ ~Splittable(Item(src, node40_border(src, h.left)))

\* Do the items at the border join?
MayJoin(dst, l, neig, it) ==
  node40_items(dst) > 0 /\ IF l THEN reiser4_item_mergeable(neig, it) ELSE reiser4_item_mergeable(it, neig)

(* The early returns of node40_unite(), and what it does past them.          *)
LEMMA UniteIs ==
  ASSUME NEW src, NEW dst, NodeOK(dst), NEW h \in HintSet, NEW create
  PROVE  LET g == Holding(h, dst.free)
             i == node40_border(src, h.left)
             it == Item(src, i)
             neig == Item(dst, node40_border(dst, ~h.left))
             joins == MayJoin(dst, h.left, neig, it)
         IN  node40_unite(St(src, dst, h), create) =
               IF Barred(src, dst, h) THEN St(src, dst, g)
               ELSE UniteItem(St(src, dst, g), i, it, neig, joins, create)
<1> DEFINE s == St(src, dst, h)
           g == Holding(h, dst.free)
<1>1. s.hint = h /\ s.dst = dst /\ s.src = src
  BY StFields
<1>2. g = [s.hint EXCEPT !.units_bytes = node40_space(s.dst)]
  BY <1>1 DEF Holding, node40_space
<1>3. dst.free \in Nat
  BY DEF NodeOK
<1>4. g.left = h.left /\ g.update = h.update /\ g.pos = h.pos /\ g.units_bytes = dst.free
  BY <1>3, HoldingAlike DEF Alike, SameMode
<1>5. [s EXCEPT !.hint = g] = St(src, dst, g)
  BY StHint
<1>6. St(src, dst, g).dst = dst /\ St(src, dst, g).hint = g
  BY StFields
<1> DEFINE c == [s.hint EXCEPT !.units_bytes = node40_space(s.dst)]
           j == node40_border(s.src, c.left)
           bar == \/ node40_items(s.src) = 0 \/ c.units_bytes = 0
                  \/ /\ c.update /\ c.pos.unit = MAX_UINT32
                     /\ c.pos.item = IF c.left THEN 0 ELSE node40_items(s.src)
                  \/ ~Splittable(Item(s.src, j))
           e == [s EXCEPT !.hint = c]
<1>7. node40_unite(s, create) =
        IF bar THEN e
        ELSE UniteBorder(e, j, Item(s.src, j), Item(s.dst, node40_border(s.dst, ~c.left)), create)
  BY DEF node40_unite
<1>8. c = g
  BY <1>2
<1> HIDE DEF c, g, s
<1>9. e = St(src, dst, g)
  BY <1>5, <1>8
<1>10. j = node40_border(src, h.left) /\ c.left = h.left
  BY <1>1, <1>4, <1>8
<1>11. bar <=> Barred(src, dst, h)
  BY <1>1, <1>4, <1>8, <1>10, Zenon DEF Barred
<1> HIDE DEF e, j, bar
<1> DEFINE i == node40_border(src, h.left)
           it == Item(src, i)
           neig == Item(dst, node40_border(dst, ~h.left))
           joins == MayJoin(dst, h.left, neig, it)
<1>12. UniteBorder(St(src, dst, g), i, it, neig, create) =
         UniteItem(St(src, dst, g), i, it, neig, joins, create)
  <2> HIDE DEF i, it, neig
  <2> QED
    BY <1>4, <1>6, Zenon DEF UniteBorder, joins, MayJoin
<1>13. node40_unite(s, create) =
         IF Barred(src, dst, h) THEN St(src, dst, g) ELSE UniteBorder(St(src, dst, g), i, it, neig, create)
  BY <1>1, <1>7, <1>9, <1>10, <1>11, Zenon
<1> HIDE DEF i, it, neig, joins
<1>14. node40_unite(s, create) =
         IF Barred(src, dst, h) THEN St(src, dst, g) ELSE UniteItem(St(src, dst, g), i, it, neig, joins, create)
  BY <1>12, <1>13, Zenon
<1> QED
  BY <1>14, Zenon DEF s, g, i, it, neig, joins

(* Nothing is done only where whole items may follow.                       *)
LEMMA BarredReady ==
  ASSUME NEW src, NEW dst, NEW h, NEW v, Sane(src, dst, h, v), Barred(src, dst, h), h.move => dst.items = <<>>
  PROVE  Ready(src, dst, h)
<1>1. NodeOK(src) /\ h \in HintSet /\ Borders(src, dst, h.left) /\ ModeOK(h) /\ src.items \in Seq(GoodItems)
  BY DEF Sane, NodeOK
<1>2. Len(src.items) \in Nat /\ (src.items # <<>> <=> Len(src.items) > 0)
  BY <1>1, EmptySeq
<1>3. CASE src.items = <<>>
  BY <1>3 DEF Ready, Joined, Joint
<1>4. CASE dst.free = 0
  BY <1>4 DEF Ready, Stuck
<1>5. CASE h.update /\ h.pos.unit = MAX_UINT32 /\ h.pos.item = IF h.left THEN 0 ELSE node40_items(src)
  <2>1. CASE h.move
    BY <2>1 DEF Ready, Joined, Joint
  <2>2. CASE ~h.move
    <3>1. CASE h.left
      BY <1>5, <2>2, <3>1, Zenon DEF Ready, Stuck
    <3>2. CASE ~h.left
      <4>1. h.pos.item >= Len(src.items)
        BY <1>2, <1>5, <3>2 DEF node40_items
      <4> QED
        BY <1>5, <2>2, <3>2, <4>1, Zenon DEF Ready, Stuck
    <3> QED
      BY <3>1, <3>2
  <2> QED
    BY <2>1, <2>2
<1>6. CASE src.items # <<>> /\ ~Splittable(Item(src, node40_border(src, h.left)))
  <2> DEFINE i == node40_border(src, h.left)  it == Item(src, i)
  <2>1. (h.left => i + 1 = 1) /\ (~h.left => i + 1 = Len(src.items))
    BY <1>2 DEF node40_border, node40_items
  <2> HIDE DEF i
  <2>2. (h.left => it = src.items[1]) /\ (~h.left => it = src.items[Len(src.items)])
    BY <2>1, Zenon DEF Item
  <2>3. it.kind # "tail"
    BY <1>6 DEF Splittable, i
  <2> HIDE DEF it
  <2>4. ~Mergeable(src, dst, h.left)
    BY <2>2, <2>3 DEF Mergeable, reiser4_item_mergeable, Splittable
  <2>5. Joined(src, dst, h.left)
    BY <1>1, <2>4, NotMergeable, HintFields
  <2> QED
    BY <2>5 DEF Ready
<1>7. node40_items(src) = 0 => src.items = <<>>
  BY <1>2 DEF node40_items
<1> QED
  BY <1>3, <1>4, <1>5, <1>6, <1>7, Zenon DEF Barred

(* node40_unite() keeps the nodes in order, and the first pass leaves them  *)
(* such that whole items may follow.                                        *)
LEMMA UniteOK ==
  ASSUME NEW src, NEW dst, NEW h, NEW v, Sane(src, dst, h, v), NEW create \in BOOLEAN,
         ~create /\ h.move => dst.items = <<>>
  PROVE  United(node40_unite(St(src, dst, h), create), h, create, v)
<1> DEFINE g == Holding(h, dst.free)
           i == node40_border(src, h.left)
           it == Item(src, i)
           neig == Item(dst, node40_border(dst, ~h.left))
           joins == MayJoin(dst, h.left, neig, it)
           t == node40_unite(St(src, dst, h), create)
<1>1. h \in HintSet /\ h.left \in BOOLEAN /\ NodeOK(dst) /\ dst.free \in Nat /\ dst.items \in Seq(GoodItems)
      /\ NodeOK(src) /\ src.items \in Seq(GoodItems)
  BY HintFields DEF Sane, NodeOK
<1>2. t = IF Barred(src, dst, h) THEN St(src, dst, g) ELSE UniteItem(St(src, dst, g), i, it, neig, joins, create)
  <2> HIDE DEF t, i, it, neig, joins, g
  <2>1. node40_unite(St(src, dst, h), create) =
          IF Barred(src, dst, h) THEN St(src, dst, g) ELSE UniteItem(St(src, dst, g), i, it, neig, joins, create)
    BY <1>1, UniteIs DEF i, it, neig, joins, g
  <2> QED
    BY <2>1, Zenon DEF t
<1>3. Alike(g, h) /\ g.units_bytes = dst.free
  BY <1>1, HoldingAlike
<1>4. Sane(src, dst, g, v) /\ (\A x : Passed(x, g, v) => Passed(x, h, v))
  BY <1>3, AlikeSane
<1>5. g.left = h.left /\ g.move = h.move
  BY <1>3 DEF Alike, SameMode
<1> HIDE DEF g, t, joins
<1>6. CASE Barred(src, dst, h)
  <2>1. ~create => Ready(src, dst, h)
    BY <1>6, BarredReady
  <2>2. t = St(src, dst, g)
    BY <1>2, <1>6
  <2> QED
    BY <1>3, <2>1, <2>2, NothingSent DEF t
<1>7. CASE ~Barred(src, dst, h)
  <2>1. t = UniteItem(St(src, dst, g), i, it, neig, joins, create)
    BY <1>2, <1>7
  <2>2. node40_items(src) # 0 /\ dst.free # 0 /\ Splittable(it)
    BY <1>7, Zenon DEF Barred
  <2>3. src.items # <<>>
    BY <1>1, <2>2, EmptySeq DEF node40_items
  <2>4. Source(src, g, i, it)
    <3>1. g.update = h.update /\ g.pos = h.pos
      BY <1>3 DEF Alike, SameMode
    <3>2. OffBorder(src, g)
      BY <1>5, <1>7, <3>1, Zenon DEF Barred, OffBorder, node40_items
    <3> QED
      BY <1>5, <2>2, <2>3, <3>2, Zenon DEF Source, Splittable
  <2> DEFINE M == Len(dst.items)
  <2>5. M \in Nat /\ node40_items(dst) = M /\ (M > 0 <=> dst.items # <<>>)
    BY <1>1, EmptySeq DEF node40_items
  <2>6. neig = dst.items[IF h.left THEN M ELSE 1]
    <3>1. node40_border(dst, ~h.left) + 1 = IF h.left THEN M ELSE 1
      BY <1>1, <2>5 DEF node40_border
    <3> QED
      BY <3>1, Zenon DEF Item
  <2>7. it = src.items[IF h.left THEN 1 ELSE Len(src.items)]
    <3>1. i + 1 = IF h.left THEN 1 ELSE Len(src.items)
      BY <1>1, EmptySeq DEF node40_border, node40_items
    <3> QED
      BY <3>1, Zenon DEF Item
  <2> HIDE DEF neig, it, M
  <2>8. joins <=> Mergeable(src, dst, h.left)
    BY <2>3, <2>5, <2>6, <2>7, Zenon DEF joins, MayJoin, Mergeable, M
  <2>9. joins => neig.len \in Nat
    <3> SUFFICES ASSUME joins PROVE neig.len \in Nat
      OBVIOUS
    <3>1. M > 0
      BY <2>5 DEF joins, MayJoin
    <3>2. (IF h.left THEN M ELSE 1) \in 1 .. M
      BY <2>5, <3>1
    <3>3. neig \in GoodItems
      BY <1>1, <2>6, <3>2, ElementOfSeq DEF M
    <3> QED
      BY <3>3, ItemFacts
  <2>10. joins \in BOOLEAN
    BY DEF joins, MayJoin
  <2>11. (joins <=> Mergeable(src, dst, g.left)) /\ (~create /\ g.move => dst.items = <<>>)
    BY <1>5, <2>8
  <2> HIDE DEF i
  <2>12. United(t, g, create, v)
    BY <1>3, <1>4, <2>1, <2>2, <2>4, <2>9, <2>10, <2>11, UniteItemOK
  <2> QED
    BY <1>4, <2>12, Zenon DEF United, t
<1> QED
  BY <1>6, <1>7 DEF t

-----------------------------------------------------------------------------
(* node40_predict() *)

From(src, l, c) == IF l THEN 0 ELSE Len(src.items) - c

\* The c items of src that go first, and the next one
Taken(src, l, c) == SubSeq(src.items, From(src, l, c) + 1, From(src, l, c) + c)

NextItem(src, l, c) == Item(src, IF l THEN c ELSE (Len(src.items) - c) - 1)

(* The items taken with the next one.                                       *)
LEMMA TakenNext ==
  ASSUME NEW src, src.items \in Seq(GoodItems), NEW l \in BOOLEAN, NEW c \in Nat, c < Len(src.items),
         NEW it, it = NextItem(src, l, c)
  PROVE  /\ it \in GoodItems /\ Taken(src, l, c) \in Seq(GoodItems)
         /\ Taken(src, l, c + 1) = IF l THEN Taken(src, l, c) \o <<it>> ELSE <<it>> \o Taken(src, l, c)
<1> DEFINE s == src.items  N == Len(src.items)
<1>1. s \in Seq(GoodItems) /\ N \in Nat /\ N = Len(s)
  OBVIOUS
<1> HIDE DEF s, N
<1>2. c < N
  BY DEF N
<1>3. CASE l
  <2>1. it = s[c + 1]
    BY <1>3, Zenon DEF NextItem, Item, s
  <2>2. c + 1 \in 1 .. Len(s)
    BY <1>1, <1>2
  <2>3. it \in GoodItems
    BY <1>1, <2>1, <2>2, ElementOfSeq
  <2>4. /\ Taken(src, l, c) = SubSeq(s, 0 + 1, 0 + c)
        /\ Taken(src, l, c + 1) = SubSeq(s, 0 + 1, 0 + (c + 1))
    BY <1>3, Zenon DEF Taken, From, s
  <2>5. 0 + 1 = 1 /\ 0 + c = c /\ 0 + (c + 1) = c + 1 /\ (c + 1) - 1 = c
    OBVIOUS
  <2>6. 1 \in 1 .. Len(s) /\ c + 1 \in 1 .. Len(s)
    BY <1>1, <1>2
  <2>7. SubSeq(s, 1, c + 1) = SubSeq(s, 1, (c + 1) - 1) \o <<s[c + 1]>>
    BY <1>1, <2>6, SubSeqRecursiveSecond
  <2>8. SubSeq(s, 1, c) \in Seq(GoodItems)
    <3>1. \A i \in 1 .. c : s[i] \in GoodItems
      BY <1>1, <1>2, ElementOfSeq
    <3> QED
      BY <3>1, SubSeqProperties
  <2> QED
    BY <1>3, <2>1, <2>3, <2>4, <2>5, <2>7, <2>8, Zenon
<1>4. CASE ~l
  <2> DEFINE p == N - c
  <2>1. p \in 1 .. Len(s) /\ (p - 1) + 1 = p /\ p + c = N /\ N - (c + 1) = p - 1 /\ (p - 1) + (c + 1) = N
    BY <1>1, <1>2
  <2>2. it = s[(p - 1) + 1]
    BY <1>4, Zenon DEF NextItem, Item, s, N
  <2>3. it = s[p]
    BY <2>1, <2>2
  <2>4. /\ Taken(src, l, c) = SubSeq(s, p + 1, p + c)
        /\ Taken(src, l, c + 1) = SubSeq(s, (N - (c + 1)) + 1, (N - (c + 1)) + (c + 1))
    BY <1>4, Zenon DEF Taken, From, s, N
  <2> HIDE DEF p
  <2>5. /\ Taken(src, l, c) = SubSeq(s, p + 1, N)
        /\ Taken(src, l, c + 1) = SubSeq(s, p, N)
    BY <2>1, <2>4
  <2>6. N \in p .. Len(s)
    BY <1>1, <2>1
  <2>7. SubSeq(s, p, N) = <<s[p]>> \o SubSeq(s, p + 1, N)
    BY <1>1, <2>1, <2>6, SubSeqRecursiveFirst
  <2>8. SubSeq(s, p + 1, N) \in Seq(GoodItems)
    <3>1. \A i \in p + 1 .. N : s[i] \in GoodItems
      BY <1>1, <2>1, ElementOfSeq
    <3>2. p + 1 \in Int /\ N \in Int
      BY <1>1, <2>1
    <3> QED
      BY <3>1, <3>2, SubSeqProperties
  <2>9. it \in GoodItems
    BY <1>1, <2>1, <2>3, ElementOfSeq
  <2> QED
    BY <1>4, <2>3, <2>5, <2>7, <2>8, <2>9, Zenon
<1> QED
  BY <1>3, <1>4

(* What the next item adds to the count.                                    *)
LEMMA TakenWeight ==
  ASSUME NEW src, src.items \in Seq(GoodItems), NEW l \in BOOLEAN, NEW c \in Nat, c < Len(src.items),
         NEW it, it = NextItem(src, l, c)
  PROVE  /\ it.len \in Nat /\ it.len > 0
         /\ SumLen(Taken(src, l, c)) \in Nat /\ Weight(Taken(src, l, c)) \in Nat
         /\ SumLen(Taken(src, l, c + 1)) = SumLen(Taken(src, l, c)) + it.len
         /\ Weight(Taken(src, l, c + 1)) = Weight(Taken(src, l, c)) + (it.len + IhSize)
<1> DEFINE a == Taken(src, l, c)  b == Taken(src, l, c + 1)  o == <<it>>
<1>1. it \in GoodItems /\ a \in Seq(GoodItems) /\ b = IF l THEN a \o o ELSE o \o a
  BY TakenNext
<1> HIDE DEF a, b
<1>2. it \in ItemSet /\ a \in Seq(ItemSet) /\ o \in Seq(ItemSet)
  BY <1>1, GoodSeqs DEF GoodItems
<1>3. SumLen(o) = it.len /\ Weight(o) = it.len + IhSize /\ it.len \in Nat /\ it.len > 0
  BY <1>2, SumOne, WeightOne
<1> HIDE DEF o
<1>4. /\ SumLen(a \o o) = SumLen(a) + SumLen(o) /\ SumLen(o \o a) = SumLen(o) + SumLen(a)
      /\ SumLen(a) \in Nat /\ SumLen(o) \in Nat
  BY <1>2, SumConcat
<1>5. /\ Weight(a \o o) = Weight(a) + Weight(o) /\ Weight(o \o a) = Weight(o) + Weight(a)
      /\ Weight(a) \in Nat /\ Weight(o) \in Nat
  BY <1>2, WeightConcat
<1>6. SumLen(b) = SumLen(a) + SumLen(o) /\ Weight(b) = Weight(a) + Weight(o)
  BY <1>1, <1>4, <1>5
<1> QED
  BY <1>3, <1>4, <1>5, <1>6 DEF a, b

(* No items are taken when none is counted.                                  *)
LEMMA TakenNone ==
  ASSUME NEW src, src.items \in Seq(GoodItems), NEW l \in BOOLEAN
  PROVE  Taken(src, l, 0) = <<>>
<1> DEFINE f == From(src, l, 0)
<1>1. f \in Int
  BY DEF From
<1> HIDE DEF f
<1>2. f + 0 < f + 1 /\ f + 1 \in Int /\ f + 0 \in Int
  BY <1>1
<1>3. SubSeq(src.items, f + 1, f + 0) = <<>>
  BY <1>2, SubSeqEmpty
<1> QED
  BY <1>3, Zenon DEF Taken, f

\* What a turn of the loop makes of h, of which the item it may go next
Turned(r, h, si, it) ==
  /\ r = [go |-> r.go, hint |-> r.hint] /\ r.go \in BOOLEAN
  /\ r.hint \in HintSet /\ SameMode(r.hint, h) /\ r.hint.units_bytes = h.units_bytes /\ ModeOK(r.hint)
  /\ r.go => it.len + IhSize =< h.units_bytes
  /\ h.left /\ h.update => /\ r.hint.pos.unit = h.pos.unit
                           /\ r.hint.pos.item = IF r.go THEN h.pos.item - 1 ELSE h.pos.item
                           /\ r.go => h.pos.item # 0
  /\ ~h.left /\ ~h.move => r.hint.pos = h.pos
  /\ r.go /\ ~h.left /\ h.update /\ ~h.move =>
       h.pos.item < si /\ (h.pos.item = si - 1 => h.pos.unit = MAX_UINT32)

\* The insert point in another item, where it goes along or where it stays
Moved(h, item)  == [h EXCEPT !.moved = TRUE, !.pos.item = item]
Shifting(h, item) == [h EXCEPT !.pos.item = item]
Turn(go, h) == [go |-> go, hint |-> h]

(* The hint when the insert point leaves with an item.                       *)
LEMMA MovedIs ==
  ASSUME NEW h \in HintSet, NEW item \in Nat, h.move
  PROVE  LET g == Moved(h, item)
         IN  g \in HintSet /\ SameMode(g, h) /\ g.units_bytes = h.units_bytes /\ (~h.left => ModeOK(g))
<1> DEFINE g == Moved(h, item)
<1>1. /\ g \in HintSet /\ g.left = h.left /\ g.update = h.update /\ g.move = h.move
      /\ g.items_number = h.items_number /\ g.items_bytes = h.items_bytes /\ g.units_bytes = h.units_bytes
  BY DEF HintSet, Moved
<1> HIDE DEF g
<1>2. SameMode(g, h)
  BY <1>1 DEF SameMode
<1>3. ~h.left => ModeOK(g)
  BY <1>1 DEF ModeOK
<1> QED
  BY <1>1, <1>2, <1>3 DEF g

(* The hint when an item in front of the insert point leaves.                *)
LEMMA ShiftingIs ==
  ASSUME NEW h \in HintSet, NEW item \in Nat
  PROVE  LET g == Shifting(h, item)
         IN  /\ g \in HintSet /\ SameMode(g, h) /\ g.units_bytes = h.units_bytes /\ g.moved = h.moved
             /\ g.pos.item = item /\ g.pos.unit = h.pos.unit /\ (ModeOK(h) => ModeOK(g))
<1> DEFINE g == Shifting(h, item)
<1>1. /\ g \in HintSet /\ g.left = h.left /\ g.update = h.update /\ g.move = h.move /\ g.moved = h.moved
      /\ g.items_number = h.items_number /\ g.items_bytes = h.items_bytes /\ g.units_bytes = h.units_bytes
      /\ g.pos.item = item /\ g.pos.unit = h.pos.unit
  BY DEF HintSet, Shifting
<1> HIDE DEF g
<1>2. SameMode(g, h)
  BY <1>1 DEF SameMode
<1>3. ModeOK(h) => ModeOK(g)
  BY <1>1 DEF ModeOK
<1> QED
  BY <1>1, <1>2, <1>3 DEF g

(* A turn in which the insert point stays as it is.                          *)
LEMMA SameTurn ==
  ASSUME NEW h \in HintSet, ModeOK(h), NEW si, NEW it, NEW go \in BOOLEAN,
         go => it.len + IhSize =< h.units_bytes,
         go /\ h.update /\ ~h.move => ~h.left /\ h.pos.item < si /\ (h.pos.item = si - 1 => h.pos.unit = MAX_UINT32),
         h.left /\ go => ~h.update
  PROVE  Turned(Turn(go, h), h, si, it)
<1> DEFINE r == Turn(go, h)
<1>1. r = [go |-> r.go, hint |-> r.hint] /\ r.go = go /\ r.hint = h
  BY DEF Turn
<1>2. SameMode(h, h)
  BY DEF SameMode
<1> HIDE DEF r
<1> QED
  BY <1>1, <1>2, Zenon DEF Turned, r

(* One turn of the loop keeps account of the insert point.                  *)
LEMMA TurnFacts ==
  ASSUME NEW h \in HintSet, ModeOK(h), NEW si \in Nat, si > 0, NEW di \in Nat,
         NEW it, it.len \in Nat, NEW first
  PROVE  Turned(PredictTurn(h, si, di, it, first, h.units_bytes), h, si, it)
<1> DEFINE r == PredictTurn(h, si, di, it, first, h.units_bytes)
           p == h.pos
<1>1. /\ p.item \in Nat /\ p.unit \in Nat /\ h.units_bytes \in Nat /\ IhSize \in Nat
      /\ h.left \in BOOLEAN /\ h.update \in BOOLEAN /\ h.move \in BOOLEAN
  BY HintFields, NodeConstants
<1>2. (h.left => ~h.move) /\ (h.moved => h.move)
  BY DEF ModeOK
<1>3. CASE (~h.move /\ ~h.left /\ p.item >= si) \/ h.units_bytes < it.len + IhSize
  <2>1. r = Turn(FALSE, h)
    BY <1>3, Zenon DEF PredictTurn, Turn, node40_overhead
  <2> QED
    BY <2>1, SameTurn DEF r
<1> SUFFICES ASSUME ~(~h.move /\ ~h.left /\ p.item >= si), ~(h.units_bytes < it.len + IhSize)
             PROVE  Turned(r, h, si, it)
  BY <1>3
<1>4. it.len + IhSize =< h.units_bytes /\ (~h.move /\ ~h.left => p.item < si)
  BY <1>1
<1>5. CASE ~h.update
  <2>1. r = Turn(TRUE, h)
    BY <1>5, Zenon DEF PredictTurn, Turn, node40_overhead
  <2> QED
    BY <1>4, <1>5, <2>1, SameTurn DEF r
<1>6. CASE h.update /\ h.left
  <2>1. CASE p.item # 0
    <3> DEFINE g == Shifting(h, p.item - 1)
    <3>1. p.item - 1 \in Nat
      BY <1>1, <2>1
    <3>2. r = Turn(TRUE, g)
      BY <1>6, <2>1, Zenon DEF PredictTurn, Turn, node40_overhead, Shifting
    <3>3. g \in HintSet /\ SameMode(g, h) /\ g.units_bytes = h.units_bytes /\ ModeOK(g)
          /\ g.pos.item = p.item - 1 /\ g.pos.unit = p.unit
      BY <3>1, ShiftingIs
    <3> HIDE DEF g, r
    <3>4. r = [go |-> r.go, hint |-> r.hint] /\ r.go = TRUE /\ r.hint = g
      BY <3>2 DEF Turn
    <3> QED
      BY <1>4, <1>6, <2>1, <3>3, <3>4, Zenon DEF Turned
  <2>2. CASE p.item = 0
    <3>1. r = Turn(FALSE, h)
      BY <1>2, <1>6, <2>2, Zenon DEF PredictTurn, Turn, node40_overhead
    <3> QED
      BY <3>1, SameTurn DEF r
  <2> QED
    BY <2>1, <2>2
<1>7. CASE h.update /\ ~h.left
  <2> DEFINE g == Moved(h, 0)
  <2>1. h.move => g \in HintSet /\ SameMode(g, h) /\ g.units_bytes = h.units_bytes /\ ModeOK(g)
    <3>1. ASSUME NEW item \in Nat, h.move
          PROVE  Moved(h, item) \in HintSet /\ SameMode(Moved(h, item), h)
                 /\ Moved(h, item).units_bytes = h.units_bytes /\ ModeOK(Moved(h, item))
      BY <1>7, <3>1, MovedIs
    <3>2. 0 \in Nat
      OBVIOUS
    <3> QED
      BY <3>1, <3>2, Zenon DEF g
  <2>2. ASSUME h.move, NEW go \in BOOLEAN, r = Turn(go, g)
        PROVE  Turned(r, h, si, it)
    <3> HIDE DEF g, r
    <3>1. r = [go |-> r.go, hint |-> r.hint] /\ r.go = go /\ r.hint = g
      BY <2>2 DEF Turn
    <3> QED
      BY <1>4, <1>7, <2>1, <2>2, <3>1, Zenon DEF Turned
  <2>3. CASE p.item < si - 1
    <3>1. r = Turn(TRUE, h)
      BY <1>7, <2>3, Zenon DEF PredictTurn, Turn, node40_overhead
    <3>2. p.item # si - 1
      BY <1>1, <2>3
    <3> QED
      BY <1>4, <1>7, <3>1, <3>2, SameTurn DEF r
  <2>4. CASE ~(p.item < si - 1) /\ p.item = si - 1
    <3>1. CASE h.move /\ p.unit \in {MAX_UINT32, 0}
      <4>1. r = Turn(TRUE, g)
        BY <1>7, <2>4, <3>1, Zenon DEF PredictTurn, Turn, node40_overhead, Moved
      <4> QED
        BY <2>2, <3>1, <4>1
    <3>2. CASE ~(h.move /\ p.unit \in {MAX_UINT32, 0}) /\ p.unit # MAX_UINT32
      <4>1. r = Turn(FALSE, h)
        BY <1>7, <2>4, <3>2, Zenon DEF PredictTurn, Turn, node40_overhead
      <4> QED
        BY <4>1, SameTurn DEF r
    <3>3. CASE ~(h.move /\ p.unit \in {MAX_UINT32, 0}) /\ p.unit = MAX_UINT32
      <4>1. r = Turn(TRUE, h)
        BY <1>7, <2>4, <3>3, Zenon DEF PredictTurn, Turn, node40_overhead
      <4> QED
        BY <1>4, <1>7, <3>3, <4>1, SameTurn DEF r
    <3> QED
      BY <3>1, <3>2, <3>3
  <2>5. CASE ~(p.item < si - 1) /\ p.item # si - 1
    <3>1. CASE h.move
      <4>1. r = Turn(FALSE, g)
        BY <1>7, <2>5, <3>1, Zenon DEF PredictTurn, Turn, node40_overhead, Moved
      <4> QED
        BY <2>2, <3>1, <4>1
    <3>2. CASE ~h.move
      <4>1. r = Turn(FALSE, h)
        BY <1>7, <2>5, <3>2, Zenon DEF PredictTurn, Turn, node40_overhead
      <4> QED
        BY <4>1, SameTurn DEF r
    <3> QED
      BY <3>1, <3>2
  <2> QED
    BY <2>3, <2>4, <2>5
<1> QED
  BY <1>1, <1>5, <1>6, <1>7

\* The hint g counts items that may go from src to dst, having started as h.
Counting(src, dst, h, g) ==
  /\ g \in HintSet /\ ModeOK(g)
  /\ g.left = h.left /\ g.update = h.update /\ g.move = h.move
  /\ g.items_number =< Len(src.items)
  /\ g.items_bytes = SumLen(Taken(src, h.left, g.items_number))
  /\ g.units_bytes + Weight(Taken(src, h.left, g.items_number)) = dst.free
  /\ h.left /\ h.update => g.pos.item + g.items_number = h.pos.item /\ g.pos.unit = h.pos.unit
  /\ ~h.left /\ ~h.move => g.pos = h.pos
  /\ ~h.left /\ h.update /\ ~h.move /\ g.items_number # 0 => Spared(src.items, h.pos, g.items_number)
  /\ Stuck(src, dst, h) => g.items_number = 0

TakeItem(h, it) ==
  [h EXCEPT !.items_number = @ + 1, !.items_bytes = @ + it.len, !.units_bytes = @ - (it.len + IhSize)]

(* The hint with one more item counted.                                      *)
LEMMA TakeItemIs ==
  ASSUME NEW h \in HintSet, NEW it, it.len \in Nat, it.len + IhSize =< h.units_bytes
  PROVE  LET g == TakeItem(h, it)
         IN  /\ g \in HintSet /\ g.left = h.left /\ g.update = h.update /\ g.move = h.move
             /\ g.moved = h.moved /\ g.pos = h.pos
             /\ g.items_number = h.items_number + 1 /\ g.items_bytes = h.items_bytes + it.len
             /\ g.units_bytes = h.units_bytes - (it.len + IhSize)
<1> DEFINE n == h.items_number + 1  b == h.items_bytes + it.len  u == h.units_bytes - (it.len + IhSize)
<1>1. h.items_number \in Nat /\ h.items_bytes \in Nat /\ h.units_bytes \in Nat /\ IhSize \in Nat
  BY HintFields, NodeConstants
<1>2. n \in Nat /\ b \in Nat /\ u \in Nat
  BY <1>1
<1>3. TakeItem(h, it) = [h EXCEPT !.items_number = n, !.items_bytes = b, !.units_bytes = u]
  BY DEF TakeItem
<1> HIDE DEF n, b, u
<1>4. LET g == TakeItem(h, it)
      IN  /\ g \in HintSet /\ g.left = h.left /\ g.update = h.update /\ g.move = h.move
          /\ g.moved = h.moved /\ g.pos = h.pos
          /\ g.items_number = n /\ g.items_bytes = b /\ g.units_bytes = u
  BY <1>2, <1>3 DEF HintSet
<1> QED
  BY <1>4, Zenon DEF n, b, u

\* What a turn does: c items are counted, it is the next one.
NextDoes(src, di, go, g, c, it, r) ==
  PredictNext(src, di, Turn(go, g)) =
    IF ~go \/ g.moved \/ Len(src.items) - c = 0 THEN Turn(FALSE, g)
    ELSE Turn(r.go, IF r.go THEN TakeItem(r.hint, it) ELSE r.hint)

(* One turn of node40_predict_nr_shift()'s loop, by its cases.               *)
LEMMA NextIs ==
  ASSUME NEW src, NEW di, NEW g, NEW go,
         NEW c, c = g.items_number, NEW it, it = NextItem(src, g.left, c),
         NEW r, r = PredictTurn(g, Len(src.items) - c, di + c, it, Item(src, 0), g.units_bytes)
  PROVE  NextDoes(src, di, go, g, c, it, r)
<1> DEFINE t == Turn(go, g)
<1>1. t.go = go /\ t.hint = g
  BY DEF Turn
<1> HIDE DEF t
<1> DEFINE si == node40_items(src) - t.hint.items_number
           jt == Item(src, IF t.hint.left THEN t.hint.items_number ELSE si - 1)
           q == PredictTurn(t.hint, si, di + t.hint.items_number, jt, Item(src, 0), t.hint.units_bytes)
           k == [q.hint EXCEPT !.items_number = @ + 1, !.items_bytes = @ + jt.len,
                               !.units_bytes = @ - (jt.len + node40_overhead)]
<1>2. PredictNext(src, di, t) =
        IF ~t.go \/ t.hint.moved \/ si = 0 THEN [go |-> FALSE, hint |-> t.hint]
        ELSE [go |-> q.go, hint |-> IF q.go THEN k ELSE q.hint]
  BY DEF PredictNext
<1>3. si = Len(src.items) - c
  BY <1>1 DEF node40_items
<1>4. jt = it
  BY <1>1, <1>3, Zenon DEF NextItem
<1>5. q = r
  BY <1>1, <1>3, <1>4, Zenon
<1>6. k = TakeItem(r.hint, it)
  <2> HIDE DEF q, jt
  <2> QED
    BY <1>4, <1>5, Zenon DEF TakeItem, node40_overhead
<1> HIDE DEF q, jt, k, si
<1> QED
  BY <1>1, <1>2, <1>3, <1>5, <1>6, Zenon DEF NextDoes, Turn, t

\* The states of the loop
Turns(src, dst, h) == {t \in [go : BOOLEAN, hint : HintSet] : Counting(src, dst, h, t.hint)}

(* A turn keeps the count of items and bytes, the space that is left and    *)
(* the insert point together.                                               *)
LEMMA NextKept ==
  ASSUME NEW src, NodeOK(src), NEW dst, NodeOK(dst), NEW h, h.left \in BOOLEAN, NEW di \in Nat,
         NEW t \in Turns(src, dst, h)
  PROVE  PredictNext(src, di, t) \in Turns(src, dst, h)
<1> DEFINE g == t.hint  c == g.items_number  N == Len(src.items)  si == N - c
           it == NextItem(src, g.left, c)
           r == PredictTurn(g, si, di + c, it, Item(src, 0), g.units_bytes)
           u == PredictNext(src, di, t)
<1> SUFFICES u \in Turns(src, dst, h)
  OBVIOUS
<1>1. t.go \in BOOLEAN /\ g \in HintSet /\ Counting(src, dst, h, g) /\ t = Turn(t.go, g)
  BY DEF Turns, Turn
<1> HIDE DEF g
<1>2. src.items \in Seq(GoodItems) /\ N \in Nat /\ dst.free \in Nat /\ IhSize \in Nat
  BY NodeConstants DEF NodeOK
<1>3. /\ g.left = h.left /\ g.update = h.update /\ g.move = h.move /\ c =< N /\ ModeOK(g)
      /\ g.items_bytes = SumLen(Taken(src, h.left, c))
      /\ g.units_bytes + Weight(Taken(src, h.left, c)) = dst.free
      /\ Stuck(src, dst, h) => c = 0
  BY <1>1 DEF Counting
<1>4. c \in Nat /\ g.left \in BOOLEAN /\ g.units_bytes \in Nat /\ g.pos.item \in Nat
  BY <1>1, HintFields
<1>5. u = IF ~t.go \/ g.moved \/ si = 0 THEN Turn(FALSE, g)
          ELSE Turn(r.go, IF r.go THEN TakeItem(r.hint, it) ELSE r.hint)
  <2> HIDE DEF it
  <2> DEFINE go == t.go
  <2>1. t = Turn(go, g)
    BY <1>1
  <2>0. it = NextItem(src, g.left, c)
    BY DEF it
  <2> HIDE DEF go, r
  <2>3. r = PredictTurn(g, Len(src.items) - c, di + c, it, Item(src, 0), g.units_bytes)
    BY DEF r
  <2>4. c = g.items_number
    OBVIOUS
  <2> HIDE DEF c
  <2>2. NextDoes(src, di, go, g, c, it, r)
    BY <2>0, <2>3, <2>4, NextIs
  <2> QED
    BY <2>1, <2>2, Zenon DEF NextDoes, u, go, c
<1> HIDE DEF u
<1>6. ASSUME NEW go \in BOOLEAN, NEW f, Counting(src, dst, h, f), u = Turn(go, f)
      PROVE  u \in Turns(src, dst, h)
  <2>1. f \in HintSet
    BY <1>6 DEF Counting
  <2> QED
    BY <1>6, <2>1 DEF Turns, Turn
<1>7. CASE ~t.go \/ g.moved \/ si = 0
  BY <1>1, <1>5, <1>6, <1>7
<1>8. CASE ~(~t.go \/ g.moved \/ si = 0)
  <2>1. si \in Nat /\ si > 0 /\ c < N
    BY <1>2, <1>3, <1>4, <1>8
  <2>2. /\ it.len \in Nat /\ it.len > 0
        /\ SumLen(Taken(src, h.left, c)) \in Nat /\ Weight(Taken(src, h.left, c)) \in Nat
        /\ SumLen(Taken(src, h.left, c + 1)) = SumLen(Taken(src, h.left, c)) + it.len
        /\ Weight(Taken(src, h.left, c + 1)) = Weight(Taken(src, h.left, c)) + (it.len + IhSize)
    BY <1>2, <1>3, <1>4, <2>1, TakenWeight
  <2> HIDE DEF it
  <2>3. Turned(r, g, si, it)
    <3>1. di + c \in Nat
      BY <1>4
    <3> DEFINE first == Item(src, 0)  d == di + c
    <3> HIDE DEF first, si, d
    <3>2. Turned(PredictTurn(g, si, d, it, first, g.units_bytes), g, si, it)
      BY <1>1, <1>3, <2>1, <2>2, <3>1, TurnFacts DEF d
    <3> QED
      BY <3>2 DEF first, d
  <2> HIDE DEF r
  <2>4. u = Turn(r.go, IF r.go THEN TakeItem(r.hint, it) ELSE r.hint)
    BY <1>5, <1>8
  <2> DEFINE f == r.hint
  <2>5. /\ r.go \in BOOLEAN /\ f \in HintSet /\ SameMode(f, g) /\ f.units_bytes = g.units_bytes /\ ModeOK(f)
        /\ r.go => it.len + IhSize =< g.units_bytes
        /\ g.left /\ g.update => /\ f.pos.unit = g.pos.unit
                                 /\ f.pos.item = IF r.go THEN g.pos.item - 1 ELSE g.pos.item
                                 /\ r.go => g.pos.item # 0
        /\ ~g.left /\ ~g.move => f.pos = g.pos
        /\ r.go /\ ~g.left /\ g.update /\ ~g.move =>
             g.pos.item < si /\ (g.pos.item = si - 1 => g.pos.unit = MAX_UINT32)
    BY <2>3, Zenon DEF Turned
  <2> HIDE DEF f
  <2>6. /\ f.left = g.left /\ f.update = g.update /\ f.move = g.move
        /\ f.items_number = c /\ f.items_bytes = g.items_bytes
    BY <2>5 DEF SameMode
  <2>7. /\ h.left /\ h.update => g.pos.item + c = h.pos.item /\ g.pos.unit = h.pos.unit
        /\ ~h.left /\ ~h.move => g.pos = h.pos
        /\ ~h.left /\ h.update /\ ~h.move /\ c # 0 => Spared(src.items, h.pos, c)
    BY <1>1 DEF Counting
  <2>8. CASE ~r.go
    <3>1. u = Turn(FALSE, f)
      BY <2>4, <2>5, <2>8 DEF f
    <3>2. h.left /\ h.update => f.pos.item + c = h.pos.item /\ f.pos.unit = h.pos.unit
      BY <1>3, <2>5, <2>7, <2>8
    <3>3. ~h.left /\ ~h.move => f.pos = h.pos
      BY <1>3, <2>5, <2>7
    <3>4. Counting(src, dst, h, f)
      BY <1>3, <2>5, <2>6, <2>7, <3>2, <3>3, Zenon DEF Counting
    <3> QED
      BY <1>6, <3>1, <3>4
  <2>9. CASE r.go
    <3> DEFINE e == TakeItem(f, it)
    <3>1. u = Turn(TRUE, e)
      BY <2>4, <2>5, <2>9 DEF f
    <3>2. /\ e \in HintSet /\ e.left = f.left /\ e.update = f.update /\ e.move = f.move
          /\ e.moved = f.moved /\ e.pos = f.pos
          /\ e.items_number = f.items_number + 1 /\ e.items_bytes = f.items_bytes + it.len
          /\ e.units_bytes = f.units_bytes - (it.len + IhSize)
      BY <2>2, <2>5, <2>9, TakeItemIs
    <3> HIDE DEF e
    <3>3. ModeOK(e)
      BY <2>5, <3>2 DEF ModeOK
    <3>4. c + 1 =< N /\ e.items_number = c + 1
      BY <1>2, <1>4, <2>1, <2>6, <3>2
    <3>5. e.items_bytes = SumLen(Taken(src, h.left, c + 1))
      BY <1>3, <2>2, <2>6, <3>2
    <3>6. e.units_bytes + Weight(Taken(src, h.left, c + 1)) = dst.free
      <4> DEFINE w == Weight(Taken(src, h.left, c))  x == it.len
      <4>1. Weight(Taken(src, h.left, c + 1)) = w + (x + IhSize) /\ e.units_bytes = g.units_bytes - (x + IhSize)
            /\ g.units_bytes + w = dst.free /\ w \in Nat /\ x \in Nat
        BY <1>3, <2>2, <2>5, <3>2
      <4> HIDE DEF w, x
      <4> QED
        BY <1>2, <1>4, <4>1
    <3>7. h.left /\ h.update => e.pos.item + (c + 1) = h.pos.item /\ e.pos.unit = h.pos.unit
      <4> SUFFICES ASSUME h.left, h.update PROVE e.pos.item + (c + 1) = h.pos.item /\ e.pos.unit = h.pos.unit
        OBVIOUS
      <4>1. e.pos.item = g.pos.item - 1 /\ e.pos.unit = g.pos.unit
        BY <1>3, <2>5, <2>9, <3>2
      <4>2. g.pos.item + c = h.pos.item /\ g.pos.unit = h.pos.unit
        BY <2>7
      <4> QED
        BY <1>4, <4>1, <4>2
    <3>8. ~h.left /\ ~h.move => e.pos = h.pos
      BY <1>3, <2>5, <2>7, <3>2
    <3>9. ~Stuck(src, dst, h)
      <4> SUFFICES ASSUME Stuck(src, dst, h) PROVE FALSE
        OBVIOUS
      <4>1. c = 0
        BY <1>3
      <4>2. CASE dst.free = 0
        <5>1. it.len + IhSize =< g.units_bytes
          BY <2>5, <2>9
        <5> DEFINE w == Weight(Taken(src, h.left, c))  x == it.len
        <5>2. g.units_bytes + w = 0 /\ w \in Nat /\ x \in Nat /\ x > 0 /\ x + IhSize =< g.units_bytes
          BY <1>3, <2>2, <4>2, <5>1
        <5> HIDE DEF w, x
        <5> QED
          BY <1>2, <1>4, <5>2
      <4>3. CASE h.update /\ ~h.move /\ h.left /\ h.pos.item = 0
        <5>1. g.pos.item + 0 = 0 /\ g.pos.item # 0
          BY <1>3, <2>5, <2>7, <2>9, <4>1, <4>3
        <5> QED
          BY <1>4, <5>1
      <4> DEFINE before == h.pos.item >= Len(src.items)
                 inside == h.pos.item = Len(src.items) - 1 /\ h.pos.unit # MAX_UINT32
      <4>4. CASE h.update /\ ~h.move /\ ~h.left /\ (before \/ inside)
        <5>1. g.pos = h.pos /\ g.pos.item < si /\ (g.pos.item = si - 1 => g.pos.unit = MAX_UINT32)
          BY <1>3, <2>5, <2>7, <2>9, <4>4
        <5>2. si = N
          BY <1>2, <4>1
        <5>3. g.pos.item < N /\ (g.pos.item = N - 1 => g.pos.unit = MAX_UINT32)
              /\ (g.pos.item >= N \/ (g.pos.item = N - 1 /\ g.pos.unit # MAX_UINT32))
          BY <4>4, <5>1, <5>2
        <5> HIDE DEF N
        <5> QED
          BY <1>2, <1>4, <5>3
      <4>5. \/ dst.free = 0
            \/ /\ h.update /\ ~h.move
               /\ IF h.left THEN h.pos.item = 0 ELSE before \/ inside
        BY Zenon DEF Stuck
      <4> HIDE DEF before, inside
      <4>6. CASE h.left
        BY <4>2, <4>3, <4>5, <4>6, Zenon
      <4>7. CASE ~h.left
        BY <4>2, <4>4, <4>5, <4>7, Zenon
      <4> QED
        BY <4>6, <4>7
    <3>10. ASSUME ~h.left, h.update, ~h.move PROVE Spared(src.items, h.pos, c + 1)
      <4>1. g.pos = h.pos /\ g.pos.item < si /\ (g.pos.item = si - 1 => g.pos.unit = MAX_UINT32)
        BY <1>3, <2>5, <2>7, <2>9, <3>10
      <4> DEFINE j == g.pos.item
      <4>2. j + (c + 1) =< N /\ (j # si - 1 => j + (c + 1) < N)
        <5>1. j \in Nat /\ c \in Nat /\ N \in Nat /\ si = N - c /\ j < si
          BY <1>2, <1>4, <4>1
        <5> HIDE DEF N, j, c, si
        <5> QED
          BY <5>1
      <4> QED
        BY <4>1, <4>2 DEF Spared
    <3>11. Counting(src, dst, h, e)
      BY <1>3, <2>6, <3>2, <3>3, <3>4, <3>5, <3>6, <3>7, <3>8, <3>9, <3>10, Zenon DEF Counting
    <3> QED
      BY <1>6, <3>1, <3>11
  <2> QED
    BY <2>5, <2>8, <2>9
<1> QED
  BY <1>7, <1>8

\* What the loop starts with
Started(dst, h) == Turn(TRUE, Holding(h, dst.free))

(* The loop of node40_predict_nr_shift() starts with nothing counted.        *)
LEMMA StartCounts ==
  ASSUME NEW src, NEW dst, NEW h, NEW v, Sane(src, dst, h, v), h.items_number = 0, h.items_bytes = 0
  PROVE  Started(dst, h) \in Turns(src, dst, h)
<1> DEFINE g == Holding(h, dst.free)
<1>1. NodeOK(src) /\ NodeOK(dst) /\ h \in HintSet /\ ModeOK(h)
  BY DEF Sane
<1>2. src.items \in Seq(GoodItems) /\ dst.free \in Nat /\ h.left \in BOOLEAN
  BY <1>1, HintFields DEF NodeOK
<1>3. Alike(g, h) /\ g.units_bytes = dst.free
  BY <1>1, <1>2, HoldingAlike
<1> HIDE DEF g
<1>4. /\ g \in HintSet /\ g.left = h.left /\ g.update = h.update /\ g.move = h.move /\ g.pos = h.pos
      /\ g.moved = h.moved /\ g.items_number = 0 /\ g.items_bytes = 0
  BY <1>3 DEF Alike, SameMode
<1>5. ModeOK(g)
  BY <1>1, <1>4 DEF ModeOK
<1>6. SumLen(Taken(src, h.left, 0)) = 0 /\ Weight(Taken(src, h.left, 0)) = 0
  BY <1>2, TakenNone, SumNone, WeightNone
<1>7. g.units_bytes + Weight(Taken(src, h.left, 0)) = dst.free
  BY <1>2, <1>3, <1>6
<1>8. 0 =< Len(src.items) /\ g.pos.item + 0 = h.pos.item
  <2>1. h.pos.item \in Nat
    BY <1>1, HintFields
  <2> QED
    BY <1>2, <1>4, <2>1
<1>9. Counting(src, dst, h, g)
  BY <1>4, <1>5, <1>6, <1>7, <1>8 DEF Counting
<1>10. Turn(TRUE, g) \in [go : BOOLEAN, hint : HintSet] /\ Turn(TRUE, g).hint = g
  BY <1>4 DEF Turn
<1> QED
  BY <1>9, <1>10 DEF Turns, Started, g

\* The loop as a function
Loop(a, src, di, start) ==
  a = [k \in 0 .. Len(src.items) |-> IF k = 0 THEN start ELSE PredictNext(src, di, a[k - 1])]

(* The loop of node40_predict_nr_shift() ends in one of the states that its *)
(* turns go through.                                                        *)
LEMMA PredictTurns ==
  ASSUME NEW src, NodeOK(src), NEW dst, NodeOK(dst), NEW h, NEW S, Started(dst, h) \in S,
         \A t \in S : PredictNext(src, Len(dst.items), t) \in S
  PROVE  LET p == node40_predict(St(src, dst, h))
         IN  IF src.items = <<>> THEN p = h ELSE \E t \in S : p = PredictNext(src, Len(dst.items), t).hint
<1> DEFINE s == St(src, dst, h)  N == Len(src.items)  di == Len(dst.items)
           start == Started(dst, h)
           G == [n \in 1 .. N |-> [t \in S |-> PredictNext(src, di, t)]]
<1>1. N \in Nat /\ (N = 0 <=> src.items = <<>>)
  <2>1. src.items \in Seq(GoodItems)
    BY DEF NodeOK
  <2> QED
    BY <2>1, EmptySeq
<1>2. start \in S
  OBVIOUS
<1>3. \A t \in S : PredictNext(src, di, t) \in S
  OBVIOUS
<1> HIDE DEF start
<1>4. G \in [1 .. N -> [S -> S]]
  BY <1>3
<1>5. \A n \in 1 .. N : \A t \in S : G[n][t] = PredictNext(src, di, t)
  OBVIOUS
<1> HIDE DEF G, di, N
<1>6. PICK f : IsIterate(f, N, S, start, G)
  BY <1>1, <1>2, <1>4, Iterates
<1>7. f \in [0 .. N -> S] /\ f[0] = start /\ \A n \in 1 .. N : f[n] = PredictNext(src, di, f[n - 1])
  <2>1. f \in [0 .. N -> S] /\ f[0] = start /\ \A n \in 1 .. N : f[n] = G[n][f[n - 1]]
    BY <1>6 DEF IsIterate
  <2>2. \A n \in 1 .. N : n - 1 \in 0 .. N
    BY <1>1
  <2> QED
    BY <1>5, <2>1, <2>2
<1>8. Loop(f, src, di, start)
  <2>1. f = [k \in 0 .. N |-> f[k]]
    BY <1>7
  <2>2. \A k \in 0 .. N : f[k] = IF k = 0 THEN start ELSE PredictNext(src, di, f[k - 1])
    BY <1>1, <1>7
  <2> QED
    BY <2>1, <2>2 DEF Loop, N
<1> DEFINE c == CHOOSE a : Loop(a, src, di, start)
<1>9. Loop(c, src, di, start)
  BY <1>8
<1> HIDE DEF c
<1>10. StepAlike(c, f, N)
  <2>1. c[0] = start
    BY <1>1, <1>9 DEF Loop, N
  <2>2. \A k \in 1 .. N : c[k] = PredictNext(src, di, c[k - 1])
    BY <1>1, <1>9 DEF Loop, N
  <2> QED
    BY <1>7, <2>1, <2>2 DEF StepAlike
<1>11. c[N] = f[N] /\ f[N] \in S
  <2>1. N \in 0 .. N
    BY <1>1
  <2> QED
    BY <1>1, <1>7, <1>10, <2>1, SameIterates
<1>12. node40_predict(s) = IF N = 0 THEN h ELSE c[N].hint
  <2>1. s.src = src /\ s.dst = dst /\ s.hint = h
    BY StFields
  <2>2. [go |-> TRUE, hint |-> [s.hint EXCEPT !.units_bytes = node40_space(s.dst)]] = start
    BY <2>1 DEF start, Started, Turn, Holding, node40_space
  <2> DEFINE begin == [go |-> TRUE, hint |-> [s.hint EXCEPT !.units_bytes = node40_space(s.dst)]]
             ch == CHOOSE a : a = [k \in 0 .. node40_items(s.src) |->
                                     IF k = 0 THEN begin
                                     ELSE PredictNext(s.src, node40_items(s.dst), a[k - 1])]
  <2>3. node40_predict(s) = IF node40_items(s.src) = 0 THEN s.hint ELSE ch[node40_items(s.src)].hint
    BY DEF node40_predict
  <2>4. ch = c
    <3>1. begin = start
      BY <2>2
    <3> HIDE DEF begin, s
    <3>2. ch = CHOOSE a : a = [k \in 0 .. N |-> IF k = 0 THEN start ELSE PredictNext(src, di, a[k - 1])]
      BY <2>1, <3>1 DEF node40_items, N, di
    <3> QED
      BY <3>2, Zenon DEF Loop, N, c
  <2> HIDE DEF ch, s
  <2> QED
    BY <2>1, <2>3, <2>4, Zenon DEF node40_items, N
<1>13. N # 0 => \E t \in S : f[N] = PredictNext(src, di, t)
  <2> SUFFICES ASSUME N # 0 PROVE \E t \in S : f[N] = PredictNext(src, di, t)
    OBVIOUS
  <2>1. N \in 1 .. N /\ N - 1 \in 0 .. N
    BY <1>1
  <2>2. f[N] = PredictNext(src, di, f[N - 1]) /\ f[N - 1] \in S
    BY <1>7, <2>1
  <2> QED
    BY <2>2
<1> HIDE DEF c
<1> QED
  BY <1>1, <1>11, <1>12, <1>13, Zenon DEF s, di

(* After all the turns the hint counts items that may go.                   *)
LEMMA PredictCounts ==
  ASSUME NEW src, NEW dst, NEW h, NEW v, Sane(src, dst, h, v), h.items_number = 0, h.items_bytes = 0
  PROVE  LET p == node40_predict(St(src, dst, h))
         IN  IF src.items = <<>> THEN p = h ELSE Counting(src, dst, h, p)
<1> DEFINE p == node40_predict(St(src, dst, h))  S == Turns(src, dst, h)  di == Len(dst.items)
<1>1. NodeOK(src) /\ NodeOK(dst) /\ h.left \in BOOLEAN /\ di \in Nat
  <2>1. NodeOK(src) /\ NodeOK(dst) /\ h \in HintSet
    BY DEF Sane
  <2>2. dst.items \in Seq(GoodItems)
    BY <2>1 DEF NodeOK
  <2> QED
    BY <2>1, <2>2, HintFields
<1>2. Started(dst, h) \in S
  BY StartCounts
<1>3. \A t \in S : PredictNext(src, di, t) \in S
  <2> HIDE DEF di
  <2> QED
    BY <1>1, NextKept
<1> HIDE DEF S
<1>4. IF src.items = <<>> THEN p = h ELSE \E t \in S : p = PredictNext(src, di, t).hint
  BY <1>1, <1>2, <1>3, PredictTurns
<1> HIDE DEF p, di
<1>5. \A t \in S : Counting(src, dst, h, t.hint)
  BY DEF S, Turns
<1> QED
  BY <1>3, <1>4, <1>5, Zenon DEF p

-----------------------------------------------------------------------------
(* node40_move() *)

(* The items taken are a sequence in order, with its ends in src.           *)
LEMMA TakenFacts ==
  ASSUME NEW src, NodeOK(src), NEW l \in BOOLEAN, NEW k \in 1 .. Len(src.items),
         NEW p, p = From(src, l, k), NEW new, new = Taken(src, l, k)
  PROVE  /\ p \in 0 .. Len(src.items) /\ k \in 0 .. Len(src.items) - p
         /\ new \in Seq(GoodItems) /\ new # <<>> /\ Neat(new)
         /\ new[1] = src.items[p + 1] /\ new[Len(new)] = src.items[p + k] /\ Len(new) = k
<1> DEFINE s == src.items  N == Len(src.items)  q == p + k
           A == SubSeq(s, 1, p)  M == SubSeq(s, p + 1, q)  B == SubSeq(s, q + 1, N)
<1>1. s \in Seq(GoodItems) /\ Neat(s) /\ N \in Nat /\ N = Len(s) /\ s \in Seq(ItemSet)
  <2>1. s \in Seq(GoodItems) /\ Neat(s)
    BY DEF NodeOK
  <2>2. s \in Seq(ItemSet)
    BY <2>1, GoodSeqs
  <2> QED
    BY <2>1, <2>2
<1>2. p = IF l THEN 0 ELSE N - k
  BY DEF From
<1>3. new = M
  BY Zenon DEF Taken
<1> HIDE DEF s, N
<1>4. k \in Nat /\ k >= 1 /\ k =< N /\ p \in Nat /\ q \in Nat /\ p + k =< N /\ q = p + k /\ p =< N
  BY <1>1, <1>2 DEF N
<1> HIDE DEF q
<1>5. p \in 0 .. Len(s) /\ q \in p .. Len(s) /\ k \in 0 .. N - p
  BY <1>1, <1>4
<1>6. /\ A \in Seq(GoodItems)
      /\ M \in Seq(GoodItems) /\ Len(M) = q - p /\ \A i \in 1 .. q - p : M[i] = s[p + i]
      /\ B \in Seq(GoodItems) /\ s = (A \o M) \o B
  <2>1. Pieces(GoodItems, s, p, q, A, M, B)
    BY <1>1, <1>5, Cut
  <2> QED
    BY <2>1, Zenon DEF Pieces
<1> HIDE DEF A, B, M
<1>7. q - p = k /\ 1 \in 1 .. q - p /\ k \in 1 .. q - p
  BY <1>4
<1>8. M[1] = s[p + 1] /\ M[Len(M)] = s[p + k] /\ Len(M) = k
  BY <1>6, <1>7
<1>9. M # <<>>
  BY <1>4, <1>6, <1>8, EmptySeq
<1>10. Neat(M)
  <2>1. A \in Seq(ItemSet) /\ M \in Seq(ItemSet) /\ B \in Seq(ItemSet)
    BY <1>6, GoodSeqs
  <2>2. A \o M \in Seq(ItemSet)
    BY <2>1, ConcatProperties
  <2>3. Neat(A \o M)
    BY <1>1, <1>6, <2>1, <2>2, NeatConcat
  <2> QED
    BY <2>1, <2>3, NeatConcat
<1> QED
  BY <1>1, <1>3, <1>4, <1>5, <1>6, <1>8, <1>9, <1>10 DEF s, N

\* The items new have gone from src, which is r now; and have come to dst,
\* which is m now.
Parted(r, src, new, l) == src.items = IF l THEN new \o r.items ELSE r.items \o new
Added(m, dst, new, l)  == m.items = IF l THEN dst.items \o new ELSE new \o dst.items

(* What stays in src and the items taken are all there was.                  *)
LEMMA StaysWhole ==
  ASSUME NEW src, NodeOK(src), NEW l \in BOOLEAN, NEW k \in 1 .. Len(src.items),
         NEW p, p = From(src, l, k),
         NEW r, r.items = SubSeq(src.items, 1, p) \o SubSeq(src.items, (p + k) + 1, Len(src.items))
  PROVE  Parted(r, src, Taken(src, l, k), l)
<1> DEFINE s == src.items  N == Len(src.items)  q == p + k
           A == SubSeq(s, 1, p)  M == SubSeq(s, p + 1, q)  B == SubSeq(s, q + 1, N)
<1>1. s \in Seq(GoodItems) /\ N \in Nat /\ N = Len(s)
  BY DEF NodeOK
<1>2. p = IF l THEN 0 ELSE N - k
  BY DEF From
<1>3. Taken(src, l, k) = M
  BY Zenon DEF Taken
<1>4. r.items = A \o B /\ src.items = s
  OBVIOUS
<1> HIDE DEF s, N
<1>5. p \in 0 .. Len(s) /\ q \in p .. Len(s) /\ q \in Nat /\ p \in Nat /\ (l => p = 0) /\ (~l => q = N)
  BY <1>1, <1>2 DEF N
<1> HIDE DEF q
<1>6. /\ A \in Seq(GoodItems) /\ Len(A) = p
      /\ M \in Seq(GoodItems)
      /\ B \in Seq(GoodItems) /\ Len(B) = N - q
      /\ s = (A \o M) \o B
  <2>1. Pieces(GoodItems, s, p, q, A, M, B)
    BY <1>1, <1>5, Cut
  <2> QED
    BY <1>1, <2>1, Zenon DEF Pieces
<1> HIDE DEF A, B, M
<1>7. \A x \in Seq(GoodItems) : x \o <<>> = x /\ <<>> \o x = x
  BY ConcatEmptySeq
<1>8. A \o M \in Seq(GoodItems)
  BY <1>6, ConcatProperties
<1>9. CASE l
  <2>1. A = <<>>
    BY <1>5, <1>6, <1>9, EmptySeq
  <2>2. r.items = B /\ s = M \o B
    BY <1>4, <1>6, <1>7, <2>1, Zenon
  <2> QED
    BY <1>3, <1>4, <1>9, <2>2, Zenon DEF Parted
<1>10. CASE ~l
  <2>1. B = <<>>
    <3>1. Len(B) = 0
      BY <1>1, <1>5, <1>6, <1>10
    <3> QED
      BY <1>6, <3>1, EmptySeq
  <2>2. r.items = A /\ s = A \o M
    BY <1>4, <1>6, <1>7, <1>8, <2>1, Zenon
  <2> QED
    BY <1>3, <1>4, <1>10, <2>2, Zenon DEF Parted
<1> QED
  BY <1>9, <1>10

(* Whole items that go from one node to its neighbour are still between what *)
(* was on either side of them.                                              *)
LEMMA WholeHeld ==
  ASSUME NEW src, NEW dst, NodeOK(dst), NEW r, NodeOK(r), NEW m, NEW new \in Seq(GoodItems),
         NEW l \in BOOLEAN, Parted(r, src, new, l), Added(m, dst, new, l)
  PROVE  Held(r, m, l) = Held(src, dst, l)
<1> DEFINE a == dst.items  b == r.items  x == m.items  y == src.items
<1>1. a \in Seq(GoodItems) /\ b \in Seq(GoodItems)
  BY DEF NodeOK
<1>2. /\ l => y = new \o b /\ x = a \o new
      /\ ~l => y = b \o new /\ x = new \o a
  BY Zenon DEF Parted, Added
<1>3. /\ Held(r, m, l) = Flat(IF l THEN x \o b ELSE b \o x)
      /\ Held(src, dst, l) = Flat(IF l THEN a \o y ELSE y \o a)
  BY Zenon DEF Held
<1> HIDE DEF a, b, x, y
<1>4. SeqsAssociate(GoodItems)
  BY SeqsJoin
<1>5. (a \o new) \o b = a \o (new \o b) /\ (b \o new) \o a = b \o (new \o a)
  BY <1>1, <1>4, Zenon DEF SeqsAssociate
<1>6. CASE l
  BY <1>2, <1>3, <1>5, <1>6
<1>7. CASE ~l
  BY <1>2, <1>3, <1>5, <1>7
<1> QED
  BY <1>6, <1>7

(* What stays in src when the items taken go, next to the neighbour m.      *)
LEMMA Stays ==
  ASSUME NEW src, NodeOK(src), NEW l \in BOOLEAN, NEW k \in 1 .. Len(src.items),
         NEW p, p = From(src, l, k), NEW len, len = SumLen(Taken(src, l, k)),
         NEW r, r = node40_shrink(src, Pos(p, MAX_UINT32), len, k),
         NEW m, l => m.items[Len(m.items)] = src.items[p + k], ~l => m.items[1] = src.items[p + 1]
  PROVE  /\ NodeOK(r) /\ Borders(r, m, l)
         /\ l => FromBehind(r, src, k)
         /\ Parted(r, src, Taken(src, l, k), l)
<1> DEFINE s == src.items  N == Len(src.items)
<1>1. s \in Seq(GoodItems) /\ Neat(s) /\ N \in Nat /\ N = Len(s)
  BY DEF NodeOK
<1>2. p = IF l THEN 0 ELSE N - k
  BY DEF From
<1>3. len = SumLen(SubSeq(s, p + 1, p + k))
  BY Zenon DEF Taken
<1>4. p \in 0 .. Len(src.items) /\ k \in 0 .. Len(src.items) - p
  <2> DEFINE new == Taken(src, l, k)
  <2>1. new = Taken(src, l, k)
    OBVIOUS
  <2> HIDE DEF new
  <2> QED
    BY <2>1, TakenFacts
<1> HIDE DEF N
<1>5. k \in Nat /\ k >= 1 /\ k =< N /\ p \in Nat /\ p + k =< N /\ p =< N
  BY <1>1, <1>2, <1>4 DEF N
<1>6. ~(p > 0 /\ p + k < N)
  BY <1>1, <1>2, <1>5
<1>7. NodeOK(r) /\ r.items = SubSeq(s, 1, p) \o SubSeq(s, (p + k) + 1, N)
  <2>1. p > 0 /\ p + k < Len(src.items) => Tight(src.items[p], src.items[(p + k) + 1])
    BY <1>6 DEF N
  <2> QED
    BY <1>3, <1>4, <2>1, Shrunk DEF N
<1>12. Parted(r, src, Taken(src, l, k), l)
  BY <1>7, StaysWhole DEF N
<1> DEFINE t == r.items
<1>8. /\ t \in Seq(GoodItems) /\ Len(t) = N - k
      /\ \A j \in 1 .. p : t[j] = s[j]
      /\ \A j \in p + 1 .. N - k : t[j] = s[j + k]
  <2>1. t = SubSeq(s, 1, p) \o SubSeq(s, (p + k) + 1, Len(s)) /\ p \in 0 .. Len(s) /\ k \in 0 .. Len(s) - p
    BY <1>1, <1>4, <1>7
  <2> HIDE DEF s, t
  <2>2. Drops(t, GoodItems, s, p, k)
    BY <1>1, <2>1, Dropped
  <2> QED
    BY <1>1, <2>2, Zenon DEF Drops
<1>9. \A i \in 1 .. N - 1 : Precedes(s[i], s[i + 1])
  BY <1>1 DEF Neat, Tight
<1> HIDE DEF s, t
<1>10. CASE l
  <2>1. p = 0 /\ p + k = k /\ p + 1 = 1
    BY <1>2, <1>5, <1>10
  <2>2. Len(t) = N - k /\ \A j \in 1 .. N - k : t[j] = s[j + k]
    BY <1>8, <2>1
  <2>3. FromBehind(r, src, k)
    BY <2>2, Zenon DEF FromBehind, t, s, N
  <2>4. ASSUME t # <<>> PROVE Precedes(m.items[Len(m.items)], t[1])
    <3>1. Len(t) > 0
      BY <1>8, <2>4, EmptySeq
    <3>2. 1 \in 1 .. N - k /\ k \in 1 .. N - 1 /\ 1 + k = k + 1
      BY <1>1, <1>5, <2>2, <3>1
    <3>3. t[1] = s[k + 1] /\ m.items[Len(m.items)] = s[k]
      BY <1>10, <2>1, <2>2, <3>2 DEF s
    <3> QED
      BY <1>9, <3>2, <3>3
  <2>5. Borders(r, m, l)
    BY <1>10, <2>4, Zenon DEF Borders, Border, t
  <2> QED
    BY <1>7, <1>10, <1>12, <2>3, <2>5, Zenon
<1>11. CASE ~l
  <2>1. p = N - k
    BY <1>2, <1>11
  <2>2. ASSUME t # <<>> PROVE Precedes(t[Len(t)], m.items[1])
    <3>1. Len(t) > 0
      BY <1>8, <2>2, EmptySeq
    <3>2. p \in 1 .. p /\ p \in 1 .. N - 1 /\ Len(t) = p
      BY <1>1, <1>5, <1>8, <2>1, <3>1
    <3>3. t[p] = s[p] /\ m.items[1] = s[p + 1]
      BY <1>8, <1>11, <3>2 DEF s
    <3> QED
      BY <1>9, <3>2, <3>3
  <2>3. Borders(r, m, l)
    BY <1>11, <2>2, Zenon DEF Borders, Border, t
  <2> QED
    BY <1>7, <1>11, <1>12, <2>3, Zenon
<1> QED
  BY <1>10, <1>11

\* t is a state of a shift in the mode of h that is right.
Went(t, h, v) ==
  /\ t = St(t.src, t.dst, t.hint) /\ Sane(t.src, t.dst, t.hint, v)
  /\ t.hint.left = h.left /\ t.hint.update = h.update /\ t.hint.move = h.move

(* Nodes that are right with a hint of the same mode are what a pass         *)
(* promises.                                                                 *)
LEMMA WentIs ==
  ASSUME NEW src, NEW dst, NEW g, NEW v, Sane(src, dst, g, v), NEW h,
         g.left = h.left, g.update = h.update, g.move = h.move
  PROVE  Went(St(src, dst, g), h, v)
<1>1. St(src, dst, g).src = src /\ St(src, dst, g).dst = dst /\ St(src, dst, g).hint = g
  BY StFields
<1> QED
  BY <1>1, Zenon DEF Went

To(dst, l) == IF l THEN Len(dst.items) ELSE 0

(* node40_shift_items() behind its prediction: what leaves the source and    *)
(* where it arrives.                                                         *)
LEMMA MovePredictedIs ==
  ASSUME NEW src, NEW dst, NEW h, NEW g
  PROVE  MovePredicted(St(src, dst, h), g) =
           IF g.items_number = 0 \/ g.items_bytes = 0 THEN St(src, dst, g)
           ELSE St(node40_shrink(src, Pos(From(src, g.left, g.items_number), MAX_UINT32), g.items_bytes, g.items_number),
                   node40_expand(dst, Pos(To(dst, g.left), MAX_UINT32), g.items_bytes,
                                 Taken(src, g.left, g.items_number)),
                   Touched(g))
<1> DEFINE s == St(src, dst, h)
<1>1. s.src = src /\ s.dst = dst /\ s.hint = h
  BY StFields
<1>2. [s EXCEPT !.hint = g] = St(src, dst, g)
  BY StHint
<1> HIDE DEF s
<1> DEFINE k == g.items_number
           from == IF g.left THEN 0 ELSE node40_items(s.src) - k
           to == IF g.left THEN node40_items(s.dst) ELSE 0
           e == [g EXCEPT !.changed = TRUE]
<1>3. MovePredicted(s, g) =
        IF k = 0 \/ g.items_bytes = 0 THEN [s EXCEPT !.hint = g]
        ELSE [src |-> node40_shrink(s.src, Pos(from, MAX_UINT32), g.items_bytes, k),
              dst |-> node40_expand(s.dst, Pos(to, MAX_UINT32), g.items_bytes,
                                    SubSeq(s.src.items, from + 1, from + k)),
              hint |-> e]
  BY DEF MovePredicted
<1>4. from = From(src, g.left, k) /\ to = To(dst, g.left)
  BY <1>1, Zenon DEF From, To, node40_items
<1>5. SubSeq(s.src.items, from + 1, from + k) = Taken(src, g.left, k)
  BY <1>1, <1>4, Zenon DEF Taken
<1>6. e = Touched(g)
  BY DEF Touched
<1> HIDE DEF e, from, to
<1> QED
  BY <1>1, <1>2, <1>3, <1>4, <1>5, <1>6, Zenon DEF St, s

(* The items taken arrive in dst.                                           *)
LEMMA Goes ==
  ASSUME NEW src, NodeOK(src), NEW dst, NodeOK(dst), NEW l \in BOOLEAN, NEW k \in 1 .. Len(src.items),
         NEW p, p = From(src, l, k), NEW new, new = Taken(src, l, k), Weight(new) =< dst.free, Joined(src, dst, l)
  PROVE  LET m == node40_expand(dst, Pos(To(dst, l), MAX_UINT32), SumLen(new), new)
         IN  /\ NodeOK(m)
             /\ l => m.items[Len(m.items)] = src.items[p + k]
             /\ ~l => m.items[1] = src.items[p + 1]
             /\ Added(m, dst, new, l)
<1> DEFINE s == src.items  N == Len(src.items)
           m == node40_expand(dst, Pos(To(dst, l), MAX_UINT32), SumLen(new), new)
<1>1. s \in Seq(GoodItems) /\ N \in Nat /\ dst.items \in Seq(GoodItems)
  BY DEF NodeOK
<1>2. /\ new \in Seq(GoodItems) /\ new # <<>> /\ Neat(new)
      /\ new[1] = src.items[p + 1] /\ new[Len(new)] = src.items[p + k]
  BY TakenFacts
<1>3. Arrives(dst, new)
  BY <1>2 DEF Arrives
<1>4. s # <<>>
  BY <1>1, EmptySeq
<1>5. p = IF l THEN 0 ELSE N - k
  BY DEF From
<1>6. CASE l
  <2>1. p + 1 = 1 /\ To(dst, l) = Len(dst.items)
    BY <1>5, <1>6 DEF To
  <2>2. new[1] = s[1]
    BY <1>2, <2>1
  <2>3. Joint(dst.items, new)
    BY <1>4, <1>6, <2>2, Zenon DEF Joined, Joint
  <2>4. m = node40_expand(dst, Pos(Len(dst.items), MAX_UINT32), SumLen(new), new)
    BY <2>1
  <2> HIDE DEF m
  <2>5. NodeOK(m) /\ m.items[Len(m.items)] = new[Len(new)] /\ m.items = dst.items \o new
    <3>1. AtEnd(m, dst, new)
      BY <1>3, <2>3, <2>4, Appended
    <3> QED
      BY <3>1, Zenon DEF AtEnd, Received
  <2>6. Added(m, dst, new, l)
    BY <1>6, <2>5, Zenon DEF Added
  <2> QED
    BY <1>2, <1>6, <2>5, <2>6 DEF m
<1>7. CASE ~l
  <2>1. p + k = N /\ To(dst, l) = 0
    BY <1>1, <1>5, <1>7 DEF To
  <2>2. new[Len(new)] = s[N]
    BY <1>2, <2>1
  <2>3. Joint(new, dst.items)
    BY <1>4, <1>7, <2>2, Zenon DEF Joined, Joint
  <2>4. m = node40_expand(dst, Pos(0, MAX_UINT32), SumLen(new), new)
    BY <2>1
  <2> HIDE DEF m
  <2>5. NodeOK(m) /\ m.items[1] = new[1] /\ m.items = new \o dst.items
    <3>1. AtStart(m, dst, new)
      BY <1>3, <2>3, <2>4, Prepended
    <3> QED
      BY <3>1, Zenon DEF AtStart, Received
  <2>6. Added(m, dst, new, l)
    BY <1>7, <2>5, Zenon DEF Added
  <2> QED
    BY <1>2, <1>7, <2>5, <2>6 DEF m
<1> QED
  BY <1>6, <1>7

(* The result flag is all that changes.                                      *)
LEMMA TouchedIs ==
  ASSUME NEW h \in HintSet
  PROVE  Alike(Touched(h), h)
<1> DEFINE g == Touched(h)
<1>1. /\ g \in HintSet /\ g.left = h.left /\ g.update = h.update /\ g.move = h.move /\ g.pos = h.pos
      /\ g.moved = h.moved /\ g.items_number = h.items_number /\ g.items_bytes = h.items_bytes
  BY DEF HintSet, Touched
<1> HIDE DEF g
<1> QED
  BY <1>1 DEF Alike, SameMode, g

(* Nothing goes: the insert point has not moved either.                     *)
LEMMA NoneGo ==
  ASSUME NEW src, NEW dst, NEW h, NEW v, Sane(src, dst, h, v), NEW g, Counting(src, dst, h, g), g.items_number = 0
  PROVE  Sane(src, dst, g, v)
<1>1. NodeOK(src) /\ NodeOK(dst) /\ Borders(src, dst, h.left) /\ LeftPoint(src, h) /\ Carries(src, dst, h, v)
      /\ h \in HintSet
  BY DEF Sane
<1>2. /\ g \in HintSet /\ ModeOK(g) /\ g.left = h.left /\ g.update = h.update /\ g.move = h.move
      /\ h.left /\ h.update => g.pos.item + 0 = h.pos.item /\ g.pos.unit = h.pos.unit
      /\ ~h.left /\ ~h.move => g.pos = h.pos
  BY DEF Counting
<1>3. g.pos.item + 0 = g.pos.item
  BY <1>2, HintFields
<1>4. LeftPoint(src, g)
  <2> SUFFICES ASSUME h.left, h.update PROVE LeftPoint(src, g)
    BY <1>2 DEF LeftPoint
  <2>1. g.pos.item = h.pos.item /\ g.pos.unit = h.pos.unit
    BY <1>2, <1>3
  <2> QED
    BY <1>1, <1>2, <2>1 DEF LeftPoint
<1>5. ASSUME h.update, ~h.move PROVE g.pos = h.pos
  <2>1. g.pos \in PointSet /\ h.pos \in PointSet
    BY <1>1, <1>2, HintFields DEF PointSet
  <2>2. CASE h.left
    BY <1>2, <1>3, <1>5, <2>1, <2>2, SamePoint
  <2>3. CASE ~h.left
    BY <1>2, <1>5, <2>3
  <2> QED
    BY <2>2, <2>3
<1>6. Carries(src, dst, g, v)
  BY <1>1, <1>2, <1>5, CarriesOn
<1> QED
  BY <1>1, <1>2, <1>4, <1>6 DEF Sane

(* The insert point of a shift to the left is so many items nearer to the   *)
(* start of the node.                                                       *)
LEMMA PointNearer ==
  ASSUME NEW src, NodeOK(src), NEW h \in HintSet, LeftPoint(src, h), NEW g \in HintSet,
         g.left = h.left, g.update = h.update, NEW k \in 1 .. Len(src.items),
         h.left /\ h.update => g.pos.item + k = h.pos.item /\ g.pos.unit = h.pos.unit,
         NEW r, h.left => FromBehind(r, src, k)
  PROVE  LeftPoint(r, g)
<1> SUFFICES ASSUME h.left, h.update, g.pos.unit # MAX_UINT32
             PROVE  g.pos.item < Len(r.items) /\ g.pos.unit =< r.items[g.pos.item + 1].len
  BY DEF LeftPoint
<1> DEFINE i == g.pos.item  N == Len(src.items)
<1>1. i \in Nat /\ N \in Nat
  <2>1. src.items \in Seq(GoodItems)
    BY DEF NodeOK
  <2> QED
    BY <2>1, HintFields
<1>2. i + k = h.pos.item /\ g.pos.unit = h.pos.unit
  OBVIOUS
<1>3. h.pos.item < N /\ h.pos.unit =< src.items[h.pos.item + 1].len
  BY <1>2 DEF LeftPoint
<1>4. Len(r.items) = N - k /\ \A j \in 1 .. N - k : r.items[j] = src.items[j + k]
  BY DEF FromBehind
<1> HIDE DEF i, N
<1>5. i < N - k /\ i + 1 \in 1 .. N - k /\ (i + 1) + k = (i + k) + 1
  BY <1>1, <1>2, <1>3
<1>6. r.items[i + 1] = src.items[h.pos.item + 1]
  BY <1>2, <1>4, <1>5
<1> QED
  BY <1>2, <1>3, <1>4, <1>5, <1>6 DEF i

(* The insert point stays among the units when whole items go.              *)
LEMMA WholePoint ==
  ASSUME NEW src, NodeOK(src), NEW dst, NodeOK(dst), NEW r, NodeOK(r), NEW m, NEW l \in BOOLEAN,
         NEW new \in Seq(GoodItems), Parted(r, src, new, l), Added(m, dst, new, l),
         NEW p \in PointSet, NEW gap, Pointed(src, dst, l, p, gap),
         NEW q \in PointSet, l => q.item + Len(new) = p.item /\ q.unit = p.unit,
         ~l => q = p /\ Spared(src.items, p, Len(new))
  PROVE  Pointed(r, m, l, q, gap)
<1> DEFINE a == Count(m.items)  b == Count(dst.items)  x == Gap(r.items, q)  y == Gap(src.items, p)
<1>1. There(src, p) /\ (IF l THEN b ELSE 0) + y = gap
  BY Zenon DEF Pointed, Mark
<1>2. CASE l
  <2>1. src.items = new \o r.items /\ m.items = dst.items \o new
    BY <1>2 DEF Parted, Added
  <2>2. PICK k : k = Len(new) /\ q.item + k = p.item /\ q.unit = p.unit
    BY <1>2
  <2>3. There(r, q) /\ a + x = b + y
    <3> HIDE DEF a, b, x, y
    <3>1. FrontGoes(src, dst, r, m, new, k, p, q)
      BY <1>1, <2>1, <2>2, Zenon DEF FrontGoes
    <3>2. There(r, q) /\ Count(m.items) + Gap(r.items, q) = Count(dst.items) + Gap(src.items, p)
      BY <3>1, FrontWhole, SMT
    <3> QED
      BY <3>2, Zenon DEF a, b, x, y
  <2> HIDE DEF a, b, x, y
  <2>4. Mark(r, m, l, q) = gap
    BY <1>1, <1>2, <2>3, Zenon DEF Mark, a, x
  <2> QED
    BY <2>3, <2>4, Zenon DEF Pointed
<1>3. CASE ~l
  <2>1. src.items = r.items \o new
    BY <1>3 DEF Parted
  <2>2. There(r, p) /\ Gap(r.items, p) = y
    BY <1>1, <1>3, <2>1, BackWhole
  <2> HIDE DEF a, b, y
  <2>3. Mark(r, m, l, q) = gap
    BY <1>1, <1>3, <2>2, Zenon DEF Mark
  <2> QED
    BY <1>3, <2>2, <2>3, Zenon DEF Pointed
<1> QED
  BY <1>2, <1>3

(* Whole items that were counted leave the source and arrive in the          *)
(* destination, both right behind it.                                        *)
LEMMA SomeGo ==
  ASSUME NEW src, NEW dst, NEW h, NEW v, Sane(src, dst, h, v), Ready(src, dst, h),
         NEW g, Counting(src, dst, h, g), NEW k, k = g.items_number, k # 0, g.items_bytes # 0,
         NEW l, l = g.left,
         NEW r, r = node40_shrink(src, Pos(From(src, l, k), MAX_UINT32), g.items_bytes, k),
         NEW m, m = node40_expand(dst, Pos(To(dst, l), MAX_UINT32), g.items_bytes, Taken(src, l, k))
  PROVE  Sane(r, m, Touched(g), v)
<1> DEFINE new == Taken(src, l, k)  p == From(src, l, k)
<1>1. NodeOK(src) /\ NodeOK(dst) /\ h \in HintSet /\ LeftPoint(src, h) /\ Carries(src, dst, h, v)
  BY DEF Sane
<1>2. /\ g \in HintSet /\ ModeOK(g) /\ l = h.left /\ g.update = h.update /\ g.move = h.move
      /\ k =< Len(src.items) /\ g.items_bytes = SumLen(new) /\ g.units_bytes + Weight(new) = dst.free
      /\ h.left /\ h.update => g.pos.item + k = h.pos.item /\ g.pos.unit = h.pos.unit
      /\ ~h.left /\ ~h.move => g.pos = h.pos
      /\ ~h.left /\ h.update /\ ~h.move => Spared(src.items, h.pos, k)
      /\ ~Stuck(src, dst, h)
  BY DEF Counting
<1>3. Joined(src, dst, l)
  BY <1>2 DEF Ready
<1>4. k \in 1 .. Len(src.items) /\ l \in BOOLEAN
  <2>1. src.items \in Seq(GoodItems)
    BY <1>1 DEF NodeOK
  <2>2. k \in Nat /\ l \in BOOLEAN
    BY <1>2, HintFields
  <2> QED
    BY <1>2, <2>1, <2>2
<1>5. new = Taken(src, l, k) /\ p = From(src, l, k)
  OBVIOUS
<1>6. r = node40_shrink(src, Pos(p, MAX_UINT32), g.items_bytes, k)
      /\ m = node40_expand(dst, Pos(To(dst, l), MAX_UINT32), SumLen(new), new)
  BY <1>2
<1> HIDE DEF new, p
<1>7. Weight(new) =< dst.free
  <2>1. new \in Seq(GoodItems)
    BY <1>1, <1>4, <1>5, TakenFacts
  <2>2. Weight(new) \in Nat
    <3>1. new \in Seq(ItemSet) /\ <<>> \in Seq(ItemSet)
      BY <2>1, GoodSeqs
    <3> QED
      BY <3>1, WeightConcat
  <2>3. g.units_bytes \in Nat
    BY <1>2, HintFields
  <2> DEFINE w == Weight(new)
  <2> HIDE DEF w
  <2>4. w =< dst.free
    BY <1>2, <2>2, <2>3 DEF w
  <2> QED
    BY <2>4 DEF w
<1>8. /\ NodeOK(m)
      /\ l => m.items[Len(m.items)] = src.items[p + k]
      /\ ~l => m.items[1] = src.items[p + 1]
      /\ Added(m, dst, new, l)
  BY <1>1, <1>3, <1>4, <1>5, <1>6, <1>7, Goes
<1>9. NodeOK(r) /\ Borders(r, m, l) /\ (l => FromBehind(r, src, k)) /\ Parted(r, src, new, l)
  <2> DEFINE len == g.items_bytes
  <2>1. len = SumLen(Taken(src, l, k)) /\ r = node40_shrink(src, Pos(p, MAX_UINT32), len, k)
    BY <1>2, <1>5, <1>6
  <2> HIDE DEF len
  <2> QED
    BY <1>1, <1>4, <1>5, <1>8, <2>1, Stays
<1>10. LeftPoint(r, g)
  BY <1>1, <1>2, <1>4, <1>9, PointNearer
<1>12. Carries(r, m, g, v)
  <2>1. new \in Seq(GoodItems) /\ Len(new) = k
    BY <1>1, <1>4, <1>5, TakenFacts
  <2>2. Held(r, m, l) = Held(src, dst, l)
    BY <1>1, <1>4, <1>8, <1>9, <2>1, WholeHeld
  <2>3. g.pos \in PointSet /\ h.pos \in PointSet
    BY <1>1, <1>2, HintFields DEF PointSet
  <2>4. ASSUME NEW gap, h.update, ~h.move, Pointed(src, dst, l, h.pos, gap)
        PROVE  Pointed(r, m, l, g.pos, gap)
    <3> DEFINE a == h.pos  b == g.pos
    <3>1. /\ l => b.item + Len(new) = a.item /\ b.unit = a.unit
          /\ ~l => b = a /\ Spared(src.items, a, Len(new))
      BY <1>2, <2>1, <2>4
    <3>2. a \in PointSet /\ b \in PointSet /\ Pointed(src, dst, l, a, gap)
      BY <2>3, <2>4
    <3> HIDE DEF a, b
    <3>3. Pointed(r, m, l, b, gap)
      BY <1>1, <1>4, <1>8, <1>9, <2>1, <3>1, <3>2, WholePoint
    <3> QED
      BY <3>3 DEF b
  <2>5. Held(r, m, h.left) = Held(src, dst, h.left) /\ g.left = h.left /\ g.update = h.update /\ g.move = h.move
    BY <1>2, <2>2
  <2>6. \A gap : h.update /\ ~h.move /\ Pointed(src, dst, h.left, h.pos, gap) => Pointed(r, m, h.left, g.pos, gap)
    BY <1>2, <2>4
  <2> QED
    BY <1>1, <2>5, <2>6, CarriesOver
<1>11. Sane(r, m, g, v)
  BY <1>2, <1>8, <1>9, <1>10, <1>12 DEF Sane
<1> QED
  BY <1>2, <1>11, TouchedIs, AlikeSane

(* node40_move() keeps the nodes in order.                                  *)
LEMMA MoveOK ==
  ASSUME NEW src, NEW dst, NEW h, NEW v, Sane(src, dst, h, v), Ready(src, dst, h),
         h.items_number = 0, h.items_bytes = 0
  PROVE  Went(node40_move(St(src, dst, h)), h, v)
<1> DEFINE s == St(src, dst, h)  g == node40_predict(s)
<1>1. IF src.items = <<>> THEN g = h ELSE Counting(src, dst, h, g)
  BY PredictCounts
<1>2. node40_move(s) = MovePredicted(s, g)
  BY DEF node40_move
<1> HIDE DEF g
<1>3. MovePredicted(s, g) =
        IF g.items_number = 0 \/ g.items_bytes = 0 THEN St(src, dst, g)
        ELSE St(node40_shrink(src, Pos(From(src, g.left, g.items_number), MAX_UINT32), g.items_bytes, g.items_number),
                node40_expand(dst, Pos(To(dst, g.left), MAX_UINT32), g.items_bytes,
                              Taken(src, g.left, g.items_number)),
                Touched(g))
  BY MovePredictedIs
<1> HIDE DEF s
<1>4. CASE src.items = <<>>
  <2>1. node40_move(s) = St(src, dst, h)
    BY <1>1, <1>2, <1>3, <1>4
  <2> QED
    BY <2>1, WentIs DEF s
<1>5. CASE src.items # <<>>
  <2>1. Counting(src, dst, h, g)
    BY <1>1, <1>5
  <2>2. /\ g \in HintSet /\ g.left = h.left /\ g.update = h.update /\ g.move = h.move
    BY <2>1 DEF Counting
  <2>3. CASE g.items_number = 0
    <3>1. node40_move(s) = St(src, dst, g)
      BY <1>2, <1>3, <2>3
    <3>2. Sane(src, dst, g, v)
      BY <2>1, <2>3, NoneGo
    <3> QED
      BY <2>2, <3>1, <3>2, WentIs DEF s
  <2>4. CASE g.items_number # 0
    <3> DEFINE k == g.items_number  l == g.left
               r == node40_shrink(src, Pos(From(src, l, k), MAX_UINT32), g.items_bytes, k)
               m == node40_expand(dst, Pos(To(dst, l), MAX_UINT32), g.items_bytes, Taken(src, l, k))
    <3>1. g.items_bytes # 0
      <4> DEFINE new == Taken(src, l, k)
      <4>1. k \in 1 .. Len(src.items) /\ l \in BOOLEAN /\ NodeOK(src)
        <5>1. k \in Nat /\ l \in BOOLEAN
          BY <2>2, HintFields
        <5>2. k =< Len(src.items) /\ NodeOK(src)
          BY <2>1 DEF Counting, Sane
        <5>3. Len(src.items) \in Nat
          BY <5>2 DEF NodeOK
        <5> QED
          BY <2>4, <5>1, <5>2, <5>3
      <4>2. new \in Seq(GoodItems) /\ new # <<>>
        <5> HIDE DEF k, l
        <5> QED
          BY <4>1, TakenFacts
      <4>3. g.items_bytes = SumLen(new)
        BY <2>1, <2>2 DEF Counting
      <4> HIDE DEF new
      <4>4. SumLen(new) \in Nat /\ SumLen(new) > 0
        BY <4>2, GoodSeqs, SumPositive
      <4> DEFINE b == g.items_bytes
      <4>5. b \in Nat /\ b > 0
        BY <4>3, <4>4
      <4> HIDE DEF b
      <4>6. b # 0
        BY <4>5
      <4> QED
        BY <4>6 DEF b
    <3>2. node40_move(s) = St(r, m, Touched(g))
      BY <1>2, <1>3, <2>4, <3>1
    <3>3. Sane(r, m, Touched(g), v)
      <4>1. k = g.items_number /\ l = g.left /\ k # 0
        BY <2>4
      <4> HIDE DEF k, l
      <4> QED
        BY <2>1, <3>1, <4>1, SomeGo
    <3>4. Touched(g).left = g.left /\ Touched(g).update = g.update /\ Touched(g).move = g.move
      BY <2>2, TouchedIs DEF Alike, SameMode
    <3> HIDE DEF r, m
    <3> QED
      BY <2>2, <3>2, <3>3, <3>4, WentIs DEF s
  <2> QED
    BY <2>3, <2>4
<1> QED
  BY <1>4, <1>5

-----------------------------------------------------------------------------
(* node40_shift() *)

\* What a shift leaves of the two nodes, and of the insert point if it is held
Sound(t, l, held, v) ==
  /\ NodeOK(t.src) /\ NodeOK(t.dst) /\ Borders(t.src, t.dst, l)
  /\ Held(t.src, t.dst, l) = v.units
  /\ held => Pointed(t.src, t.dst, l, t.hint.pos, v.gap)

\* The insert point is held if it is to be updated and may not move.
Holdup(h) == h.update /\ ~h.move

(* A state between two passes is what a shift may end in.                    *)
LEMMA SaneSound ==
  ASSUME NEW src, NEW dst, NEW g, NEW v, Sane(src, dst, g, v),
         NEW t, t.src = src, t.dst = dst, NEW h, g.left = h.left, g.update = h.update, g.move = h.move,
         Holdup(h) => t.hint.pos = g.pos
  PROVE  Sound(t, h.left, Holdup(h), v)
<1>1. NodeOK(src) /\ NodeOK(dst) /\ Borders(src, dst, g.left) /\ Held(src, dst, g.left) = v.units
      /\ (g.update /\ ~g.move => Pointed(src, dst, g.left, g.pos, v.gap))
  BY Zenon DEF Sane, Carries
<1>2. Holdup(h) => Pointed(src, dst, h.left, t.hint.pos, v.gap)
  <2> SUFFICES ASSUME Holdup(h) PROVE Pointed(src, dst, h.left, t.hint.pos, v.gap)
    OBVIOUS
  <2>1. g.update /\ ~g.move /\ t.hint.pos = g.pos
    BY DEF Holdup
  <2> QED
    BY <1>1, <2>1
<1>3. Held(src, dst, h.left) = v.units /\ Borders(src, dst, h.left)
  BY <1>1
<1> QED
  BY <1>1, <1>2, <1>3, Zenon DEF Sound

(* The correction of the insert point behind a shift leaves the nodes        *)
(* alone, and a point that did not move.                                    *)
LEMMA PointBehindKeeps ==
  ASSUME NEW t
  PROVE  /\ PointBehind(t).src = t.src /\ PointBehind(t).dst = t.dst
         /\ ~t.hint.moved => PointBehind(t).hint = t.hint
<1>1. CASE t.hint.update /\ t.hint.moved /\ t.hint.units_number = 0 /\ t.hint.create
  <2> DEFINE g == [t.hint EXCEPT !.pos.unit = MAX_UINT32]
  <2>1. PointBehind(t) = [t EXCEPT !.hint.pos.unit = MAX_UINT32]
    BY <1>1, Zenon DEF PointBehind
  <2>2. PointBehind(t).src = t.src /\ PointBehind(t).dst = t.dst
    BY <2>1
  <2> QED
    BY <1>1, <2>2
<1>2. CASE ~(t.hint.update /\ t.hint.moved /\ t.hint.units_number = 0 /\ t.hint.create)
  <2>1. PointBehind(t) = t
    BY <1>2, Zenon DEF PointBehind
  <2> QED
    BY <2>1
<1> QED
  BY <1>1, <1>2

(* The three passes of node40_shift() leave the two nodes exact, each in    *)
(* order with nothing to merge in it, and in order next to one another.     *)
LEMMA ShiftOK ==
  ASSUME NEW src, NEW dst, NEW h, NEW v, Sane(src, dst, h, v), h.merge,
         h.items_number = 0, h.items_bytes = 0, h.move => dst.items = <<>>
  PROVE  Sound(node40_shift(src, dst, h), h.left, Holdup(h), v)
<1> DEFINE t1 == node40_unite(St(src, dst, h), FALSE)
           t2 == SecondPass(t1)
           t3 == ThirdPass(t2)
<1>1. United(t1, h, FALSE, v)
  BY UniteOK
<1> HIDE DEF t1
<1>2. /\ t1 = St(t1.src, t1.dst, t1.hint) /\ Sane(t1.src, t1.dst, t1.hint, v) /\ SameMode(t1.hint, h)
      /\ Ready(t1.src, t1.dst, t1.hint)
  BY <1>1, Zenon DEF United, Passed
<1>3. /\ t1.hint.left = h.left /\ t1.hint.update = h.update /\ t1.hint.move = h.move
      /\ t1.hint.items_number = 0 /\ t1.hint.items_bytes = 0
  BY <1>2 DEF SameMode
<1>4. /\ t2 = St(t2.src, t2.dst, t2.hint) /\ Sane(t2.src, t2.dst, t2.hint, v)
      /\ t2.hint.left = h.left /\ t2.hint.update = h.update /\ t2.hint.move = h.move
  <2>1. CASE t1.hint.moved
    <3>1. t2 = t1
      BY <2>1, Zenon DEF SecondPass
    <3> HIDE DEF t2
    <3> QED
      BY <1>2, <1>3, <3>1
  <2>2. CASE ~t1.hint.moved
    <3>1. t2 = node40_move(t1)
      BY <2>2, Zenon DEF SecondPass
    <3> DEFINE a == t1.src  b == t1.dst  g == t1.hint
    <3>2. t1 = St(a, b, g) /\ Sane(a, b, g, v) /\ Ready(a, b, g) /\ g.items_number = 0 /\ g.items_bytes = 0
          /\ g.left = h.left /\ g.update = h.update /\ g.move = h.move
      BY <1>2, <1>3
    <3> HIDE DEF a, b, g, t2
    <3>3. Went(node40_move(St(a, b, g)), g, v)
      BY <3>2, MoveOK
    <3>4. Went(t2, g, v)
      BY <3>1, <3>2, <3>3
    <3> QED
      BY <3>2, <3>4, Zenon DEF Went
  <2> QED
    BY <2>1, <2>2
<1> HIDE DEF t2
<1>5. Sound(t3, h.left, Holdup(h), v)
  <2>1. CASE t2.hint.moved
    <3>1. t3 = t2
      BY <2>1, Zenon DEF ThirdPass
    <3> DEFINE a == t2.src  b == t2.dst  g == t2.hint
    <3>2. t3.src = a /\ t3.dst = b /\ t3.hint.pos = g.pos /\ Sane(a, b, g, v)
          /\ g.left = h.left /\ g.update = h.update /\ g.move = h.move
      BY <1>4, <3>1
    <3> HIDE DEF t3, a, b, g
    <3> QED
      BY <3>2, SaneSound
  <2>2. CASE ~t2.hint.moved
    <3> DEFINE a == t2.src  b == t2.dst  g == t2.hint  u == node40_unite(t2, TRUE)
    <3>1. t3 = PointBehind(u)
      BY <2>2, Zenon DEF ThirdPass
    <3>2. t2 = St(a, b, g) /\ Sane(a, b, g, v) /\ g.left = h.left /\ g.update = h.update /\ g.move = h.move
      BY <1>4
    <3> HIDE DEF a, b, g, t3
    <3>3. United(node40_unite(St(a, b, g), TRUE), g, TRUE, v)
      BY <3>2, UniteOK
    <3>4. United(u, g, TRUE, v)
      BY <3>2, <3>3
    <3> HIDE DEF u
    <3> DEFINE c == u.src  d == u.dst  f == u.hint
    <3>5. Sane(c, d, f, v) /\ f.left = h.left /\ f.update = h.update /\ f.move = h.move
      BY <3>2, <3>4, Zenon DEF United, Passed, SameMode
    <3>6. t3.src = c /\ t3.dst = d /\ (~f.moved => t3.hint = f)
      BY <3>1, PointBehindKeeps
    <3>7. Holdup(h) => t3.hint.pos = f.pos
      BY <3>5, <3>6 DEF Holdup, Sane, ModeOK
    <3> HIDE DEF c, d, f
    <3> QED
      BY <3>5, <3>6, <3>7, SaneSound
  <2> QED
    BY <2>1, <2>2
<1>6. node40_shift(src, dst, h) = Shifted(FALSE, t3)
  BY Zenon DEF node40_shift, t1, t2, St
<1> HIDE DEF t3
<1>7. Shifted(FALSE, t3).src = t3.src /\ Shifted(FALSE, t3).dst = t3.dst /\ Shifted(FALSE, t3).hint = t3.hint
  BY DEF Shifted
<1> QED
  BY <1>5, <1>6, <1>7, Zenon DEF Sound

-----------------------------------------------------------------------------
(* New items *)

(* The first key of an object is its own first key.                         *)
LEMMA FirstOf ==
  ASSUME NEW o \in Nat
  PROVE  o * KeySpan \in Nat /\ First(o * KeySpan) = o * KeySpan
<1> DEFINE a == o * KeySpan  q == a \div KeySpan  K == KeySpan
<1>0. K \in Nat /\ K > 0
  BY NodeConstants
<1>1. a \in Nat
  BY <1>0
<1>2. q \in Nat /\ q * K =< a /\ a < q * K + K
  BY <1>0, <1>1, DivBounds
<1>3. First(a) = q * K /\ a = o * K
  BY DEF First
<1> HIDE DEF a, q, K
<1>4. ASSUME NEW u \in Nat, NEW v \in Nat, u < v PROVE u * K + K =< v * K
  <2>1. PICK d \in Nat : v = (u + 1) + d
    <3>1. v - (u + 1) \in Nat /\ v = (u + 1) + (v - (u + 1))
      BY <1>4
    <3> QED
      BY <3>1
  <2>2. ((u + 1) + d) * K = (u * K + K) + d * K /\ d * K \in Nat /\ u * K \in Nat
    BY <1>0
  <2> QED
    BY <1>0, <2>1, <2>2
<1>5. q * K \in Nat /\ o * K \in Nat
  BY <1>0, <1>2
<1>6. ~(o < q)
  <2>1. o < q => o * K + K =< q * K
    BY <1>2, <1>4
  <2> QED
    BY <1>0, <1>2, <1>3, <1>5, <2>1
<1>7. ~(q < o)
  <2>1. q < o => q * K + K =< o * K
    BY <1>2, <1>4
  <2> QED
    BY <1>0, <1>2, <1>3, <1>5, <2>1
<1>8. q = o
  BY <1>2, <1>6, <1>7
<1> QED
  BY <1>1, <1>3, <1>8 DEF a, K

(* A key with an offset lies behind the first key of its object.            *)
LEMMA BehindFirst ==
  ASSUME NEW k \in Nat, k % KeySpan # 0
  PROVE  First(k) < k
<1>1. KeySpan \in Nat \ {0}
  BY NodeConstants
<1>2. First(k) \in Nat /\ First(k) =< k
  BY FirstFacts
<1>3. First(k) = k => k % KeySpan = 0
  BY <1>1 DEF First
<1> QED
  BY <1>2, <1>3

(* An item for tree_insert() or tree_write() that fits its object is good.  *)
LEMMA NewGood ==
  ASSUME NEW it \in NewItems, Fits(it)
  PROVE  it \in GoodItems /\ [it EXCEPT !.len = it.len] = it
<1>0. MaxTail \in Nat /\ Objects \in Nat /\ KeySpan \in Nat /\ KeySpan > 0
  BY NodeConstants, PairConstants
<1>1. it = [key |-> it.key, kind |-> it.kind, len |-> it.len]
  BY DEF NewItems
<1>2. \/ it.kind = "sd" /\ it.key \in SdKeys /\ it.len \in 1 .. 2
      \/ it.kind = "tail" /\ it.key \in BodyKeys /\ it.len \in 1 .. MaxTail
  BY DEF NewItems, Lens
<1>3. it.kind \in Kinds /\ it.len \in Nat \ {0}
  BY <1>0, <1>2 DEF Kinds
<1>4. it.key \in Nat /\ IF it.kind = "tail" THEN First(it.key) < it.key ELSE it.key = First(it.key)
  <2>1. CASE it.kind = "sd" /\ it.key \in SdKeys
    <3>1. PICK o \in 0 .. Objects - 1 : it.key = o * KeySpan
      BY <2>1 DEF SdKeys
    <3>2. o \in Nat
      BY <1>0
    <3> QED
      BY <2>1, <3>1, <3>2, FirstOf
  <2>2. CASE it.kind = "tail" /\ it.key \in BodyKeys
    <3>1. it.key \in Nat /\ it.key % KeySpan # 0
      BY <2>2 DEF BodyKeys
    <3> QED
      BY <2>2, <3>1, BehindFirst
  <2> QED
    BY <1>2, <2>1, <2>2
<1>5. it \in ItemSet
  BY <1>1, <1>3, <1>4 DEF ItemSet
<1>6. LastKey(it) < First(it.key) + KeySpan
  <2>1. LastKey(it) =< body40_maxposs_key(it)
    BY DEF Fits
  <2>2. body40_maxposs_key(it) = First(it.key) + (KeySpan - 1)
    BY DEF body40_maxposs_key, First
  <2>3. LastKey(it) \in Int
    <3>1. it.kind = "tail" => LastKey(it) = (it.key + it.len) - 1
      BY <1>3, <1>4 DEF LastKey, Splittable, tail40_maxreal_key
    <3>2. it.kind # "tail" => LastKey(it) = it.key
      BY DEF LastKey, Splittable
    <3> QED
      BY <1>3, <1>4, <3>1, <3>2
  <2>4. First(it.key) \in Nat
    BY <1>4, FirstFacts
  <2> DEFINE L == LastKey(it)  F == First(it.key)
  <2>5. L \in Int /\ F \in Nat /\ L =< F + (KeySpan - 1)
    BY <2>1, <2>2, <2>3, <2>4
  <2> HIDE DEF L, F
  <2>6. L < F + KeySpan
    BY <1>0, <2>5
  <2> QED
    BY <2>6 DEF L, F
<1>7. it \in GoodItems
  BY <1>4, <1>5, <1>6 DEF GoodItems, Good, Splittable
<1> QED
  BY <1>1, <1>7

-----------------------------------------------------------------------------
(* The pair *)

\* Both nodes are right, and in order next to one another.
PairOK(l, r) == NodeOK(l) /\ NodeOK(r) /\ Border(l.items, r.items)

Ours(n) == n = left \/ n = right

(* Two sequences in order, and in order where they meet.                    *)
LEMMA OrderedConcat ==
  ASSUME NEW S, NEW s \in Seq(S), NEW t \in Seq(S), Ordered(s \o t)
  PROVE  Ordered(s) /\ Ordered(t) /\ Border(s, t)
<1> DEFINE m == Len(s)  n == Len(t)  st == s \o t
<1>1. /\ m \in Nat /\ n \in Nat /\ Len(st) = m + n
      /\ \A i \in 1 .. m + n : st[i] = IF i <= m THEN s[i] ELSE t[i - m]
      /\ (s # <<>> <=> m # 0) /\ (t # <<>> <=> n # 0)
  BY ConcatProperties, EmptySeq
<1>2. \A i \in 1 .. Len(st) - 1 : Precedes(st[i], st[i + 1])
  BY DEF Ordered
<1> HIDE DEF m, n, st
<1>3. \A i \in 1 .. m : st[i] = s[i]
  <2>1. \A i \in 1 .. m : i \in 1 .. m + n /\ i <= m
    BY <1>1
  <2> QED
    BY <1>1, <2>1
<1>4. \A i \in 1 .. n : st[m + i] = t[i]
  <2>1. \A i \in 1 .. n : m + i \in 1 .. m + n /\ ~(m + i <= m) /\ (m + i) - m = i
    BY <1>1
  <2> QED
    BY <1>1, <2>1
<1>5. ASSUME NEW i \in 1 .. m - 1 PROVE Precedes(s[i], s[i + 1])
  <2>1. i \in 1 .. m /\ i + 1 \in 1 .. m /\ i \in 1 .. Len(st) - 1
    BY <1>1
  <2> QED
    BY <1>2, <1>3, <2>1
<1>6. ASSUME NEW i \in 1 .. n - 1 PROVE Precedes(t[i], t[i + 1])
  <2>1. i \in 1 .. n /\ i + 1 \in 1 .. n /\ m + i \in 1 .. Len(st) - 1 /\ (m + i) + 1 = m + (i + 1)
    BY <1>1
  <2> QED
    BY <1>2, <1>4, <2>1
<1>7. ASSUME m # 0, n # 0 PROVE Precedes(s[m], t[1])
  <2>1. m \in 1 .. m /\ 1 \in 1 .. n /\ m \in 1 .. Len(st) - 1
    BY <1>1, <1>7
  <2> QED
    BY <1>2, <1>3, <1>4, <2>1
<1> QED
  BY <1>1, <1>5, <1>6, <1>7 DEF Ordered, Border, m, n

(* The items of either node are items of the pair.                          *)
LEMMA InPair ==
  ASSUME PairOK(left, right)
  PROVE  /\ ToSet(left.items \o right.items) \subseteq GoodItems
         /\ \A n : Ours(n) => \A j \in 1 .. Len(n.items) : n.items[j] \in ToSet(left.items \o right.items)
<1> DEFINE s == left.items  t == right.items  m == Len(s)  n == Len(t)  st == s \o t
<1>1. s \in Seq(GoodItems) /\ t \in Seq(GoodItems)
  BY DEF PairOK, NodeOK
<1>0. st \in Seq(GoodItems) /\ m \in Nat /\ n \in Nat
  BY <1>1, ConcatProperties, LenProperties
<1>2. /\ Len(st) = m + n
      /\ \A i \in 1 .. m + n : st[i] = IF i <= m THEN s[i] ELSE t[i - m]
  BY <1>1, ConcatProperties
<1>3. ToSet(st) = {st[i] : i \in 1 .. m + n}
  <2>1. DOMAIN st = 1 .. m + n
    BY <1>0, <1>2, LenProperties
  <2> HIDE DEF st, m, n
  <2> QED
    BY <2>1 DEF ToSet
<1>4. \A i \in 1 .. m + n : st[i] \in GoodItems
  BY <1>0, <1>2, ElementOfSeq
<1> HIDE DEF st, m, n
<1>5. \A i \in 1 .. m : s[i] \in ToSet(st)
  <2>1. \A i \in 1 .. m : i \in 1 .. m + n /\ i <= m
    BY <1>0
  <2> QED
    BY <1>2, <1>3, <2>1
<1>6. \A i \in 1 .. n : t[i] \in ToSet(st)
  <2>1. \A i \in 1 .. n : m + i \in 1 .. m + n /\ ~(m + i <= m) /\ (m + i) - m = i
    BY <1>0
  <2> QED
    BY <1>2, <1>3, <2>1
<1> QED
  BY <1>3, <1>4, <1>5, <1>6 DEF Ours, st, m, n

(* The tails of the object of an item are its body.                         *)
LEMMA InBody ==
  ASSUME PairOK(left, right), NEW it \in GoodItems, NEW x \in ToSet(left.items \o right.items),
         x.kind = "tail", First(x.key) = First(it.key)
  PROVE  x \in Body(it)
<1>1. x \in GoodItems
  BY InPair
<1>2. x.key \in Nat /\ it.key \in Nat
  BY <1>1, ItemFacts
<1>3. x.key \div KeySpan = it.key \div KeySpan
  <2>1. CASE x.key =< it.key
    BY <1>2, <2>1, Apart
  <2>2. CASE it.key =< x.key
    BY <1>2, <2>2, Apart
  <2> QED
    BY <1>2, <2>1, <2>2
<1> QED
  BY <1>3, Zenon DEF Body, Splittable

-----------------------------------------------------------------------------
(* Insert *)

Side(isleft) == IF isleft THEN left ELSE right

\* The pair with m for one of its nodes
Fresh(m, isleft) == IF isleft THEN PairOK(m, right) ELSE PairOK(left, m)

\* Where a tail may be written that is not the first of its file
WrittenBehind(it, isleft, i) ==
  Splittable(it) /\ Body(it) # {} =>
    /\ ~isleft /\ i = 0
    /\ \E x \in Body(it) : IsLast(x) /\ reiser4_item_mergeable(x, it)

(* A new item is not mergeable with the item that it is put behind.         *)
LEMMA NewBehind ==
  ASSUME PairOK(left, right), NEW it \in GoodItems, NEW isleft, NEW i, WrittenBehind(it, isleft, i), i # 0,
         NEW x \in ToSet(left.items \o right.items)
  PROVE  ~reiser4_item_mergeable(x, it)
<1> SUFFICES ASSUME reiser4_item_mergeable(x, it) PROVE FALSE
  OBVIOUS
<1>1. x \in GoodItems
  BY InPair
<1>2. x.kind = "tail" /\ it.kind = "tail" /\ First(x.key) = First(it.key)
  BY <1>1, Joins
<1>3. x \in Body(it)
  BY <1>2, InBody
<1>4. Splittable(it) /\ Body(it) # {}
  BY <1>2, <1>3 DEF Splittable
<1> QED
  BY <1>4, Zenon DEF WrittenBehind

(* Nor with the item that it is put in front of.                            *)
LEMMA NewBefore ==
  ASSUME PairOK(left, right), NEW it \in GoodItems, NEW isleft, NEW i, WrittenBehind(it, isleft, i),
         NEW y \in ToSet(left.items \o right.items)
  PROVE  ~reiser4_item_mergeable(it, y)
<1> SUFFICES ASSUME reiser4_item_mergeable(it, y) PROVE FALSE
  OBVIOUS
<1>1. y \in GoodItems
  BY InPair
<1>2. y.kind = "tail" /\ it.kind = "tail" /\ First(it.key) = First(y.key) /\ LastKey(it) + 1 = y.key
  BY <1>1, Joins
<1>3. y \in Body(it)
  BY <1>2, InBody
<1>4. Splittable(it) /\ Body(it) # {}
  BY <1>2, <1>3 DEF Splittable
<1>5. PICK x \in Body(it) : IsLast(x) /\ reiser4_item_mergeable(x, it)
  BY <1>4, Zenon DEF WrittenBehind
<1>6. x \in ToSet(left.items \o right.items)
  BY DEF Body
<1>7. x \in GoodItems
  BY <1>6, InPair
<1>8. First(x.key) = First(it.key) /\ LastKey(x) + 1 = it.key
  BY <1>5, <1>7, Joins
<1>9. y \in Body(x)
  BY <1>2, <1>7, <1>8, InBody
<1>10. y.key =< x.key
  BY <1>5, <1>9 DEF IsLast
<1> DEFINE a == x.key  b == it.key  c == y.key  K == LastKey(x)  L == LastKey(it)
<1>11. /\ a \in Nat /\ b \in Nat /\ c \in Nat /\ K \in Nat /\ L \in Nat
       /\ a =< K /\ K + 1 = b /\ b =< L /\ L + 1 = c /\ c =< a
  BY <1>1, <1>2, <1>7, <1>8, <1>10, ItemFacts
<1> HIDE DEF a, b, c, K, L
<1> QED
  BY <1>11

(* A new item leaves both nodes right.                                      *)
LEMMA InsertKeeps ==
  ASSUME PairOK(left, right), NEW isleft \in BOOLEAN, NEW it \in NewItems, Fits(it),
         NEW n, n = Side(isleft), NEW i \in 0 .. Len(n.items), WrittenBehind(it, isleft, i),
         n.free >= it.len + IhSize,
         NEW m, m = node40_modify(n, Pos(i, MAX_UINT32), it, it.len),
         Ordered(IF isleft THEN m.items \o right.items ELSE left.items \o m.items)
  PROVE  Fresh(m, isleft)
<1> DEFINE s == n.items  new == <<it>>  N == Len(n.items)
<1>1. it \in GoodItems /\ [it EXCEPT !.len = it.len] = it
  BY NewGood
<1>2. NodeOK(n) /\ Ours(n) /\ NodeOK(left) /\ NodeOK(right)
  BY DEF PairOK, Side, Ours
<1>3. s \in Seq(GoodItems) /\ N \in Nat /\ i \in Nat /\ n.free \in Nat
  BY <1>2, LenProperties DEF NodeOK
<1>4. m = node40_expand(n, Pos(i, MAX_UINT32), it.len, new)
  BY <1>1 DEF node40_modify
<1>5. /\ it.len \in Nat /\ it.len # 0 /\ it.len = SumLen(new) /\ Weight(new) =< n.free
  <2>1. it \in ItemSet /\ it.len \in Nat /\ it.len > 0
    BY <1>1, ItemFacts
  <2> QED
    BY <2>1, SumOne, WeightOne
<1>6. new \in Seq(GoodItems) /\ new # <<>> /\ Neat(new) /\ new[1] = it /\ new[Len(new)] = it
  BY <1>1, NeatOne
<1>7. m.items = (SubSeq(s, 1, i) \o new) \o SubSeq(s, i + 1, N)
  <2> DEFINE t == (SubSeq(s, 1, i) \o new) \o SubSeq(s, i + 1, N)  f == n.free - it.len - Len(new) * IhSize
  <2>1. Pos(i, MAX_UINT32).unit = MAX_UINT32 /\ Pos(i, MAX_UINT32).item = i
    BY DEF Pos
  <2>2. node40_expand(n, Pos(i, MAX_UINT32), it.len, new) = [items |-> t, free |-> f]
    BY <1>5, <2>1, Zenon DEF node40_expand
  <2> HIDE DEF t, f
  <2>3. m.items = t
    BY <1>4, <2>2
  <2> QED
    BY <2>3 DEF t
<1>8. /\ m.items \in Seq(GoodItems) /\ Len(m.items) = N + 1 /\ m.items[i + 1] = it
      /\ \A j \in 1 .. i : m.items[j] = s[j]
      /\ \A j \in i + 1 .. N : m.items[j + 1] = s[j]
  <2> DEFINE t == m.items
  <2>1. t = (SubSeq(s, 1, i) \o <<it>>) \o SubSeq(s, i + 1, Len(s)) /\ i \in 0 .. Len(s)
    BY <1>7
  <2> HIDE DEF t, s
  <2>2. Inserts(t, GoodItems, s, i, it)
    <3>1. s \in Seq(GoodItems) /\ it \in GoodItems
      BY <1>1, <1>3
    <3> QED
      BY <2>1, <3>1, Inserted, Zenon
  <2> QED
    BY <2>2, Zenon DEF Inserts, s, t, N
<1>9. Ordered(m.items) /\ (isleft => Border(m.items, right.items)) /\ (~isleft => Border(left.items, m.items))
  <2>1. left.items \in Seq(GoodItems) /\ right.items \in Seq(GoodItems)
    BY <1>2 DEF NodeOK
  <2> QED
    BY <1>8, <2>1, OrderedConcat
<1> HIDE DEF new
<1>10. i > 0 => Tight(s[i], it)
  <2> SUFFICES ASSUME i > 0 PROVE Tight(s[i], it)
    OBVIOUS
  <2>1. i \in 1 .. i /\ i \in 1 .. N /\ i # 0 /\ i \in 1 .. (N + 1) - 1
    BY <1>3
  <2>2. s[i] \in ToSet(left.items \o right.items)
    BY <1>2, <2>1, InPair
  <2>3. ~reiser4_item_mergeable(s[i], it)
    BY <1>1, <2>1, <2>2, NewBehind
  <2>4. Precedes(m.items[i], m.items[i + 1])
    BY <1>8, <1>9, <2>1 DEF Ordered
  <2>5. Precedes(s[i], it)
    BY <1>8, <2>1, <2>4
  <2> QED
    BY <2>3, <2>5 DEF Tight
<1>11. i < N => Tight(it, s[i + 1])
  <2> SUFFICES ASSUME i < N PROVE Tight(it, s[i + 1])
    OBVIOUS
  <2>1. i + 1 \in i + 1 .. N /\ i + 1 \in 1 .. N /\ i + 1 \in 1 .. (N + 1) - 1
    BY <1>3
  <2>2. s[i + 1] \in ToSet(left.items \o right.items)
    BY <1>2, <2>1, InPair
  <2>3. ~reiser4_item_mergeable(it, s[i + 1])
    BY <1>1, <2>2, NewBefore
  <2>4. Precedes(m.items[i + 1], m.items[(i + 1) + 1])
    BY <1>8, <1>9, <2>1 DEF Ordered
  <2>5. Precedes(it, s[i + 1])
    BY <1>8, <2>1, <2>4
  <2> QED
    BY <2>3, <2>5 DEF Tight
<1>12. NodeOK(m)
  <2>1. i \in 0 .. Len(n.items)
    OBVIOUS
  <2> HIDE DEF s, N
  <2>2. i > 0 => Tight(n.items[i], new[1])
    BY <1>6, <1>10 DEF s
  <2>3. i < Len(n.items) => Tight(new[Len(new)], n.items[i + 1])
    BY <1>6, <1>11 DEF s, N
  <2> QED
    BY <1>2, <1>4, <1>5, <1>6, <2>1, <2>2, <2>3, Expanded
<1> QED
  BY <1>2, <1>9, <1>12 DEF Fresh, PairOK

-----------------------------------------------------------------------------
(* AppendUnits *)

(* One item of a node exchanged for one that goes with the other node.      *)
LEMMA OneOther ==
  ASSUME PairOK(left, right), NEW isleft \in BOOLEAN, NEW n, n = Side(isleft),
         NEW j \in 1 .. Len(n.items), NEW m, NEW y, NEW f, Exchanged(m, n, j, y, f),
         isleft /\ j = Len(n.items) /\ right.items # <<>> => Precedes(y, right.items[1]),
         ~isleft /\ j = 1 /\ left.items # <<>> => Precedes(left.items[Len(left.items)], y)
  PROVE  Fresh(m, isleft)
<1>1. NodeOK(m) /\ Len(m.items) = Len(n.items) /\ m.items[j] = y
      /\ \A k \in 1 .. Len(n.items) : k # j => m.items[k] = n.items[k]
  BY Zenon DEF Exchanged, Instead
<1>2. NodeOK(left) /\ NodeOK(right) /\ Border(left.items, right.items)
  BY DEF PairOK
<1>3. CASE isleft
  <2>1. n = left /\ left.items \in Seq(GoodItems) /\ Len(left.items) \in Nat
    BY <1>2, <1>3, LenProperties DEF Side, NodeOK
  <2>2. Border(m.items, right.items)
    <3> SUFFICES ASSUME right.items # <<>> PROVE Precedes(m.items[Len(m.items)], right.items[1])
      BY DEF Border
    <3>1. CASE j = Len(n.items)
      BY <1>1, <1>3, <3>1
    <3>2. CASE j # Len(n.items)
      <4>1. Len(n.items) \in 1 .. Len(n.items) /\ left.items # <<>>
        BY <2>1, EmptySeq
      <4>2. m.items[Len(m.items)] = left.items[Len(left.items)]
        BY <1>1, <2>1, <3>2, <4>1
      <4> QED
        BY <1>2, <4>1, <4>2 DEF Border
    <3> QED
      BY <3>1, <3>2
  <2> QED
    BY <1>1, <1>2, <1>3, <2>2 DEF Fresh, PairOK
<1>4. CASE ~isleft
  <2>1. n = right /\ right.items \in Seq(GoodItems) /\ Len(right.items) \in Nat
    BY <1>2, <1>4, LenProperties DEF Side, NodeOK
  <2>2. Border(left.items, m.items)
    <3> SUFFICES ASSUME left.items # <<>> PROVE Precedes(left.items[Len(left.items)], m.items[1])
      BY DEF Border
    <3>1. CASE j = 1
      BY <1>1, <1>4, <3>1
    <3>2. CASE j # 1
      <4>1. 1 \in 1 .. Len(n.items) /\ right.items # <<>>
        BY <2>1, EmptySeq
      <4>2. m.items[1] = right.items[1]
        BY <1>1, <2>1, <3>2, <4>1
      <4> QED
        BY <1>2, <4>1, <4>2 DEF Border
    <3> QED
      BY <3>1, <3>2
  <2> QED
    BY <1>1, <1>2, <1>4, <2>2 DEF Fresh, PairOK
<1> QED
  BY <1>3, <1>4

(* What follows the last tail of a file is of another object.               *)
LEMMA NextObject ==
  ASSUME PairOK(left, right), NEW it \in GoodItems, it.kind = "tail", IsLast(it),
         NEW x \in ToSet(left.items \o right.items), Precedes(it, x),
         NEW y \in GoodItems, y.kind = "tail", First(y.key) = First(it.key)
  PROVE  Tight(y, x)
<1>1. x \in GoodItems
  BY InPair
<1> DEFINE a == it.key  c == x.key  F == First(it.key)  G == First(x.key)  L == LastKey(it)  M == LastKey(y)
<1>2. /\ a \in Nat /\ c \in Nat /\ L \in Nat /\ M \in Nat /\ F \in Nat /\ G \in Nat /\ KeySpan \in Nat
      /\ F < a /\ a =< L /\ L < c /\ G =< c /\ M < F + KeySpan
      /\ x.kind = "tail" => G < c
      /\ x.kind # "tail" => G = c
  BY <1>1, ItemFacts, FirstFacts, TightByKeys, NodeConstants
<1>3. F # G
  <2> SUFFICES ASSUME F = G PROVE FALSE
    OBVIOUS
  <2>1. x.kind = "tail"
    <3> SUFFICES ASSUME x.kind # "tail" PROVE FALSE
      OBVIOUS
    <3>1. G = c
      BY <1>2
    <3> HIDE DEF a, c, F, G, L, M
    <3> QED
      BY <1>2, <3>1
  <2>2. x \in Body(it)
    BY <2>1, InBody
  <2>3. c =< a
    BY <2>2 DEF IsLast
  <2> HIDE DEF a, c, F, G, L, M
  <2> QED
    BY <1>2, <2>3
<1>4. F + KeySpan =< G
  <2>1. a =< c
    <3> HIDE DEF a, c, F, G, L, M
    <3> QED
      BY <1>2
  <2> QED
    BY <1>2, <1>3, <2>1, Apart
<1>5. M < c /\ (x.kind = "tail" => M + 1 # c)
  <2> HIDE DEF a, c, F, G, L, M
  <2> QED
    BY <1>2, <1>4
<1> QED
  BY <1>1, <1>5, TightByKeys

(* Units written behind the last tail of a file leave both nodes right.     *)
LEMMA AppendKeeps ==
  ASSUME PairOK(left, right), NEW isleft \in BOOLEAN, NEW n, n = Side(isleft),
         NEW i \in Nat, i < Len(n.items), NEW it, it = Item(n, i), Splittable(it), IsLast(it),
         NEW k \in Nat, k > 0, k =< n.free, Fits([it EXCEPT !.len = @ + k]),
         NEW m, m = node40_modify(n, Pos(i, it.len), it, k)
  PROVE  Fresh(m, isleft)
<1> DEFINE j == i + 1  N == Len(n.items)  y == Tail40(it.key, it.len + k)  f == n.free - k
<1>1. NodeOK(n) /\ Ours(n) /\ NodeOK(left) /\ NodeOK(right)
  BY DEF PairOK, Side, Ours
<1>2. /\ n.items \in Seq(GoodItems) /\ N \in Nat /\ n.free \in Nat /\ n.free + Weight(n.items) = NodeSize
      /\ j \in 1 .. N /\ j \in Nat /\ it = n.items[j]
  BY <1>1, LenProperties DEF NodeOK, Item
<1>3. it \in GoodItems /\ it.len \in Nat /\ it.len # MAX_UINT32 /\ it.kind = "tail"
  <2>1. it.kind = "tail"
    BY DEF Splittable
  <2> QED
    BY <1>1, <1>2, <2>1, ItemInside
<1>4. [it EXCEPT !.len = it.len + k] = y /\ [it EXCEPT !.len = @ + k] = y
  <2>1. [it EXCEPT !.len = it.len + k] = y
    BY <1>3, TailAgain
  <2> QED
    BY <2>1
<1>5. y.key = it.key /\ y.len = it.len + k /\ y.kind = "tail"
  BY DEF Tail40
<1>6. y \in GoodItems
  <2>1. LastKey(y) = (it.key + (it.len + k)) - 1
    <3>1. it.key \in Nat
      BY <1>3, ItemFacts
    <3> QED
      BY <1>3, <1>5, <3>1 DEF LastKey, Splittable, tail40_maxreal_key
  <2>2. LastKey(y) =< First(it.key) + (KeySpan - 1)
    <3>1. Fits(y)
      BY <1>4
    <3>2. body40_maxposs_key(y) = First(it.key) + (KeySpan - 1)
      BY <1>5 DEF body40_maxposs_key, First
    <3> HIDE DEF y
    <3> QED
      BY <3>1, <3>2 DEF Fits
  <2> DEFINE a == it.key  l == it.len  F == First(it.key)  L == LastKey(y)
  <2>3. a \in Nat /\ l \in Nat /\ l > 0 /\ F \in Nat /\ F < a /\ KeySpan \in Nat /\ F = First(a)
        /\ L = (a + (l + k)) - 1 /\ L =< F + (KeySpan - 1)
    BY <1>3, <2>1, <2>2, ItemFacts, FirstFacts, NodeConstants
  <2>4. l + k \in Nat /\ l + k > 0 /\ (a + (l + k)) - 1 < F + KeySpan
    <3> HIDE DEF a, l, F, L
    <3> QED
      BY <2>3
  <2> QED
    BY <2>3, <2>4, TailGood
<1>7. m = [items |-> With(n.items, j, y), free |-> f]
  <2>1. m = node40_expand(n, Pos(i, it.len), k, <<[it EXCEPT !.len = k]>>)
    BY Zenon DEF node40_modify
  <2>2. k # 0
    OBVIOUS
  <2> DEFINE new == <<[it EXCEPT !.len = k]>>  u == it.len
  <2>3. u # MAX_UINT32 /\ m = node40_expand(n, Pos(i, u), k, new)
    BY <1>3, <2>1
  <2> HIDE DEF new, u
  <2>4. m = [items |-> With(n.items, i + 1, [n.items[i + 1] EXCEPT !.len = n.items[i + 1].len + k]),
             free  |-> n.free - k]
    BY <2>2, <2>3, GrowUnits
  <2> QED
    BY <1>2, <1>4, <2>4
<1> HIDE DEF y
<1>8. j + 1 \in 1 .. N /\ Tight(it, n.items[j + 1]) => Tight(y, n.items[j + 1])
  <2> SUFFICES ASSUME j + 1 \in 1 .. N, Tight(it, n.items[j + 1]) PROVE Tight(y, n.items[j + 1])
    OBVIOUS
  <2>1. n.items[j + 1] \in ToSet(left.items \o right.items)
    BY <1>1, InPair
  <2>2. Precedes(it, n.items[j + 1]) /\ First(y.key) = First(it.key)
    BY <1>5 DEF Tight
  <2> QED
    BY <1>3, <1>5, <1>6, <2>1, <2>2, NextObject
<1>9. Fitting(n, j, y, f)
  <2>1. f \in Nat /\ f + y.len = n.free + n.items[j].len
    <3> DEFINE l == it.len  fr == n.free  z == y.len
    <3>1. l \in Nat /\ fr \in Nat /\ z = l + k /\ k =< fr /\ n.items[j].len = l
      BY <1>2, <1>3, <1>5
    <3> HIDE DEF l, fr, z
    <3>2. fr - k \in Nat
      BY <3>1
    <3>3. (fr - k) + z = fr + l
      BY <3>1
    <3> QED
      BY <3>1, <3>2, <3>3, Zenon DEF fr, z
  <2>2. j > 1 => Tight(n.items[j - 1], y)
    <3> SUFFICES ASSUME j > 1 PROVE Tight(n.items[j - 1], y)
      OBVIOUS
    <3>1. j - 1 \in 1 .. N - 1 /\ j - 1 \in 1 .. N /\ (j - 1) + 1 = j
      BY <1>2
    <3>2. n.items[j - 1] \in GoodItems
      BY <1>2, <3>1, ElementOfSeq
    <3>3. Tight(n.items[j - 1], it)
      BY <1>1, <1>2, <3>1 DEF NodeOK, Neat
    <3> QED
      BY <1>3, <1>5, <1>6, <3>2, <3>3, TightByKeys
  <2>3. j < N => Tight(y, n.items[j + 1])
    <3> SUFFICES ASSUME j < N PROVE Tight(y, n.items[j + 1])
      OBVIOUS
    <3>1. j \in 1 .. N - 1 /\ j + 1 \in 1 .. N
      BY <1>2
    <3>2. Tight(n.items[j], n.items[j + 1])
      BY <1>1, <3>1 DEF NodeOK, Neat
    <3> QED
      BY <1>2, <1>8, <3>1, <3>2
  <2> HIDE DEF j, f
  <2> QED
    BY <1>2, <1>6, <2>1, <2>2, <2>3, Zenon DEF Fitting
<1>10. Exchanged(m, n, j, y, f)
  <2> HIDE DEF j, f
  <2> QED
    BY <1>1, <1>7, <1>9, Exchange
<1>11. ASSUME isleft, j = N, right.items # <<>>
       PROVE  Precedes(y, right.items[1])
  <2>1. n = left /\ left.items # <<>> /\ it = left.items[Len(left.items)]
    BY <1>2, <1>11, EmptySeq DEF Side
  <2>2. Precedes(it, right.items[1])
    BY <1>11, <2>1 DEF PairOK, Border
  <2>3. right.items[1] \in ToSet(left.items \o right.items)
    <3>1. right.items \in Seq(GoodItems)
      BY <1>1 DEF NodeOK
    <3>2. 1 \in 1 .. Len(right.items)
      BY <1>11, <3>1, EmptySeq
    <3> QED
      BY <3>2, InPair DEF Ours
  <2>4. First(y.key) = First(it.key)
    BY <1>5
  <2> QED
    BY <1>3, <1>5, <1>6, <2>2, <2>3, <2>4, NextObject DEF Tight
<1>12. ASSUME ~isleft, j = 1, left.items # <<>>
       PROVE  Precedes(left.items[Len(left.items)], y)
  <2>1. n = right /\ right.items # <<>> /\ it = right.items[1]
    BY <1>2, <1>12, EmptySeq DEF Side
  <2>2. Precedes(left.items[Len(left.items)], it)
    BY <1>12, <2>1 DEF PairOK, Border
  <2> QED
    BY <1>5, <2>2 DEF Precedes
<1> HIDE DEF j, f
<1> QED
  BY <1>2, <1>10, <1>11, <1>12, OneOther DEF N

-----------------------------------------------------------------------------
(* RemoveItem and Truncate *)

(* An item that goes leaves both nodes right.                               *)
LEMMA RemoveKeeps ==
  ASSUME PairOK(left, right), NEW isleft \in BOOLEAN, NEW n, n = Side(isleft),
         NEW i \in Nat, i < Len(n.items), NEW len, len = SumLen(SubSeq(n.items, i + 1, i + 1)),
         NEW m, m = node40_shrink(n, Pos(i, MAX_UINT32), len, 1)
  PROVE  Fresh(m, isleft)
<1> DEFINE s == n.items  N == Len(n.items)  c == 1
<1>1. NodeOK(n) /\ NodeOK(left) /\ NodeOK(right) /\ Border(left.items, right.items)
  BY DEF PairOK, Side
<1>2. s \in Seq(GoodItems) /\ N \in Nat /\ Neat(s) /\ \A j \in 1 .. N : s[j] \in GoodItems
  <2>1. s \in Seq(GoodItems) /\ Neat(s)
    BY <1>1 DEF NodeOK
  <2> QED
    BY <2>1, LenProperties, ElementOfSeq
<1>3. i \in 0 .. N /\ c \in 0 .. N - i /\ i + c = i + 1 /\ (i + c) + 1 = i + 2
  BY <1>2
<1>4. i > 0 /\ i + c < N => Tight(s[i], s[(i + c) + 1])
  <2> SUFFICES ASSUME i > 0, i + 1 < N PROVE Tight(s[i], s[i + 2])
    BY <1>3
  <2>1. /\ i \in 1 .. N - 1 /\ i + 1 \in 1 .. N - 1 /\ (i + 1) + 1 = i + 2
        /\ i \in 1 .. N /\ i + 1 \in 1 .. N /\ i + 2 \in 1 .. N
    BY <1>2
  <2>2. Tight(s[i], s[i + 1]) /\ Tight(s[i + 1], s[(i + 1) + 1])
    BY <1>2, <2>1 DEF Neat
  <2>3. Precedes(s[i], s[i + 1]) /\ Precedes(s[i + 1], s[i + 2])
    BY <2>1, <2>2 DEF Tight
  <2>4. s[i] \in GoodItems /\ s[i + 1] \in GoodItems /\ s[i + 2] \in GoodItems
    BY <1>2, <2>1
  <2> QED
    BY <2>3, <2>4, TightOver
<1>5. /\ NodeOK(node40_shrink(n, Pos(i, MAX_UINT32), len, c))
      /\ node40_shrink(n, Pos(i, MAX_UINT32), len, c).items = SubSeq(s, 1, i) \o SubSeq(s, (i + c) + 1, N)
  <2>1. len = SumLen(SubSeq(n.items, i + 1, i + c))
    OBVIOUS
  <2> HIDE DEF c
  <2> QED
    BY <1>1, <1>3, <1>4, <2>1, Shrunk
<1>6. NodeOK(m) /\ m.items = SubSeq(s, 1, i) \o SubSeq(s, (i + c) + 1, N)
  BY <1>5
<1>7. Drops(m.items, GoodItems, s, i, c)
  <2> DEFINE t == m.items
  <2>1. t = SubSeq(s, 1, i) \o SubSeq(s, (i + c) + 1, Len(s)) /\ i \in 0 .. Len(s) /\ c \in 0 .. Len(s) - i
    BY <1>3, <1>6
  <2>2. s \in Seq(GoodItems)
    BY <1>2
  <2> HIDE DEF t, s, c
  <2>3. Drops(t, GoodItems, s, i, c)
    BY <2>1, <2>2, Dropped
  <2> QED
    BY <2>3 DEF t
<1>8. /\ Len(m.items) = N - 1
      /\ \A j \in 1 .. i : m.items[j] = s[j]
      /\ \A j \in i + 1 .. N - 1 : m.items[j] = s[j + 1]
  BY <1>7, Zenon DEF Drops, s, N, c
<1>9. m.items \in Seq(GoodItems) /\ (m.items # <<>> => N > 1)
  <2>1. m.items \in Seq(GoodItems)
    BY <1>6 DEF NodeOK
  <2> QED
    BY <1>2, <1>8, <2>1, EmptySeq
<1>10. ASSUME isleft PROVE Border(m.items, right.items)
  <2> SUFFICES ASSUME m.items # <<>>, right.items # <<>> PROVE Precedes(m.items[Len(m.items)], right.items[1])
    BY DEF Border
  <2>1. N > 1 /\ N - 1 \in Nat /\ N \in 1 .. N /\ N - 1 \in 1 .. N /\ N - 1 \in 1 .. N - 1 /\ (N - 1) + 1 = N
    BY <1>2, <1>9
  <2>2. n = left /\ left.items # <<>>
    BY <1>10, <2>1, EmptySeq DEF Side
  <2>3. Precedes(s[N], right.items[1])
    BY <1>1, <2>2 DEF Border
  <2>4. right.items[1] \in GoodItems
    <3>1. right.items \in Seq(GoodItems)
      BY <1>1 DEF NodeOK
    <3>2. 1 \in 1 .. Len(right.items)
      BY <3>1, EmptySeq
    <3> QED
      BY <3>1, <3>2, ElementOfSeq
  <2>5. CASE i = N - 1
    <3>1. m.items[Len(m.items)] = s[N - 1]
      BY <1>8, <2>1, <2>5
    <3>2. Precedes(s[N - 1], s[N])
      <4>1. Tight(s[N - 1], s[(N - 1) + 1])
        BY <1>2, <2>1 DEF Neat
      <4> QED
        BY <2>1, <4>1 DEF Tight
    <3>3. s[N - 1] \in GoodItems /\ s[N] \in GoodItems
      BY <1>2, <2>1
    <3> QED
      BY <2>3, <2>4, <3>1, <3>2, <3>3, TightOver DEF Tight
  <2>6. CASE i # N - 1
    <3>1. N - 1 \in i + 1 .. N - 1
      BY <1>2, <2>1, <2>6
    <3>2. m.items[Len(m.items)] = s[N]
      BY <1>8, <2>1, <3>1
    <3> QED
      BY <2>3, <3>2
  <2> QED
    BY <2>5, <2>6
<1>11. ASSUME ~isleft PROVE Border(left.items, m.items)
  <2> SUFFICES ASSUME left.items # <<>>, m.items # <<>> PROVE Precedes(left.items[Len(left.items)], m.items[1])
    BY DEF Border
  <2>1. N > 1 /\ 1 \in 1 .. N - 1 /\ 1 \in 1 .. N /\ 1 + 1 \in 1 .. N
    BY <1>2, <1>9
  <2>2. n = right /\ right.items # <<>>
    BY <1>11, <2>1, EmptySeq DEF Side
  <2> DEFINE x == left.items[Len(left.items)]
  <2>3. Precedes(x, s[1])
    BY <1>1, <2>2 DEF Border
  <2>4. x \in GoodItems
    <3>1. left.items \in Seq(GoodItems)
      BY <1>1 DEF NodeOK
    <3>2. Len(left.items) \in 1 .. Len(left.items)
      BY <3>1, EmptySeq
    <3> QED
      BY <3>1, <3>2, ElementOfSeq
  <2>5. CASE i = 0
    <3>1. 1 \in i + 1 .. N - 1
      BY <1>2, <2>1, <2>5
    <3>2. m.items[1] = s[1 + 1]
      BY <1>8, <3>1
    <3>3. Precedes(s[1], s[1 + 1])
      BY <1>2, <2>1 DEF Neat, Tight
    <3>4. s[1] \in GoodItems /\ s[1 + 1] \in GoodItems
      BY <1>2, <2>1
    <3> HIDE DEF x
    <3>5. Tight(x, s[1 + 1])
      BY <2>3, <2>4, <3>3, <3>4, TightOver
    <3>6. Precedes(x, m.items[1])
      BY <3>2, <3>5 DEF Tight
    <3> QED
      BY <3>6 DEF x
  <2>6. CASE i # 0
    <3>1. 1 \in 1 .. i
      BY <2>6
    <3>2. m.items[1] = s[1]
      BY <1>8, <3>1
    <3> QED
      BY <2>3, <3>2
  <2> QED
    BY <2>5, <2>6
<1> QED
  BY <1>1, <1>6, <1>10, <1>11 DEF Fresh, PairOK

\* y may take the place of it, whatever is next to it.
Replaces(y, it) ==
  /\ y \in GoodItems
  /\ \A x \in GoodItems : /\ Tight(x, it) => Tight(x, y)
                          /\ Tight(it, x) => Tight(y, x)
                          /\ Precedes(x, it) => Precedes(x, y)
                          /\ Precedes(it, x) => Precedes(y, x)

(* A tail that lost units at its start or at its end still goes with its    *)
(* neighbours.                                                              *)
LEMMA ShorterTail ==
  ASSUME NEW it \in GoodItems, it.kind = "tail", NEW c \in Nat, c > 0, c < it.len
  PROVE  /\ Replaces(Tail40(it.key + c, it.len - c), it)
         /\ Replaces(Tail40(it.key, it.len - c), it)
<1> DEFINE a == it.key  b == it.len  F == First(it.key)  L == LastKey(it)
           y == Tail40(a + c, b - c)  z == Tail40(a, b - c)
<1>1. /\ a \in Nat /\ b \in Nat /\ F \in Nat /\ F < a /\ L = (a + b) - 1 /\ L < F + KeySpan /\ KeySpan \in Nat
      /\ c < b /\ F = First(a)
  BY ItemFacts, FirstFacts, NodeConstants
<1> HIDE DEF a, b, F, L
<1>2. /\ b - c \in Nat /\ b - c > 0 /\ a + c \in Nat /\ F =< a + c /\ F < a + c /\ a + c < F + KeySpan
      /\ ((a + c) + (b - c)) - 1 = L /\ (a + (b - c)) - 1 = L - c /\ L - c < F + KeySpan
  BY <1>1
<1>3. First(a + c) = F
  BY <1>1, <1>2, SameFirst
<1>4. y \in GoodItems /\ z \in GoodItems
  <2>1. y \in GoodItems
    BY <1>1, <1>2, <1>3, TailGood
  <2>2. (a + (b - c)) - 1 < F + KeySpan
    BY <1>2
  <2>3. z \in GoodItems
    BY <1>1, <1>2, <2>2, TailGood
  <2> QED
    BY <2>1, <2>3
<1>5. y.key = a + c /\ y.len = b - c /\ y.kind = "tail" /\ z.key = a /\ z.len = b - c /\ z.kind = "tail"
  BY DEF Tail40
<1> HIDE DEF y, z
<1>6. LastKey(y) = L /\ LastKey(z) = L - c
  BY <1>2, <1>4, <1>5, ItemFacts
<1>7. ASSUME NEW x \in GoodItems
      PROVE  /\ (Tight(x, it) => Tight(x, y)) /\ (Tight(it, x) => Tight(y, x))
             /\ (Tight(x, it) => Tight(x, z)) /\ (Tight(it, x) => Tight(z, x))
             /\ (Precedes(x, it) => Precedes(x, y)) /\ (Precedes(it, x) => Precedes(y, x))
             /\ (Precedes(x, it) => Precedes(x, z)) /\ (Precedes(it, x) => Precedes(z, x))
  <2> DEFINE p == x.key  q == LastKey(x)
  <2>1. p \in Nat /\ q \in Nat
    BY ItemFacts
  <2>2. /\ Precedes(x, it) <=> q < a
        /\ Precedes(it, x) <=> L < p
        /\ Tight(x, it) <=> q < a /\ (x.kind = "tail" => q + 1 # a)
        /\ Tight(it, x) <=> L < p /\ (x.kind = "tail" => L + 1 # p)
    BY TightByKeys DEF a, L
  <2>3. /\ Precedes(x, y) <=> q < a + c
        /\ Precedes(y, x) <=> L < p
        /\ Tight(x, y) <=> q < a + c /\ (x.kind = "tail" => q + 1 # a + c)
        /\ Tight(y, x) <=> L < p /\ (x.kind = "tail" => L + 1 # p)
    BY <1>4, <1>5, <1>6, TightByKeys
  <2>4. /\ Precedes(x, z) <=> q < a
        /\ Precedes(z, x) <=> L - c < p
        /\ Tight(x, z) <=> q < a /\ (x.kind = "tail" => q + 1 # a)
        /\ Tight(z, x) <=> L - c < p /\ (x.kind = "tail" => (L - c) + 1 # p)
    BY <1>4, <1>5, <1>6, TightByKeys
  <2> HIDE DEF p, q
  <2>5. L \in Nat
    BY <1>1
  <2>6. q < a => q < a + c /\ q + 1 # a + c
    BY <1>1, <2>1
  <2>7. L < p => L - c < p /\ (L - c) + 1 # p
    BY <1>1, <2>1, <2>5
  <2> QED
    BY <2>2, <2>3, <2>4, <2>6, <2>7, Zenon
<1>8. Replaces(y, it) /\ Replaces(z, it)
  BY <1>4, <1>7, Zenon DEF Replaces
<1> QED
  BY <1>8 DEF y, z, a, b

(* A tail of the right node replaced by what is left of it.                 *)
LEMMA ShorterKeeps ==
  ASSUME PairOK(left, right), NEW j \in 1 .. Len(right.items), NEW it, it = right.items[j],
         NEW y, Replaces(y, it), NEW f \in Nat, f + y.len = right.free + it.len,
         NEW m, m = [items |-> With(right.items, j, y), free |-> f]
  PROVE  Fresh(m, FALSE)
<1> DEFINE s == right.items  N == Len(right.items)
<1>1. NodeOK(right) /\ NodeOK(left) /\ Border(left.items, right.items)
  BY DEF PairOK
<1>2. s \in Seq(GoodItems) /\ Neat(s) /\ N \in Nat /\ j \in 1 .. N /\ \A i \in 1 .. N : s[i] \in GoodItems
  <2>1. s \in Seq(GoodItems) /\ Neat(s)
    BY <1>1 DEF NodeOK
  <2> QED
    BY <2>1, LenProperties, ElementOfSeq
<1>3. /\ y \in GoodItems
      /\ \A x \in GoodItems : (Tight(x, it) => Tight(x, y)) /\ (Tight(it, x) => Tight(y, x))
      /\ \A x \in GoodItems : Precedes(x, it) => Precedes(x, y)
  BY Zenon DEF Replaces
<1>4. Fitting(right, j, y, f)
  <2>1. j > 1 => Tight(s[j - 1], y)
    <3> SUFFICES ASSUME j > 1 PROVE Tight(s[j - 1], y)
      OBVIOUS
    <3>1. j - 1 \in 1 .. N - 1 /\ j - 1 \in 1 .. N /\ (j - 1) + 1 = j
      BY <1>2
    <3>2. Tight(s[j - 1], it) /\ s[j - 1] \in GoodItems
      BY <1>2, <3>1 DEF Neat
    <3> QED
      BY <1>3, <3>2
  <2>2. j < N => Tight(y, s[j + 1])
    <3> SUFFICES ASSUME j < N PROVE Tight(y, s[j + 1])
      OBVIOUS
    <3>1. j \in 1 .. N - 1 /\ j + 1 \in 1 .. N
      BY <1>2
    <3>2. Tight(it, s[j + 1]) /\ s[j + 1] \in GoodItems
      BY <1>2, <3>1 DEF Neat
    <3> QED
      BY <1>3, <3>2
  <2>3. f + y.len = right.free + right.items[j].len
    OBVIOUS
  <2> QED
    BY <1>3, <2>1, <2>2, <2>3, Zenon DEF Fitting
<1>5. Exchanged(m, right, j, y, f)
  BY <1>1, <1>4, Exchange
<1>6. ASSUME j = 1, left.items # <<>> PROVE Precedes(left.items[Len(left.items)], y)
  <2> DEFINE x == left.items[Len(left.items)]
  <2>1. right.items # <<>>
    BY <1>2, EmptySeq
  <2>2. Precedes(x, it)
    BY <1>1, <1>6, <2>1 DEF Border
  <2>3. x \in GoodItems
    <3>1. left.items \in Seq(GoodItems)
      BY <1>1 DEF NodeOK
    <3>2. Len(left.items) \in 1 .. Len(left.items)
      BY <1>6, <3>1, EmptySeq
    <3> QED
      BY <3>1, <3>2, ElementOfSeq
  <2> HIDE DEF x
  <2>4. Precedes(x, y)
    BY <1>3, <2>2, <2>3
  <2> QED
    BY <2>4 DEF x
<1> DEFINE isleft == FALSE
<1>7. right = Side(isleft) /\ isleft \in BOOLEAN
  BY DEF Side
<1>8. /\ isleft /\ j = Len(right.items) /\ right.items # <<>> => Precedes(y, right.items[1])
      /\ ~isleft /\ j = 1 /\ left.items # <<>> => Precedes(left.items[Len(left.items)], y)
  BY <1>6
<1> HIDE DEF isleft
<1>9. Fresh(m, isleft)
  BY <1>5, <1>7, <1>8, OneOther
<1> QED
  BY <1>9 DEF isleft

\* node40_trunc() of the tail at item i, count being what it takes
TruncCount(it, u, k) == IF u + k > it.len THEN it.len - u ELSE k

(* node40_trunc() by its cases: the whole item, its head or its end.         *)
LEMMA TruncIs ==
  ASSUME NEW n, NEW i, NEW u, u # MAX_UINT32, NEW k, NEW it, it = Item(n, i),
         NEW c, c = TruncCount(it, u, k)
  PROVE  node40_trunc(n, Pos(i, u), k) =
           IF c >= it.len THEN node40_shrink(n, Pos(i, MAX_UINT32), it.len, 1)
           ELSE IF u = 0
           THEN node40_set_key(node40_shrink(n, Pos(i, 0), c, 1), i,
                               node40_shrink(n, Pos(i, 0), c, 1).items[i + 1].key + c)
           ELSE node40_shrink(n, Pos(i, 0), c, 1)
<1> DEFINE cut == node40_shrink(n, Pos(i, 0), c, 1)
           whole == node40_shrink(n, Pos(i, MAX_UINT32), it.len, 1)
<1>1. Pos(i, u).item = i /\ Pos(i, u).unit = u
  BY DEF Pos
<1>2. node40_trunc(n, Pos(i, u), k) =
        IF c >= it.len THEN whole
        ELSE IF u = 0 THEN [cut EXCEPT !.items[i + 1].key = cut.items[i + 1].key + c] ELSE cut
  BY <1>1, Zenon DEF node40_trunc, TruncCount
<1> HIDE DEF cut, whole
<1>3. [cut EXCEPT !.items[i + 1].key = cut.items[i + 1].key + c] = node40_set_key(cut, i, cut.items[i + 1].key + c)
  BY Zenon DEF node40_set_key
<1> QED
  BY <1>2, <1>3, Zenon DEF cut, whole

(* A tail cut at its start or at its end leaves both nodes right.           *)
LEMMA TruncateKeeps ==
  ASSUME PairOK(left, right), NEW i \in Nat, i < Len(right.items), NEW it, it = Item(right, i), Splittable(it),
         NEW u \in Nat, u < it.len, NEW k \in Nat, k > 0, u = 0 \/ u + k = it.len,
         NEW m, m = node40_trunc(right, Pos(i, u), k)
  PROVE  Fresh(m, FALSE)
<1> DEFINE n == right  s == n.items  j == i + 1  c == TruncCount(it, u, k)
           y == Tail40(it.key + c, it.len - c)  z == Tail40(it.key, it.len - c)
           cut == node40_shrink(n, Pos(i, 0), c, 1)
<1>1. NodeOK(n) /\ s \in Seq(GoodItems) /\ n.free \in Nat
  BY DEF PairOK, NodeOK
<1>2. j \in 1 .. Len(s) /\ it = s[j]
  BY <1>1, LenProperties DEF Item
<1>3. it \in GoodItems /\ it.kind = "tail" /\ it.len \in Nat /\ it.len < NodeSize
  BY <1>1, <1>2, ItemInside DEF Splittable
<1>4. u # MAX_UINT32 /\ 0 # MAX_UINT32
  <2>1. NodeSize < MAX_UINT32 /\ MAX_UINT32 \in Nat /\ NodeSize \in Nat
    <3>1. MAX_UINT32 \in Nat
      BY SMT DEF MAX_UINT32
    <3> QED
      BY <3>1, NodeConstants
  <2> QED
    BY <1>3, <2>1
<1>5. c \in Nat /\ c > 0 /\ c =< it.len
  <2> DEFINE l == it.len
  <2>1. l \in Nat /\ u < l
    BY <1>3
  <2> HIDE DEF l
  <2>2. (IF u + k > l THEN l - u ELSE k) \in Nat
    BY <2>1
  <2>3. (IF u + k > l THEN l - u ELSE k) > 0 /\ (IF u + k > l THEN l - u ELSE k) =< l
    BY <2>1
  <2> QED
    BY <2>2, <2>3 DEF TruncCount, l
<1>6. /\ m = IF c >= it.len THEN node40_shrink(n, Pos(i, MAX_UINT32), it.len, 1)
             ELSE IF u = 0 THEN node40_set_key(cut, i, cut.items[i + 1].key + c) ELSE cut
  <2> DEFINE d == c
  <2>1. d = TruncCount(it, u, k)
    OBVIOUS
  <2> HIDE DEF d
  <2>2. node40_trunc(n, Pos(i, u), k) =
          IF d >= it.len THEN node40_shrink(n, Pos(i, MAX_UINT32), it.len, 1)
          ELSE IF u = 0
          THEN node40_set_key(node40_shrink(n, Pos(i, 0), d, 1), i,
                              node40_shrink(n, Pos(i, 0), d, 1).items[i + 1].key + d)
          ELSE node40_shrink(n, Pos(i, 0), d, 1)
    BY <1>4, <2>1, TruncIs
  <2> QED
    BY <2>2, Zenon DEF d
<1> HIDE DEF c
<1>7. CASE c >= it.len
  <2>1. m = node40_shrink(n, Pos(i, MAX_UINT32), it.len, 1)
    BY <1>6, <1>7, Zenon
  <2>2. it.len = SumLen(SubSeq(s, i + 1, i + 1))
    <3>1. SubSeq(s, j, j) = <<s[j]>>
      BY <1>1, <1>2, Single
    <3>2. it \in ItemSet
      BY <1>3, ItemFacts
    <3> QED
      BY <1>2, <3>1, <3>2, SumOne
  <2> DEFINE isleft == FALSE  len == it.len
  <2>3. n = Side(isleft) /\ isleft \in BOOLEAN
    BY DEF Side
  <2>4. len = SumLen(SubSeq(n.items, i + 1, i + 1)) /\ m = node40_shrink(n, Pos(i, MAX_UINT32), len, 1)
    BY <2>1, <2>2
  <2> HIDE DEF isleft, len, n
  <2>5. i < Len(n.items)
    BY DEF n
  <2>6. Fresh(m, isleft)
    BY <2>3, <2>4, <2>5, RemoveKeeps
  <2> QED
    BY <2>6 DEF isleft
<1>8. CASE c < it.len
  <2>1. /\ Replaces(y, it) /\ Replaces(z, it)
    BY <1>3, <1>5, <1>8, ShorterTail
  <2>2. /\ y.key = it.key + c /\ y.len = it.len - c /\ z.key = it.key /\ z.len = it.len - c
        /\ [it EXCEPT !.len = it.len - c] = z
    BY <1>3, TailAgain DEF Tail40
  <2>3. cut = [items |-> With(s, j, z), free |-> n.free + c]
    <3> DEFINE zero == 0
    <3>1. zero # MAX_UINT32
      BY <1>4
    <3> HIDE DEF zero
    <3>2. node40_shrink(n, Pos(i, zero), c, 1) =
            [items |-> With(n.items, i + 1, [n.items[i + 1] EXCEPT !.len = n.items[i + 1].len - c]),
             free  |-> n.free + c]
      BY <3>1, ShrinkUnits
    <3> QED
      BY <1>2, <2>2, <3>2 DEF zero
  <2> DEFINE f == n.free + c
  <2>4. f \in Nat /\ f + y.len = n.free + it.len /\ f + z.len = n.free + it.len
    <3> DEFINE fr == n.free  l == it.len  a == y.len  b == z.len
    <3>1. fr \in Nat /\ l \in Nat /\ c \in Nat /\ c < l /\ a = l - c /\ b = l - c
      BY <1>1, <1>3, <1>5, <1>8, <2>2
    <3> HIDE DEF fr, l, a, b
    <3>2. fr + c \in Nat
      BY <3>1
    <3>3. (fr + c) + a = fr + l /\ (fr + c) + b = fr + l
      BY <3>1
    <3> QED
      BY <3>2, <3>3, Zenon DEF fr, l, a, b
  <2> HIDE DEF y, z, f
  <2>5. CASE u = 0
    <3>1. m = node40_set_key(cut, i, cut.items[i + 1].key + c)
      BY <1>3, <1>5, <1>6, <1>8, <2>5
    <3>2. cut.items[i + 1].key = it.key
      <4>1. cut.items = With(s, j, z)
        BY <2>3
      <4>2. With(s, j, z)[j] = z
        BY <1>1, <1>2 DEF With
      <4> QED
        BY <2>2, <4>1, <4>2
    <3>3. cut = Node(With(s, j, z), f)
      BY <2>3 DEF Node, f
    <3> DEFINE key == it.key + c
    <3>4. m = node40_set_key(Node(With(s, j, z), f), i, key)
      BY <3>1, <3>2, <3>3
    <3>5. Keyed(z, key) = y
      <4>1. [Tail40(it.key, it.len - c) EXCEPT !.key = it.key + c] = Tail40(it.key + c, it.len - c)
        BY TailKey
      <4> QED
        BY <4>1, Zenon DEF y, z, Keyed
    <3> HIDE DEF key, cut
    <3>6. node40_set_key(Node(With(s, j, z), f), i, key) = Node(With(s, j, Keyed(z, key)), f)
      <4>1. s \in Seq(GoodItems) /\ j \in 1 .. Len(s) /\ i + 1 = j
        BY <1>1, <1>2
      <4> HIDE DEF s, j
      <4> QED
        BY <4>1, SetKey
    <3>7. m = [items |-> With(right.items, j, y), free |-> f]
      BY <3>4, <3>5, <3>6, Zenon DEF Node
    <3> HIDE DEF j
    <3> QED
      BY <1>2, <2>1, <2>4, <3>7, ShorterKeeps
  <2>6. CASE u # 0
    <3>1. m = cut
      BY <1>3, <1>5, <1>6, <1>8, <2>6
    <3>2. m = [items |-> With(right.items, j, z), free |-> f]
      BY <2>3, <3>1 DEF f
    <3> HIDE DEF j, cut
    <3> QED
      BY <1>2, <2>1, <2>4, <3>2, ShorterKeeps
  <2> QED
    BY <2>5, <2>6
<1>9. c >= it.len \/ c < it.len
  BY <1>3, <1>5
<1> QED
  BY <1>7, <1>8, <1>9, Zenon

-----------------------------------------------------------------------------
(* Shift *)

\* A hint as the tree code makes it
Asked(h, l, u, mv, mg, p) ==
  /\ h \in HintSet
  /\ h.left = l /\ h.update = u /\ h.move = mv /\ h.merge = mg /\ h.pos = p
  /\ h.moved = FALSE /\ h.items_number = 0 /\ h.items_bytes = 0

(* The hint node40_shift() is asked with.                                    *)
LEMMA HintIs ==
  ASSUME NEW l \in BOOLEAN, NEW u \in BOOLEAN, NEW mv \in BOOLEAN, NEW mg \in BOOLEAN,
         NEW p \in [item : Nat, unit : Nat]
  PROVE  Asked(Hint(l, u, mv, mg, p), l, u, mv, mg, p)
  BY DEF Asked, Hint, HintSet

\* The point p is at an item of n, or names a unit of one or the place behind it.
PointIn(n, p) ==
  /\ p \in [item : Nat, unit : Nat]
  /\ p.unit # MAX_UINT32 => p.item < Len(n.items) /\ p.unit =< n.items[p.item + 1].len
  /\ There(n, p)

(* The points the caller names are points of the node.                       *)
LEMMA PointsAre ==
  ASSUME NEW n, NodeOK(n), NEW p \in GoodPoints(n)
  PROVE  PointIn(n, p)
<1> DEFINE N == Len(n.items)
<1>1. N \in Nat
  BY LenProperties DEF NodeOK
<1>2. MAX_UINT32 \in Nat /\ NodeSize \in Nat
  <2>1. MAX_UINT32 \in Nat
    BY SMT DEF MAX_UINT32
  <2> QED
    BY <2>1, NodeConstants
<1>3. p \in Points(n) /\ (p.unit # MAX_UINT32 => p.unit =< n.items[p.item + 1].len)
  BY DEF GoodPoints, Item
<1>4. \/ \E i \in 0 .. N : p = Pos(i, MAX_UINT32)
      \/ \E i \in {j \in 0 .. N - 1 : n.items[j + 1].kind = "tail"}, u \in 0 .. NodeSize : p = Pos(i, u)
  BY <1>3 DEF Points, node40_items, Splittable, Item
<1>5. CASE \E i \in 0 .. N : p = Pos(i, MAX_UINT32)
  <2>1. PICK i \in 0 .. N : p = Pos(i, MAX_UINT32)
    BY <1>5
  <2>2. p \in [item : Nat, unit : Nat] /\ p.unit = MAX_UINT32 /\ p.item =< N
    BY <1>1, <1>2, <2>1 DEF Pos
  <2> QED
    BY <2>2 DEF PointIn, There, Exists
<1>6. CASE \E i \in {j \in 0 .. N - 1 : n.items[j + 1].kind = "tail"}, u \in 0 .. NodeSize : p = Pos(i, u)
  <2>1. PICK i \in {j \in 0 .. N - 1 : n.items[j + 1].kind = "tail"}, u \in 0 .. NodeSize : p = Pos(i, u)
    BY <1>6
  <2>2. p \in [item : Nat, unit : Nat] /\ p.item < N /\ p.item =< N /\ n.items[p.item + 1].kind = "tail"
    BY <1>1, <1>2, <2>1 DEF Pos
  <2>3. Units(Item(n, p.item)) = n.items[p.item + 1].len
    BY <2>2 DEF Units, Item
  <2>4. There(n, p)
    BY <1>3, <2>2, <2>3 DEF There, Exists, node40_items
  <2> QED
    BY <1>3, <2>2, <2>4 DEF PointIn
<1> QED
  BY <1>4, <1>5, <1>6

\* What the nodes hold before a shift, and where the insert point is in it
Found(src, dst, l, p) == [units |-> Held(src, dst, l), gap |-> Mark(src, dst, l, p)]

(* A shift in a mode that the tree code asks for leaves both nodes right,   *)
(* with the units they had and the insert point, if it may not move, in     *)
(* front of the units it was in front of.                                   *)
LEMMA ShiftKeeps ==
  ASSUME NEW src, NodeOK(src), NEW dst, NodeOK(dst), NEW l \in BOOLEAN, Borders(src, dst, l),
         NEW u \in BOOLEAN, NEW mv \in BOOLEAN, l => ~mv, mv => dst.items = <<>>,
         NEW p, p \in [item : Nat, unit : Nat], u /\ ~mv => PointIn(src, p)
  PROVE  Sound(node40_shift(src, dst, Hint(l, u, mv, TRUE, p)), l, u /\ ~mv, Found(src, dst, l, p))
<1> DEFINE mg == TRUE  h == Hint(l, u, mv, mg, p)  v == Found(src, dst, l, p)
<1>1. mg \in BOOLEAN /\ mg
  OBVIOUS
<1> HIDE DEF mg
<1>2. Asked(h, l, u, mv, mg, p)
  BY <1>1, HintIs
<1> HIDE DEF h
<1>3. /\ h \in HintSet /\ h.left = l /\ h.update = u /\ h.move = mv /\ h.merge = mg /\ h.pos = p
      /\ h.moved = FALSE /\ h.items_number = 0 /\ h.items_bytes = 0
  BY <1>2, Zenon DEF Asked
<1>4. ModeOK(h)
  BY <1>3, Zenon DEF ModeOK
<1>5. LeftPoint(src, h)
  BY <1>3, Zenon DEF LeftPoint, PointIn
<1>6. Carries(src, dst, h, v)
  <2>1. v.units = Held(src, dst, l) /\ v.gap = Mark(src, dst, l, p)
    BY DEF Found
  <2> HIDE DEF v
  <2> QED
    BY <1>3, <2>1, Zenon DEF Carries, Pointed, PointIn
<1>7. Sane(src, dst, h, v)
  BY <1>3, <1>4, <1>5, <1>6, Zenon DEF Sane
<1> HIDE DEF v
<1>8. h.merge /\ (h.move => dst.items = <<>>)
  BY <1>1, <1>3, Zenon
<1>9. Sound(node40_shift(src, dst, h), h.left, Holdup(h), v)
  BY <1>3, <1>7, <1>8, ShiftOK
<1>10. Sound(node40_shift(src, dst, h), l, u /\ ~mv, v)
  BY <1>3, <1>9, Zenon DEF Sound, Holdup
<1> QED
  BY <1>10, Zenon DEF h, mg, v

\* What is true of every shift of the tree code
ShiftsSound ==
  /\ \A p \in GoodPoints(right) : Sound(ToLeft(p), TRUE, TRUE, Found(right, left, TRUE, p))
  /\ \A p \in GoodPoints(left) : Sound(ToRight(p), FALSE, TRUE, Found(left, right, FALSE, p))
  /\ Sound(PackLeft, TRUE, FALSE, Found(right, left, TRUE, Pos(0, MAX_UINT32)))
  /\ \A p \in GoodPoints(left) : Sound(ToNew(p), FALSE, FALSE, Found(left, node40_init, FALSE, p))

(* Every shift of the tree code leaves both nodes right, with their units.  *)
LEMMA ShiftsAre ==
  ASSUME PairOK(left, right)
  PROVE  ShiftsSound
<1> DEFINE yes == TRUE  no == FALSE
<1>0. yes \in BOOLEAN /\ no \in BOOLEAN /\ yes /\ ~no
  OBVIOUS
<1>1. /\ NodeOK(left) /\ NodeOK(right) /\ Border(left.items, right.items)
      /\ Borders(right, left, TRUE) /\ Borders(left, right, FALSE)
  BY DEF PairOK, Borders
<1>2. Borders(right, left, yes) /\ Borders(left, right, no)
  BY <1>1
<1>3. ASSUME NEW p \in GoodPoints(right) PROVE Sound(ToLeft(p), TRUE, TRUE, Found(right, left, TRUE, p))
  <2>1. PointIn(right, p) /\ p \in [item : Nat, unit : Nat]
    BY <1>1, PointsAre DEF PointIn
  <2> HIDE DEF yes, no
  <2>2. Sound(node40_shift(right, left, Hint(yes, yes, no, TRUE, p)), yes, yes /\ ~no, Found(right, left, yes, p))
    BY <1>0, <1>1, <1>2, <2>1, ShiftKeeps
  <2> QED
    BY <1>0, <2>2, Zenon DEF ToLeft, Sound, yes, no
<1>4. ASSUME NEW p \in GoodPoints(left) PROVE Sound(ToRight(p), FALSE, TRUE, Found(left, right, FALSE, p))
  <2>1. PointIn(left, p) /\ p \in [item : Nat, unit : Nat]
    BY <1>1, PointsAre DEF PointIn
  <2> HIDE DEF yes, no
  <2>2. Sound(node40_shift(left, right, Hint(no, yes, no, TRUE, p)), no, yes /\ ~no, Found(left, right, no, p))
    BY <1>0, <1>1, <1>2, <2>1, ShiftKeeps
  <2> QED
    BY <1>0, <2>2, Zenon DEF ToRight, Sound, yes, no
<1>5. Sound(PackLeft, TRUE, FALSE, Found(right, left, TRUE, Pos(0, MAX_UINT32)))
  <2> DEFINE p == Pos(0, MAX_UINT32)
  <2>1. p \in [item : Nat, unit : Nat]
    <3>1. MAX_UINT32 \in Nat
      BY SMT DEF MAX_UINT32
    <3> QED
      BY <3>1 DEF Pos
  <2> HIDE DEF yes, no, p
  <2>2. Sound(node40_shift(right, left, Hint(yes, no, no, TRUE, p)), yes, no /\ ~no, Found(right, left, yes, p))
    BY <1>0, <1>1, <1>2, <2>1, ShiftKeeps
  <2> QED
    BY <1>0, <2>2, Zenon DEF PackLeft, Sound, yes, no, p
<1>6. ASSUME NEW p \in GoodPoints(left) PROVE Sound(ToNew(p), FALSE, FALSE, Found(left, node40_init, FALSE, p))
  <2>1. p \in [item : Nat, unit : Nat]
    BY <1>1, PointsAre DEF PointIn
  <2> DEFINE new == node40_init
  <2>2. NodeOK(new) /\ new.items = <<>>
    BY InitNode DEF node40_init
  <2>3. Borders(left, new, no)
    BY <2>2 DEF Borders, Border
  <2> HIDE DEF yes, no, new
  <2>4. Sound(node40_shift(left, new, Hint(no, yes, yes, TRUE, p)), no, yes /\ ~yes, Found(left, new, no, p))
    BY <1>0, <1>1, <2>1, <2>2, <2>3, ShiftKeeps
  <2> QED
    BY <1>0, <2>4, Zenon DEF ToNew, Sound, yes, no, new
<1> QED
  BY <1>3, <1>4, <1>5, <1>6 DEF ShiftsSound

(* Every shift of the tree code leaves the pair right.                      *)
LEMMA ShiftStep ==
  ASSUME PairOK(left, right), Shift
  PROVE  PairOK(left', right')
<1>1. ASSUME NEW r, NEW x, NEW v, Sound(r, TRUE, x, v), Rebalanced(r, TRUE) PROVE PairOK(left', right')
  BY <1>1 DEF Sound, Rebalanced, Borders, PairOK
<1>2. ASSUME NEW r, NEW x, NEW v, Sound(r, FALSE, x, v), Rebalanced(r, FALSE) PROVE PairOK(left', right')
  BY <1>2 DEF Sound, Rebalanced, Borders, PairOK
<1>3. ShiftsSound
  BY ShiftsAre
<1>4. ASSUME NEW p \in GoodPoints(right), Rebalanced(ToLeft(p), TRUE) PROVE PairOK(left', right')
  BY <1>1, <1>3, <1>4, Zenon DEF ShiftsSound
<1>5. ASSUME NEW p \in GoodPoints(left), Rebalanced(ToRight(p), FALSE) PROVE PairOK(left', right')
  BY <1>2, <1>3, <1>5, Zenon DEF ShiftsSound
<1>6. ASSUME Rebalanced(PackLeft, TRUE) PROVE PairOK(left', right')
  BY <1>1, <1>3, <1>6, Zenon DEF ShiftsSound
<1>7. ASSUME NEW p \in GoodPoints(left), Rebalanced(ToNew(p), FALSE) PROVE PairOK(left', right')
  BY <1>2, <1>3, <1>7, Zenon DEF ShiftsSound
<1> QED
  BY <1>4, <1>5, <1>6, <1>7 DEF Shift

(* Every shift of the tree code keeps the units.                            *)
LEMMA ShiftUnits ==
  ASSUME PairOK(left, right)
  PROVE  ShiftKeepsUnits
<1> DEFINE before == Flat(left.items \o right.items)
<1>1. ShiftsSound
  BY ShiftsAre
<1>2. ASSUME NEW r, NEW x, NEW v, Sound(r, TRUE, x, v) PROVE Holds(r, TRUE) = v.units
  <2>1. Held(r.src, r.dst, TRUE) = v.units
    BY <1>2, Zenon DEF Sound
  <2> QED
    BY <2>1, Zenon DEF Held, Holds
<1>3. ASSUME NEW r, NEW x, NEW v, Sound(r, FALSE, x, v) PROVE Holds(r, FALSE) = v.units
  <2>1. Held(r.src, r.dst, FALSE) = v.units
    BY <1>3, Zenon DEF Sound
  <2> QED
    BY <2>1, Zenon DEF Held, Holds
<1>4. /\ \A p : Found(right, left, TRUE, p).units = before
      /\ \A p : Found(left, right, FALSE, p).units = before
  BY DEF Held, Found
<1>5. \A p : Found(left, node40_init, FALSE, p).units = Flat(left.items)
  <2>1. left.items \in Seq(GoodItems)
    BY DEF PairOK, NodeOK
  <2>2. node40_init.items = <<>>
    BY DEF node40_init
  <2>3. left.items \o <<>> = left.items
    BY <2>1, ConcatEmptySeq
  <2>4. Held(left, node40_init, FALSE) = Flat(left.items)
    BY <2>2, <2>3, Zenon DEF Held
  <2> QED
    BY <2>4 DEF Found
<1> HIDE DEF before
<1>6. \A p \in GoodPoints(right) : Holds(ToLeft(p), TRUE) = before
  BY <1>1, <1>2, <1>4, Zenon DEF ShiftsSound
<1>7. \A p \in GoodPoints(left) : Holds(ToRight(p), FALSE) = before
  BY <1>1, <1>3, <1>4, Zenon DEF ShiftsSound
<1>8. Holds(PackLeft, TRUE) = before
  BY <1>1, <1>2, <1>4, Zenon DEF ShiftsSound
<1>9. \A p \in GoodPoints(left) : Holds(ToNew(p), FALSE) = Flat(left.items)
  BY <1>1, <1>3, <1>5, Zenon DEF ShiftsSound
<1> QED
  BY <1>6, <1>7, <1>8, <1>9, Zenon DEF ShiftKeepsUnits, before

-----------------------------------------------------------------------------
(* A new right neighbour: the insert point is at the end of the node. *)

(* All the units of a node are in front of an insert point at its end.       *)
LEMMA EndGap ==
  ASSUME NEW n, NodeOK(n), NEW p \in PointSet, There(n, p), Rightmost(n, p)
  PROVE  /\ Gap(n.items, p) = Count(n.items)
         /\ \/ p.item = Len(n.items) /\ p.unit = MAX_UINT32
            \/ /\ p.item = Len(n.items) - 1 /\ Len(n.items) > 0
               /\ p.unit # MAX_UINT32 /\ p.unit # 0 /\ p.unit = Units(Item(n, p.item))
<1> DEFINE s == n.items  N == Len(s)
<1>1. s \in Seq(GoodItems) /\ N \in Nat /\ p.item \in Nat /\ p.item =< N
  BY DEF NodeOK, PointSet, There
<1>2. /\ Gap(s, p) = Count(SubSeq(s, 1, p.item)) + Inner(p)
      /\ Count(SubSeq(s, 1, p.item)) \in Nat
  BY <1>1, GapIs
<1>3. CASE p.item = N
  <2>1. p.unit = MAX_UINT32
    BY <1>1, <1>3 DEF There, Exists, node40_items
  <2>2. Inner(p) = 0
    BY <2>1 DEF Inner
  <2>3. SubSeq(s, 1, N) = s
    BY <1>1, SubSeqFull
  <2>4. Gap(s, p) = Count(s) + 0 /\ Count(s) \in Nat
    BY <1>2, <1>3, <2>2, <2>3
  <2> HIDE DEF s
  <2>5. Gap(s, p) = Count(s)
    BY <2>4
  <2> QED
    BY <1>3, <2>1, <2>5 DEF s
<1>4. CASE p.item # N
  <2>1. p.item = N - 1 /\ p.unit = Units(Item(n, p.item)) /\ N > 0 /\ N \in 1 .. N
    BY <1>1, <1>4 DEF Rightmost, node40_items
  <2> DEFINE it == s[N]
  <2>2. Item(n, p.item) = it
    BY <1>1, <2>1 DEF Item
  <2>3. it \in GoodItems /\ it.len # MAX_UINT32
    <3>1. it = n.items[N]
      OBVIOUS
    <3> HIDE DEF it, s
    <3> QED
      BY <2>1, <3>1, ItemInside DEF s
  <2> HIDE DEF it
  <2>4. Units(it) \in Nat /\ Units(it) # 0
    BY <2>3, UnitsOf
  <2>5. Units(it) # MAX_UINT32
    <3>1. 1 # MAX_UINT32
      BY SMT DEF MAX_UINT32
    <3> QED
      BY <2>3, <3>1, Zenon DEF Units
  <2>6. Inner(p) = Units(it)
    BY <2>1, <2>2, <2>5 DEF Inner
  <2> DEFINE t == SubSeq(s, 1, N - 1)
  <2>7. t \in Seq(GoodItems) /\ Len(t) = N - 1 /\ \A j \in 1 .. N - 1 : t[j] = s[j]
    <3>1. N - 1 \in 0 .. N
      BY <1>1, <2>1
    <3>2. PrefixOf(GoodItems, s, N - 1, t)
      BY <1>1, <3>1, PrefixIs
    <3> QED
      BY <3>2, Zenon DEF PrefixOf
  <2>8. s = t \o <<it>>
    <3>1. s # <<>>
      BY <1>1, <2>1
    <3> DEFINE M == N
    <3>2. M = Len(s) /\ Len(t) = M - 1 /\ \A j \in 1 .. M - 1 : t[j] = s[j]
      BY <2>7
    <3> HIDE DEF t, s, M
    <3>3. s = t \o <<s[M]>>
      BY <1>1, <2>7, <3>1, <3>2, LastApart
    <3> QED
      BY <3>3 DEF it, M
  <2>9. Count(s) = Count(t) + Units(it)
    <3>1. <<it>> \in Seq(GoodItems)
      BY <2>3
    <3> HIDE DEF t, s
    <3> QED
      BY <2>3, <2>7, <2>8, <3>1, CountIs
  <2>10. Gap(s, p) = Count(s)
    BY <1>2, <2>1, <2>6, <2>9
  <2> QED
    BY <2>1, <2>2, <2>4, <2>5, <2>10
<1> QED
  BY <1>3, <1>4

(* Hints alike to the same one are alike.                                   *)
LEMMA AlikeAgain ==
  ASSUME NEW f, NEW g, NEW h, Alike(f, g), Alike(g, h)
  PROVE  Alike(f, h)
  BY DEF Alike, SameMode

\* The mode of a shift into a new neighbour, the insert point still in the node
NewMode(h) ==
  /\ ~h.left /\ h.update /\ h.move /\ ~h.moved
  /\ h.items_number = 0 /\ h.items_bytes = 0

(* ... which a pass that moves nothing leaves alone.                        *)
LEMMA NewModeAlike ==
  ASSUME NEW g, NEW h, Alike(g, h), NewMode(h)
  PROVE  g \in HintSet /\ NewMode(g) /\ g.pos = h.pos
  BY DEF Alike, SameMode, NewMode

\* The point at the end is where it was, or in front of the new neighbour.
Ahead(g, p) == IF g.moved THEN g.pos.item = 0 /\ g.pos.unit = MAX_UINT32 ELSE g.pos = p

(* The first pass finds nothing to join in a new neighbour.                 *)
LEMMA NewFirstPass ==
  ASSUME NEW src, NodeOK(src), NEW dst, NodeOK(dst), dst.items = <<>>, NEW h \in HintSet, NewMode(h)
  PROVE  \E g : node40_unite(St(src, dst, h), FALSE) = St(src, dst, g) /\ Alike(g, h)
<1> DEFINE c == FALSE  e == Holding(h, dst.free)
           i == node40_border(src, h.left)
           it == Item(src, i)
           neig == Item(dst, node40_border(dst, ~h.left))
           joins == MayJoin(dst, h.left, neig, it)
<1>1. c \in BOOLEAN /\ ~c
  OBVIOUS
<1>2. joins = FALSE
  <2> HIDE DEF neig, it
  <2> QED
    BY DEF MayJoin, node40_items
<1>3. Alike(e, h) /\ e \in HintSet
  <2>1. dst.free \in Nat
    BY DEF NodeOK
  <2> QED
    BY <2>1, HoldingAlike DEF Alike
<1> HIDE DEF c
<1>4. node40_unite(St(src, dst, h), c) =
        IF Barred(src, dst, h) THEN St(src, dst, e)
        ELSE UniteItem(St(src, dst, e), i, it, neig, joins, c)
  BY UniteIs
<1> HIDE DEF e, i, it, neig, joins
<1>5. CASE Barred(src, dst, h)
  BY <1>3, <1>4, <1>5 DEF c
<1>6. CASE ~Barred(src, dst, h)
  <2> DEFINE g == Creating(e, ~joins)
             f == IF c THEN Holding(g, e.units_bytes - IhSize) ELSE g
  <2>1. joins \in BOOLEAN /\ ~joins # c
    BY <1>1, <1>2
  <2>2. UniteItem(St(src, dst, e), i, it, neig, joins, c) =
          IF ~joins # c \/ (c /\ e.units_bytes =< IhSize)
          THEN St(src, dst, g)
          ELSE SendUnits(St(src, dst, SentPoint(tail40_prep_shift(f, i, it, IF joins THEN neig.len ELSE 0),
                                                LandsAt(dst, e, c))), i, it)
    BY <1>1, <1>3, <2>1, UniteItemIs
  <2>3. Alike(g, e)
    <3>1. (~joins) \in BOOLEAN
      BY Zenon
    <3> QED
      BY <1>3, <3>1, CreatingAlike
  <2> HIDE DEF g, f
  <2>4. UniteItem(St(src, dst, e), i, it, neig, joins, c) = St(src, dst, g)
    BY <2>1, <2>2
  <2>5. Alike(g, h)
    BY <1>3, <2>3, AlikeAgain
  <2> QED
    BY <1>4, <1>6, <2>4, <2>5 DEF c
<1> QED
  BY <1>5, <1>6

(* Behind the last unit of its tail, the insert point goes to the new        *)
(* neighbour without any of them.                                           *)
LEMMA PrepAtEnd ==
  ASSUME NEW f \in HintSet, NewMode(f), f.units_bytes > 0, NEW i, i = f.pos.item,
         NEW it, it.len = f.pos.unit, f.pos.unit # MAX_UINT32, NEW dstlen \in Nat
  PROVE  LET g == SentPoint(tail40_prep_shift(f, i, it, dstlen), 0)
         IN  /\ g \in HintSet /\ g.update /\ g.moved /\ g.units_number = 0 /\ g.create = f.create
             /\ g.pos.item = 0
<1>0. f.units_bytes \in Nat /\ f.pos.unit \in Nat /\ f.update \in BOOLEAN /\ f.move \in BOOLEAN
  BY HintFields
<1>1. /\ f.units_bytes # 0 /\ ~(f.pos.unit < it.len)
      /\ f.update = TRUE /\ ~f.left /\ f.move = TRUE
  BY <1>0 DEF NewMode
<1> DEFINE yes == TRUE  no == 0  q == UnitsPoint(f, yes, no, yes, dstlen)
           g == SentPoint(q, 0)
<1>2. tail40_prep_shift(f, i, it, dstlen) = UnitsReach(f, it, yes, no, dstlen)
  <2> DEFINE point == f.update /\ i = f.pos.item /\ f.pos.unit # MAX_UINT32
             limit == IF ~point THEN it.len
                      ELSE IF f.left THEN f.pos.unit
                      ELSE IF f.pos.unit < it.len THEN it.len - f.pos.unit ELSE 0
             k == IF f.units_bytes > limit THEN limit ELSE f.units_bytes
  <2>1. tail40_prep_shift(f, i, it, dstlen) = UnitsReach(f, it, point, k, dstlen)
    BY <1>1, Zenon DEF tail40_prep_shift
  <2>2. point = yes
    BY <1>1
  <2>3. limit = 0
    BY <1>1, <2>2
  <2>4. k = no
    BY <2>3
  <2> HIDE DEF point, k, yes, no
  <2> QED
    BY <2>1, <2>2, <2>4, Zenon
<1>3. UnitsReach(f, it, yes, no, dstlen) = q
  <2> DEFINE reached == /\ yes /\ f.move
                        /\ IF f.left THEN no = f.pos.unit ELSE f.pos.unit < it.len => no = it.len - f.pos.unit
  <2>1. reached = yes
    BY <1>1
  <2> HIDE DEF yes, no
  <2>2. UnitsReach(f, it, yes, no, dstlen) = UnitsPoint(f, yes, no, reached, dstlen)
    BY Zenon DEF UnitsReach
  <2> HIDE DEF reached
  <2> QED
    BY <2>1, <2>2, Zenon DEF q
<1>4. q \in HintSet /\ q.update = f.update /\ q.create = f.create /\ q.units_number = 0
  <2>1. yes \in BOOLEAN /\ no \in Nat /\ (f.left => ~yes) /\ (yes /\ f.left => no =< f.pos.unit) /\ (yes => f.move)
    BY <1>1
  <2> HIDE DEF yes, no
  <2>2. Prepared(q, f, no)
    BY <2>1, UnitsPointFacts
  <2> HIDE DEF q
  <2> QED
    BY <2>2 DEF Prepared, SameMode, no
<1>5. q.moved = TRUE
  BY DEF UnitsPoint, HintSet
<1> HIDE DEF q
<1>6. g = [q EXCEPT !.pos.item = 0]
  BY <1>1, <1>4, <1>5 DEF SentPoint
<1> HIDE DEF g
<1>7. /\ g \in HintSet /\ g.update = q.update /\ g.moved = q.moved /\ g.units_number = q.units_number
      /\ g.create = q.create /\ g.pos.item = 0
  BY <1>4, <1>6 DEF HintSet
<1>8. g.update = TRUE /\ g.moved = TRUE /\ g.units_number = 0 /\ g.create = f.create
  BY <1>1, <1>4, <1>5, <1>7
<1> QED
  BY <1>2, <1>3, <1>7, <1>8, Zenon DEF g

\* The place behind all units of n, as a place behind all its items or as one
\* in the last of them
AtLast(n, p) ==
  \/ p.item = Len(n.items) /\ p.unit = MAX_UINT32
  \/ /\ p.item = Len(n.items) - 1 /\ Len(n.items) > 0
     /\ p.unit # MAX_UINT32 /\ p.unit # 0 /\ p.unit = Units(Item(n, p.item))

(* The third pass takes nothing from behind such a place, but may take the  *)
(* insert point along.                                                      *)
LEMMA NewThirdPass ==
  ASSUME NEW src, NodeOK(src), NEW dst, NodeOK(dst), dst.items = <<>>, NEW h \in HintSet, NewMode(h),
         AtLast(src, h.pos)
  PROVE  \E g : PointBehind(node40_unite(St(src, dst, h), TRUE)) = St(src, dst, g) /\ Ahead(g, h.pos)
<1> DEFINE c == TRUE  e == Holding(h, dst.free)
           i == node40_border(src, h.left)
           it == Item(src, i)
           neig == Item(dst, node40_border(dst, ~h.left))
           joins == MayJoin(dst, h.left, neig, it)
           t == node40_unite(St(src, dst, h), c)
<1>1. c \in BOOLEAN /\ c
  OBVIOUS
<1>2. joins = FALSE
  <2> HIDE DEF neig, it
  <2> QED
    BY DEF MayJoin, node40_items
<1>3. Alike(e, h) /\ e \in HintSet /\ dst.free \in Nat /\ IhSize \in Nat /\ e.units_bytes = dst.free
  <2>1. dst.free \in Nat /\ IhSize \in Nat
    BY NodeConstants DEF NodeOK
  <2> QED
    BY <2>1, HoldingAlike DEF Alike
<1> HIDE DEF c
<1>4. t = IF Barred(src, dst, h) THEN St(src, dst, e)
          ELSE UniteItem(St(src, dst, e), i, it, neig, joins, c)
  BY UniteIs
<1> HIDE DEF e, neig, joins, t
<1>5. ASSUME NEW g, Alike(g, h), t = St(src, dst, g)
      PROVE  \E x : PointBehind(t) = St(src, dst, x) /\ Ahead(x, h.pos)
  <2>1. t.hint = g /\ ~g.moved /\ g.pos = h.pos
    BY <1>5, StFields DEF Alike, NewMode
  <2>2. PointBehind(t) = t
    BY <2>1, Zenon DEF PointBehind
  <2>3. Ahead(g, h.pos)
    BY <2>1 DEF Ahead
  <2> QED
    BY <1>5, <2>2, <2>3
<1>6. CASE Barred(src, dst, h)
  BY <1>3, <1>4, <1>5, <1>6 DEF c, t
<1>7. CASE ~Barred(src, dst, h)
  <2> DEFINE g == Creating(e, ~joins)
             f == IF c THEN Holding(g, e.units_bytes - IhSize) ELSE g
             dstlen == IF joins THEN neig.len ELSE 0
             land == LandsAt(dst, e, c)
             q == SentPoint(tail40_prep_shift(f, i, it, dstlen), land)
  <2>1. joins \in BOOLEAN /\ ~(~joins # c) /\ (~joins) \in BOOLEAN /\ (~joins) = TRUE
    BY <1>1, <1>2
  <2>2. UniteItem(St(src, dst, e), i, it, neig, joins, c) =
          IF ~joins # c \/ (c /\ e.units_bytes =< IhSize)
          THEN St(src, dst, g) ELSE SendUnits(St(src, dst, q), i, it)
    <3> HIDE DEF i, it, q, g
    <3>1. e \in HintSet /\ joins \in BOOLEAN /\ c \in BOOLEAN
      BY <1>1, <1>3, <2>1
    <3>2. LET x == Creating(e, ~joins)
              y == IF c THEN Holding(x, e.units_bytes - IhSize) ELSE x
          IN  UniteItem(St(src, dst, e), i, it, neig, joins, c) =
                IF ~joins # c \/ (c /\ e.units_bytes =< IhSize)
                THEN St(src, dst, x)
                ELSE SendUnits(St(src, dst, SentPoint(tail40_prep_shift(y, i, it, IF joins THEN neig.len ELSE 0),
                                                      LandsAt(dst, e, c))), i, it)
      BY <3>1, UniteItemIs
    <3> QED
      BY <3>2, Zenon DEF q, g
  <2>3. Alike(g, e) /\ g.create = TRUE /\ g.units_bytes = e.units_bytes
    <3>1. (~joins) \in BOOLEAN /\ (~joins) = TRUE
      BY <2>1
    <3> QED
      BY <1>3, <3>1, CreatingAlike
  <2> HIDE DEF g
  <2>4. Alike(g, h)
    BY <1>3, <2>3, AlikeAgain
  <2>5. CASE e.units_bytes =< IhSize
    <3>1. t = St(src, dst, g)
      BY <1>1, <1>4, <1>7, <2>2, <2>5, Zenon
    <3> QED
      BY <1>5, <2>4, <3>1 DEF c, t
  <2>6. CASE ~(e.units_bytes =< IhSize)
    <3>1. t = SendUnits(St(src, dst, q), i, it)
      <4> HIDE DEF q, i, it
      <4> QED
        BY <1>4, <1>7, <2>1, <2>2, <2>6, Zenon
    <3>2. i = h.pos.item /\ it.len = h.pos.unit /\ h.pos.unit # MAX_UINT32
      <4>1. ~(h.update /\ h.pos.unit = MAX_UINT32 /\ h.pos.item = IF h.left THEN 0 ELSE node40_items(src))
            /\ Splittable(it)
        BY <1>7, Zenon DEF Barred, it, i
      <4>2. h.pos.item = Len(src.items) - 1 /\ h.pos.unit # MAX_UINT32 /\ h.pos.unit = Units(Item(src, h.pos.item))
        BY <4>1 DEF AtLast, NewMode, node40_items
      <4>3. i = h.pos.item
        BY <4>2 DEF i, node40_border, node40_items, NewMode
      <4>4. Units(it) = it.len
        BY <4>1 DEF Units, Splittable
      <4> QED
        BY <4>2, <4>3, <4>4 DEF it
    <3> HIDE DEF i, it
    <3>3. f = Holding(g, e.units_bytes - IhSize) /\ e.units_bytes - IhSize \in Nat /\ e.units_bytes - IhSize > 0
      BY <1>1, <1>3, <2>6
    <3>4. Alike(f, g) /\ f.create = TRUE /\ f.units_bytes > 0
      <4>1. g \in HintSet
        BY <2>4 DEF Alike
      <4> QED
        BY <2>3, <3>3, <4>1, HoldingAlike
    <3> HIDE DEF f
    <3>5. f \in HintSet /\ NewMode(f) /\ f.pos = h.pos
      <4>1. Alike(f, h)
        BY <2>4, <3>4, AlikeAgain
      <4> QED
        BY <4>1, NewModeAlike
    <3>6. land = 0
      <4>1. ~e.left
        BY <1>3 DEF Alike, SameMode, NewMode
      <4> QED
        BY <4>1 DEF LandsAt
    <3>7. dstlen = 0 /\ dstlen \in Nat
      BY <1>2
    <3> HIDE DEF land, dstlen
    <3>8. q \in HintSet /\ q.update /\ q.moved /\ q.units_number = 0 /\ q.create /\ q.pos.item = 0
      <4>1. i = f.pos.item /\ it.len = f.pos.unit /\ f.pos.unit # MAX_UINT32
        BY <3>2, <3>5
      <4> DEFINE x == SentPoint(tail40_prep_shift(f, i, it, dstlen), 0)
      <4>2. x \in HintSet /\ x.update /\ x.moved /\ x.units_number = 0 /\ x.create = f.create /\ x.pos.item = 0
        BY <3>4, <3>5, <3>7, <4>1, PrepAtEnd
      <4>3. q = x
        BY <3>6
      <4> HIDE DEF q, x
      <4> QED
        BY <3>4, <4>2, <4>3
    <3> HIDE DEF q
    <3> DEFINE s == St(src, dst, q)  y == [q EXCEPT !.pos.unit = MAX_UINT32]
    <3>9. t = s
      <4>1. s.hint.units_number = 0
        BY <3>8, StFields
      <4> HIDE DEF s
      <4>2. SendUnits(s, i, it) = s
        BY <4>1, Zenon DEF SendUnits
      <4> QED
        BY <3>1, <4>2, Zenon DEF s
    <3>10. PointBehind(s) = St(src, dst, y)
      <4>1. s.hint = q
        BY StFields
      <4>2. PointBehind(s) = [s EXCEPT !.hint.pos.unit = MAX_UINT32]
        <5> HIDE DEF s
        <5> QED
          BY <3>8, <4>1, Zenon DEF PointBehind
      <4>3. [s EXCEPT !.hint.pos.unit = MAX_UINT32] = St(src, dst, y)
        BY DEF St
      <4> QED
        BY <4>2, <4>3
    <3>11. y.moved = q.moved /\ y.pos.item = q.pos.item /\ y.pos.unit = MAX_UINT32
      BY <3>8 DEF HintSet
    <3> HIDE DEF y, s
    <3>12. Ahead(y, h.pos)
      BY <3>8, <3>11 DEF Ahead
    <3> QED
      BY <3>9, <3>10, <3>12 DEF c, t
  <2> QED
    BY <2>5, <2>6
<1> QED
  BY <1>6, <1>7

\* What the second pass makes of the hint: nothing, or the point has gone ahead
\* of every item.
Leaves(g, h) ==
  /\ g.items_number = 0
  /\ Alike(g, h) \/ (g.moved /\ g.pos.item = 0 /\ g.pos.unit = MAX_UINT32)

\* A place at the end of n items, and a turn of the loop there
EndPlace(p, n) == p.item = n \/ (p.item = n - 1 /\ p.unit # MAX_UINT32 /\ p.unit # 0)

EndTurned(r, g, n) == r = Turn(FALSE, g) \/ (r = Turn(FALSE, Moved(g, 0)) /\ g.pos.item = n)

(* A turn of the loop at the end of the node takes no item along.           *)
LEMMA EndTurn ==
  ASSUME NEW g \in HintSet, NewMode(g), NEW n \in Nat, n > 0, NEW di, NEW it, it.len \in Nat, NEW first,
         EndPlace(g.pos, n)
  PROVE  EndTurned(PredictTurn(g, n, di, it, first, g.units_bytes), g, n)
<1> DEFINE r == PredictTurn(g, n, di, it, first, g.units_bytes)  p == g.pos
<1>1. ~g.left /\ g.update /\ g.move
  BY DEF NewMode
<1>2. CASE g.units_bytes < it.len + IhSize
  <2>1. r = Turn(FALSE, g)
    BY <1>1, <1>2, Zenon DEF PredictTurn, Turn, node40_overhead
  <2> QED
    BY <2>1 DEF EndTurned
<1>3. CASE ~(g.units_bytes < it.len + IhSize) /\ p.item = n
  <2>1. ~(p.item < n - 1) /\ p.item # n - 1
    BY <1>3
  <2>2. r = Turn(FALSE, Moved(g, 0))
    BY <1>1, <1>3, <2>1, Zenon DEF PredictTurn, Turn, node40_overhead, Moved
  <2> QED
    BY <1>3, <2>2 DEF EndTurned
<1>4. CASE ~(g.units_bytes < it.len + IhSize) /\ p.item # n
  <2>1. ~(p.item < n - 1) /\ p.item = n - 1 /\ p.unit # MAX_UINT32 /\ ~(p.unit \in {MAX_UINT32, 0})
    BY <1>4 DEF EndPlace
  <2>2. r = Turn(FALSE, g)
    BY <1>1, <1>4, <2>1, Zenon DEF PredictTurn, Turn, node40_overhead
  <2> QED
    BY <2>2 DEF EndTurned
<1> QED
  BY <1>2, <1>3, <1>4

\* The states of the loop
NewTurns(h) ==
  {t \in [go : BOOLEAN, hint : HintSet] : Leaves(t.hint, h) /\ (t.go => Alike(t.hint, h))}

(* Each turn ends in one of them.                                           *)
LEMMA NewTurnKept ==
  ASSUME NEW src, NodeOK(src), NEW h \in HintSet, NewMode(h), AtLast(src, h.pos), NEW di \in Nat,
         NEW t \in NewTurns(h)
  PROVE  PredictNext(src, di, t) \in NewTurns(h)
<1> DEFINE g == t.hint  go == t.go  N == Len(src.items)
           it == NextItem(src, g.left, 0)
           r == PredictTurn(g, N - 0, di + 0, it, Item(src, 0), g.units_bytes)
           u == PredictNext(src, di, t)
<1> SUFFICES u \in NewTurns(h)
  OBVIOUS
<1>1. go \in BOOLEAN /\ g \in HintSet /\ Leaves(g, h) /\ (go => Alike(g, h)) /\ t = Turn(go, g)
  BY DEF NewTurns, Turn
<1>2. src.items \in Seq(GoodItems) /\ N \in Nat
  BY DEF NodeOK
<1>3. 0 = g.items_number
  BY <1>1 DEF Leaves
<1> HIDE DEF g, go
<1>4. u = IF ~go \/ g.moved \/ N - 0 = 0 THEN Turn(FALSE, g)
          ELSE Turn(r.go, IF r.go THEN TakeItem(r.hint, it) ELSE r.hint)
  <2> DEFINE c == 0
  <2>1. c = g.items_number /\ it = NextItem(src, g.left, c)
        /\ r = PredictTurn(g, Len(src.items) - c, di + c, it, Item(src, 0), g.units_bytes)
    BY <1>3
  <2> HIDE DEF c, it, r
  <2>2. NextDoes(src, di, go, g, c, it, r)
    BY <2>1, NextIs
  <2> HIDE DEF N
  <2> QED
    BY <1>1, <2>2, Zenon DEF NextDoes, c, N
<1> HIDE DEF u, r
<1>5. ASSUME NEW x \in HintSet, Leaves(x, h), u = Turn(FALSE, x)
      PROVE  u \in NewTurns(h)
  BY <1>5 DEF NewTurns, Turn
<1>6. CASE ~go \/ g.moved \/ N - 0 = 0
  BY <1>1, <1>4, <1>5, <1>6
<1>7. CASE ~(~go \/ g.moved \/ N - 0 = 0)
  <2>1. Alike(g, h) /\ NewMode(g) /\ g.pos = h.pos
    BY <1>1, <1>7, NewModeAlike
  <2>2. N - 0 = N /\ N > 0 /\ di + 0 = di
    BY <1>2, <1>7
  <2>3. it.len \in Nat
    <3>1. it = src.items[N]
      <4>1. ~g.left
        BY <2>1 DEF NewMode
      <4>2. (N - 0) - 1 = N - 1 /\ (N - 1) + 1 = N
        BY <1>2
      <4> HIDE DEF N
      <4> QED
        BY <4>1, <4>2 DEF NextItem, Item, N
    <3>2. N \in 1 .. N
      BY <1>2, <2>2
    <3> HIDE DEF it
    <3> QED
      BY <3>1, <3>2, ItemInside
  <2> HIDE DEF it
  <2>4. g.pos.item = N \/ (g.pos.item = N - 1 /\ g.pos.unit # MAX_UINT32 /\ g.pos.unit # 0)
    BY <2>1 DEF AtLast
  <2>5. r = Turn(FALSE, g) \/ (r = Turn(FALSE, Moved(g, 0)) /\ g.pos.item = N)
    <3> DEFINE first == Item(src, 0)  n == N
    <3>1. n \in Nat /\ n > 0 /\ EndPlace(g.pos, n)
      BY <1>2, <2>2, <2>4 DEF EndPlace
    <3> HIDE DEF first, n, N
    <3>2. EndTurned(PredictTurn(g, n, di, it, first, g.units_bytes), g, n)
      BY <1>1, <2>1, <2>3, <3>1, EndTurn
    <3>3. r = PredictTurn(g, n, di, it, first, g.units_bytes)
      BY <2>2, Zenon DEF r, n, first
    <3> QED
      BY <3>2, <3>3, Zenon DEF n, EndTurned
  <2>6. u = Turn(r.go, IF r.go THEN TakeItem(r.hint, it) ELSE r.hint)
    BY <1>4, <1>7
  <2>7. CASE r = Turn(FALSE, g)
    <3>1. u = Turn(FALSE, g)
      BY <2>6, <2>7 DEF Turn
    <3> QED
      BY <1>1, <1>5, <3>1
  <2>8. CASE r = Turn(FALSE, Moved(g, 0)) /\ g.pos.item = N
    <3> DEFINE x == Moved(g, 0)
    <3>1. u = Turn(FALSE, x)
      BY <2>6, <2>8 DEF Turn
    <3>2. g.pos.unit = MAX_UINT32
      <4>1. N # N - 1
        BY <1>2
      <4> HIDE DEF N
      <4> QED
        BY <2>1, <2>8, <4>1 DEF AtLast, N
    <3>3. /\ x \in HintSet /\ x.moved = TRUE /\ x.pos.item = 0 /\ x.pos.unit = g.pos.unit
          /\ x.items_number = g.items_number
      BY <1>1 DEF HintSet, Moved
    <3> HIDE DEF x
    <3>4. Leaves(x, h)
      BY <1>3, <3>2, <3>3 DEF Leaves
    <3> QED
      BY <1>5, <3>1, <3>3, <3>4
  <2> QED
    BY <2>5, <2>7, <2>8
<1> QED
  BY <1>6, <1>7

(* The second pass takes nothing from in front of the end of a node.        *)
LEMMA NewSecondPass ==
  ASSUME NEW src, NodeOK(src), NEW dst, NodeOK(dst), NEW h \in HintSet, NewMode(h), AtLast(src, h.pos)
  PROVE  \E g : node40_move(St(src, dst, h)) = St(src, dst, g) /\ Leaves(g, h)
<1> DEFINE s == St(src, dst, h)  g == node40_predict(s)  di == Len(dst.items)  S == NewTurns(h)
<1>1. di \in Nat /\ dst.free \in Nat
  BY DEF NodeOK
<1>2. Alike(h, h) /\ h.items_number = 0
  BY DEF Alike, SameMode, NewMode
<1>3. Started(dst, h) \in S
  <2> DEFINE e == Holding(h, dst.free)
  <2>1. Alike(e, h)
    BY <1>1, HoldingAlike
  <2> HIDE DEF e
  <2>2. e \in HintSet /\ e.items_number = 0
    BY <1>2, <2>1 DEF Alike, SameMode
  <2>3. Turn(TRUE, e) \in S
    BY <2>1, <2>2 DEF NewTurns, Turn, Leaves
  <2> QED
    BY <2>3 DEF Started, e
<1>4. \A t \in S : PredictNext(src, di, t) \in S
  <2> HIDE DEF di
  <2> QED
    BY <1>1, NewTurnKept
<1> HIDE DEF S
<1>5. IF src.items = <<>> THEN g = h ELSE \E t \in S : g = PredictNext(src, di, t).hint
  BY <1>3, <1>4, PredictTurns
<1> HIDE DEF di
<1>6. \A t \in S : Leaves(t.hint, h)
  BY DEF S, NewTurns
<1>7. Leaves(h, h)
  BY <1>2 DEF Leaves
<1>8. node40_move(s) = MovePredicted(s, g)
  BY DEF node40_move
<1> HIDE DEF g
<1>9. Leaves(g, h)
  BY <1>4, <1>5, <1>6, <1>7, Zenon
<1>10. g.items_number = 0
  BY <1>9 DEF Leaves
<1>11. MovePredicted(s, g) = St(src, dst, g)
  BY <1>10, MovePredictedIs
<1> HIDE DEF s
<1> QED
  BY <1>8, <1>9, <1>11 DEF s

\* What becomes of a shift into a new neighbour with the point at the end
OnlyPoint(t, src, dst, p) == t.src = src /\ t.dst = dst /\ Ahead(t.hint, p)

(* With the insert point at the end of the node, a shift into a new          *)
(* neighbour takes the point along or nothing.                              *)
LEMMA NewShift ==
  ASSUME NEW src, NodeOK(src), NEW dst, NodeOK(dst), dst.items = <<>>, NEW h \in HintSet, NewMode(h), h.merge,
         AtLast(src, h.pos)
  PROVE  OnlyPoint(node40_shift(src, dst, h), src, dst, h.pos)
<1> DEFINE t1 == node40_unite(St(src, dst, h), FALSE)
           t2 == SecondPass(t1)
           t3 == ThirdPass(t2)
<1>1. PICK a : t1 = St(src, dst, a) /\ Alike(a, h)
  BY NewFirstPass
<1> HIDE DEF t1
<1>2. t1.hint = a /\ a \in HintSet /\ NewMode(a) /\ a.pos = h.pos /\ AtLast(src, a.pos)
  BY <1>1, NewModeAlike, StFields
<1>3. PICK b : t2 = St(src, dst, b) /\ Leaves(b, a)
  <2>1. ~t1.hint.moved
    BY <1>2 DEF NewMode
  <2>2. t2 = node40_move(t1)
    BY <2>1, Zenon DEF SecondPass
  <2> HIDE DEF t2
  <2> QED
    BY <1>1, <1>2, <2>2, NewSecondPass
<1> HIDE DEF t2
<1>4. t2.hint = b
  BY <1>3, StFields
<1>5. \E c : t3 = St(src, dst, c) /\ Ahead(c, h.pos)
  <2>1. CASE b.moved
    <3>1. t3 = t2
      BY <1>4, <2>1, Zenon DEF ThirdPass
    <3>2. ~Alike(b, a)
      BY <1>2, <2>1 DEF Alike, NewMode
    <3>3. Ahead(b, h.pos)
      BY <1>3, <2>1, <3>2 DEF Leaves, Ahead
    <3> QED
      BY <1>3, <3>1, <3>3
  <2>2. CASE ~b.moved
    <3>1. t3 = PointBehind(node40_unite(t2, TRUE))
      BY <1>4, <2>2, Zenon DEF ThirdPass
    <3>2. Alike(b, a)
      BY <1>3, <2>2 DEF Leaves
    <3>3. b \in HintSet /\ NewMode(b) /\ b.pos = h.pos /\ AtLast(src, b.pos)
      BY <1>2, <3>2, NewModeAlike
    <3> HIDE DEF t3
    <3>4. \E c : PointBehind(node40_unite(St(src, dst, b), TRUE)) = St(src, dst, c) /\ Ahead(c, b.pos)
      BY <3>3, NewThirdPass
    <3> QED
      BY <1>3, <3>1, <3>3, <3>4, Zenon
  <2> QED
    BY <2>1, <2>2
<1>6. node40_shift(src, dst, h) = Shifted(FALSE, t3)
  BY Zenon DEF node40_shift, t1, t2, St
<1> HIDE DEF t3
<1>7. Shifted(FALSE, t3).src = t3.src /\ Shifted(FALSE, t3).dst = t3.dst /\ Shifted(FALSE, t3).hint = t3.hint
  BY DEF Shifted
<1>8. PICK c : t3 = St(src, dst, c) /\ Ahead(c, h.pos)
  BY <1>5
<1>9. t3.src = src /\ t3.dst = dst /\ t3.hint = c
  BY <1>8, StFields
<1> QED
  BY <1>6, <1>7, <1>8, <1>9, Zenon DEF OnlyPoint

(* Counting from an empty front is counting from the start.                 *)
LEMMA EmptyFront ==
  ASSUME NEW n, NodeOK(n), NEW p \in PointSet, There(n, p)
  PROVE  /\ Gap(n.items, p) \in Nat /\ Mark(n, n, FALSE, p) = Gap(n.items, p)
         /\ Len(Flat(<<>>)) + Gap(n.items, p) = Gap(n.items, p)
<1>1. Gap(n.items, p) \in Nat
  BY GapIs DEF There
<1>2. Len(Flat(<<>>)) = 0
  BY CountIs DEF Count
<1> QED
  BY <1>1, <1>2 DEF Mark

(* A shift into a new neighbour with the insert point at the end.            *)
LEMMA NewPoint ==
  ASSUME NodeOK(left), NEW p \in GoodPoints(left), Rightmost(left, p)
  PROVE  Followed(ToNew(p), Gap(left.items, p))
<1> DEFINE no == FALSE  yes == TRUE  new == node40_init  h == Hint(no, yes, yes, yes, p)  r == ToNew(p)
<1>1. PointIn(left, p) /\ p \in PointSet /\ There(left, p)
  BY PointsAre DEF PointIn, PointSet
<1>2. Gap(left.items, p) = Count(left.items) /\ AtLast(left, p)
  BY <1>1, EndGap DEF AtLast
<1>3. NodeOK(new) /\ new.items = <<>>
  BY InitNode DEF node40_init
<1>4. no \in BOOLEAN /\ yes \in BOOLEAN /\ ~no /\ yes
  OBVIOUS
<1> HIDE DEF new
<1>5. OnlyPoint(r, left, new, p)
  <2> HIDE DEF yes, no
  <2>1. Asked(h, no, yes, yes, yes, p)
    BY <1>1, <1>4, HintIs DEF PointSet
  <2> HIDE DEF h
  <2>2. h \in HintSet /\ NewMode(h) /\ h.merge /\ h.pos = p
    BY <1>4, <2>1 DEF Asked, NewMode
  <2>3. OnlyPoint(node40_shift(left, new, h), left, new, h.pos)
    BY <1>2, <1>3, <2>2, NewShift
  <2> QED
    BY <2>2, <2>3, Zenon DEF ToNew, h, new, yes, no
<1> HIDE DEF r, h
<1>6. r.src = left /\ r.dst = new /\ Ahead(r.hint, p)
  BY <1>5 DEF OnlyPoint
<1>7. CASE r.hint.moved
  <2> DEFINE q == r.hint.pos
  <2>1. q.item = 0 /\ q.unit = MAX_UINT32
    BY <1>6, <1>7 DEF Ahead
  <2>2. Exists(r.dst, q)
    BY <2>1 DEF Exists
  <2>3. Gap(<<>>, q) = 0
    <3>1. SubSeq(<<>>, 1, 0) = <<>>
      BY SubSeqEmpty
    <3>2. Len(Flat(<<>>)) = 0
      BY CountIs DEF Count
    <3>3. Gap(<<>>, q) = Len(Flat(<<>>)) + 0
      BY <2>1, <3>1, Zenon DEF Gap
    <3> QED
      BY <3>2, <3>3
  <2>4. Count(left.items) \in Nat
    BY CountIs DEF NodeOK
  <2> HIDE DEF q
  <2>5. Count(r.src.items) + Gap(r.dst.items, q) = Gap(left.items, p)
    BY <1>2, <1>3, <1>6, <2>3, <2>4
  <2> QED
    BY <1>7, <2>2, <2>5, Zenon DEF Followed, PointAt, Count, q, r
<1>8. CASE ~r.hint.moved
  <2>1. r.hint.pos = p
    BY <1>6, <1>8 DEF Ahead
  <2>2. Exists(left, p) /\ Len(Flat(<<>>)) + Gap(left.items, p) = Gap(left.items, p)
    BY <1>1, EmptyFront DEF There
  <2> QED
    BY <1>6, <1>8, <2>1, <2>2, Zenon DEF Followed, KeptRight, PointAt, r
<1> QED
  BY <1>7, <1>8

(* Every shift of the tree code keeps the insert point where it is.          *)
LEMMA ShiftPoints ==
  ASSUME PairOK(left, right)
  PROVE  PointKept
<1>1. ShiftsSound /\ NodeOK(left) /\ NodeOK(right)
  BY ShiftsAre DEF PairOK
<1>2. ASSUME NEW p \in GoodPoints(right)
      PROVE  KeptLeft(ToLeft(p), Len(Flat(left.items)) + Gap(right.items, p))
  <2> DEFINE r == ToLeft(p)  v == Found(right, left, TRUE, p)
  <2>1. Sound(r, TRUE, TRUE, v)
    BY <1>1, Zenon DEF ShiftsSound
  <2>2. v.gap = Count(left.items) + Gap(right.items, p)
    BY DEF Found, Mark
  <2> HIDE DEF r, v
  <2>3. There(r.src, r.hint.pos) /\ Count(r.dst.items) + Gap(r.src.items, r.hint.pos) = v.gap
    BY <2>1, Zenon DEF Sound, Pointed, Mark
  <2> QED
    BY <2>2, <2>3, Zenon DEF KeptLeft, PointAt, There, Count, r
<1>3. ASSUME NEW p \in GoodPoints(left) PROVE KeptRight(ToRight(p), Gap(left.items, p))
  <2> DEFINE r == ToRight(p)  v == Found(left, right, FALSE, p)
  <2>1. Sound(r, FALSE, TRUE, v)
    BY <1>1, Zenon DEF ShiftsSound
  <2>2. v.gap = 0 + Gap(left.items, p)
    BY DEF Found, Mark
  <2> HIDE DEF r, v
  <2>3. There(r.src, r.hint.pos) /\ 0 + Gap(r.src.items, r.hint.pos) = v.gap
    BY <2>1, Zenon DEF Sound, Pointed, Mark
  <2>4. Gap(left.items, p) \in Nat
    BY <1>1, PointsAre, EmptyFront DEF PointIn, PointSet
  <2>5. Len(Flat(<<>>)) = 0
    BY CountIs DEF Count
  <2> DEFINE x == Gap(r.src.items, r.hint.pos)
  <2>6. Len(Flat(<<>>)) + x = Gap(left.items, p)
    BY <2>2, <2>3, <2>4, <2>5
  <2> HIDE DEF x
  <2> QED
    BY <2>3, <2>6, Zenon DEF KeptRight, PointAt, There, r, x
<1>4. ASSUME NEW p \in GoodPoints(left), Rightmost(left, p) PROVE Followed(ToNew(p), Gap(left.items, p))
  BY <1>1, <1>4, NewPoint
<1> QED
  BY <1>2, <1>3, <1>4, Zenon DEF PointKept

-----------------------------------------------------------------------------
(* The theorem *)

Pair == PairOK(left, right)

(* A node that is still right and ordered with the other one, put in place,  *)
(* keeps the pair right.                                                     *)
LEMMA FreshPut ==
  ASSUME NEW m, NEW isleft \in BOOLEAN, Fresh(m, isleft), Put(m, isleft)
  PROVE  Pair'
<1>1. CASE isleft
  BY <1>1 DEF Fresh, Put, Pair
<1>2. CASE ~isleft
  BY <1>2 DEF Fresh, Put, Pair
<1> QED
  BY <1>1, <1>2

(* node40_insert() of a new item keeps the pair right.                       *)
LEMMA InsertStep ==
  ASSUME Pair, Insert
  PROVE  Pair'
<1>1. PICK isleft \in BOOLEAN, it \in NewItems : \E i \in 0 .. node40_items(IF isleft THEN left ELSE right) :
        LET n == IF isleft THEN left ELSE right
            m == node40_modify(n, Pos(i, MAX_UINT32), it, it.len)
        IN  /\ Fits(it)
            /\ Splittable(it) /\ Body(it) # {} =>
                 /\ ~isleft /\ i = 0
                 /\ \E x \in Body(it) : IsLast(x) /\ reiser4_item_mergeable(x, it)
            /\ node40_space(n) >= it.len + node40_overhead
            /\ Ordered(IF isleft THEN m.items \o right.items ELSE left.items \o m.items)
            /\ Put(m, isleft)
  BY Zenon DEF Insert
<1> DEFINE n == IF isleft THEN left ELSE right
<1>2. PICK i \in 0 .. node40_items(n) :
        LET m == node40_modify(n, Pos(i, MAX_UINT32), it, it.len)
        IN  /\ Fits(it)
            /\ Splittable(it) /\ Body(it) # {} =>
                 /\ ~isleft /\ i = 0
                 /\ \E x \in Body(it) : IsLast(x) /\ reiser4_item_mergeable(x, it)
            /\ node40_space(n) >= it.len + node40_overhead
            /\ Ordered(IF isleft THEN m.items \o right.items ELSE left.items \o m.items)
            /\ Put(m, isleft)
  BY <1>1
<1> DEFINE m == node40_modify(n, Pos(i, MAX_UINT32), it, it.len)
<1>3. /\ Fits(it) /\ WrittenBehind(it, isleft, i)
      /\ Ordered(IF isleft THEN m.items \o right.items ELSE left.items \o m.items)
      /\ Put(m, isleft)
  BY <1>2, Zenon DEF WrittenBehind
<1>4. n.free >= it.len + IhSize
  BY <1>2, Zenon DEF node40_space, node40_overhead
<1>5. n = Side(isleft) /\ i \in 0 .. Len(n.items)
  BY Zenon DEF Side, node40_items
<1>6. PairOK(left, right)
  BY DEF Pair
<1>7. m = node40_modify(n, Pos(i, MAX_UINT32), it, it.len)
  OBVIOUS
<1> HIDE DEF n, m
<1>8. Fresh(m, isleft)
  BY <1>3, <1>4, <1>5, <1>6, <1>7, InsertKeeps
<1> QED
  BY <1>3, <1>8, FreshPut

(* node40_insert() of units behind an item keeps the pair right.             *)
LEMMA AppendStep ==
  ASSUME Pair, AppendUnits
  PROVE  Pair'
<1>1. PICK isleft \in BOOLEAN, k \in 1 .. MaxTail : \E i \in 0 .. node40_items(IF isleft THEN left ELSE right) - 1 :
        LET n  == IF isleft THEN left ELSE right
            it == Item(n, i)
        IN  /\ Splittable(it) /\ IsLast(it)
            /\ node40_space(n) >= k
            /\ Fits([it EXCEPT !.len = @ + k])
            /\ Put(node40_modify(n, Pos(i, it.len), it, k), isleft)
  BY Zenon DEF AppendUnits
<1> DEFINE n == IF isleft THEN left ELSE right
<1>2. PICK i \in 0 .. node40_items(n) - 1 :
        LET it == Item(n, i)
        IN  /\ Splittable(it) /\ IsLast(it)
            /\ node40_space(n) >= k
            /\ Fits([it EXCEPT !.len = @ + k])
            /\ Put(node40_modify(n, Pos(i, it.len), it, k), isleft)
  BY <1>1
<1> DEFINE it == Item(n, i)  m == node40_modify(n, Pos(i, it.len), it, k)
<1>3. Splittable(it) /\ IsLast(it) /\ Fits([it EXCEPT !.len = @ + k]) /\ Put(m, isleft)
  BY <1>2
<1>4. PairOK(left, right) /\ n = Side(isleft)
  BY DEF Pair, Side
<1>5. NodeOK(n)
  BY <1>4 DEF PairOK
<1>6. k \in Nat /\ k > 0 /\ k =< n.free
  <2>1. MaxTail \in Nat /\ n.free \in Nat /\ n.free >= k
    BY <1>2, <1>5, PairConstants DEF NodeOK, node40_space
  <2> QED
    BY <2>1
<1>7. i \in Nat /\ i < Len(n.items)
  <2>1. Len(n.items) \in Nat /\ i \in 0 .. Len(n.items) - 1
    BY <1>5, LenProperties DEF NodeOK, node40_items
  <2> QED
    BY <2>1
<1>8. it = Item(n, i) /\ m = node40_modify(n, Pos(i, it.len), it, k)
  OBVIOUS
<1> HIDE DEF n, m, it
<1>9. Fresh(m, isleft)
  BY <1>3, <1>4, <1>6, <1>7, <1>8, AppendKeeps
<1> QED
  BY <1>3, <1>9, FreshPut

(* node40_remove() keeps the pair right.                                     *)
LEMMA RemoveStep ==
  ASSUME Pair, RemoveItem
  PROVE  Pair'
<1>1. PICK isleft \in BOOLEAN : \E i \in 0 .. node40_items(IF isleft THEN left ELSE right) - 1 :
        Put(node40_remove(IF isleft THEN left ELSE right, i, 1), isleft)
  BY Zenon DEF RemoveItem
<1> DEFINE n == IF isleft THEN left ELSE right
<1>2. PICK i \in 0 .. node40_items(n) - 1 : Put(node40_remove(n, i, 1), isleft)
  BY <1>1
<1> DEFINE len == SumLen(SubSeq(n.items, i + 1, i + 1))  m == node40_shrink(n, Pos(i, MAX_UINT32), len, 1)
<1>3. Put(m, isleft)
  BY <1>2 DEF node40_remove, node40_size
<1>4. PairOK(left, right) /\ n = Side(isleft)
  BY DEF Pair, Side
<1>5. NodeOK(n)
  BY <1>4 DEF PairOK
<1>6. i \in Nat /\ i < Len(n.items)
  <2>1. Len(n.items) \in Nat /\ i \in 0 .. Len(n.items) - 1
    BY <1>5, LenProperties DEF NodeOK, node40_items
  <2> QED
    BY <2>1
<1>7. len = SumLen(SubSeq(n.items, i + 1, i + 1)) /\ m = node40_shrink(n, Pos(i, MAX_UINT32), len, 1)
  OBVIOUS
<1> HIDE DEF n, m, len
<1>8. Fresh(m, isleft)
  BY <1>4, <1>6, <1>7, RemoveKeeps
<1> QED
  BY <1>3, <1>8, FreshPut

(* node40_trunc() keeps the pair right.                                      *)
LEMMA TruncateStep ==
  ASSUME Pair, Truncate
  PROVE  Pair'
<1>1. PICK i \in 0 .. node40_items(right) - 1, u \in 0 .. MaxTail, k \in 1 .. MaxTail :
        /\ Splittable(Item(right, i))
        /\ u < Item(right, i).len
        /\ u = 0 \/ u + k = Item(right, i).len
        /\ right' = node40_trunc(right, Pos(i, u), k) /\ UNCHANGED left
  BY DEF Truncate
<1> DEFINE it == Item(right, i)  m == node40_trunc(right, Pos(i, u), k)
<1>2. PairOK(left, right) /\ NodeOK(right)
  BY DEF Pair, PairOK
<1>3. i \in Nat /\ i < Len(right.items)
  <2>1. Len(right.items) \in Nat /\ i \in 0 .. Len(right.items) - 1
    BY <1>2, LenProperties DEF NodeOK, node40_items
  <2> QED
    BY <2>1
<1>4. u \in Nat /\ k \in Nat /\ k > 0
  BY PairConstants
<1>5. it = Item(right, i) /\ Splittable(it) /\ u < it.len /\ (u = 0 \/ u + k = it.len) /\ m = node40_trunc(right, Pos(i, u), k)
  BY <1>1
<1>6. right' = m /\ left' = left
  BY <1>1
<1> HIDE DEF it, m
<1>7. Fresh(m, FALSE)
  BY <1>2, <1>3, <1>4, <1>5, TruncateKeeps
<1> QED
  BY <1>6, <1>7 DEF Fresh, Pair

(* Two neighbour nodes start empty, with all of their space free.           *)
LEMMA PairInit ==
  ASSUME Init
  PROVE  Pair
<1>1. NodeOK(left) /\ NodeOK(right)
  BY InitNode DEF Init
<1>2. left.items = <<>>
  BY DEF Init, node40_init
<1> QED
  BY <1>1, <1>2 DEF Pair, PairOK, Border

(* Every step keeps the pair right.                                          *)
LEMMA PairNext ==
  ASSUME Pair, [Next]_vars
  PROVE  Pair'
<1>1. CASE Insert
  BY <1>1, InsertStep
<1>2. CASE AppendUnits
  BY <1>2, AppendStep
<1>3. CASE RemoveItem
  BY <1>3, RemoveStep
<1>4. CASE Truncate
  BY <1>4, TruncateStep
<1>5. CASE Shift
  <2>1. PairOK(left', right')
    BY <1>5, ShiftStep DEF Pair
  <2> QED
    BY <2>1 DEF Pair
<1>6. CASE UNCHANGED vars
  BY <1>6 DEF vars, Pair
<1> QED
  BY <1>1, <1>2, <1>3, <1>4, <1>5, <1>6 DEF Next

(* What is right about a node is what NodesSound says of it, and more.      *)
LEMMA NodeSound ==
  ASSUME NEW n, NodeOK(n)
  PROVE  /\ n.free = NodeSize - SumLen(n.items) - node40_items(n) * node40_overhead
         /\ \A i \in 1 .. node40_items(n) - 1 : ~reiser4_item_mergeable(n.items[i], n.items[i + 1])
<1> DEFINE s == n.items  N == Len(n.items)  h == N * IhSize  l == SumLen(s)  f == n.free
<1>1. s \in Seq(GoodItems) /\ Neat(s) /\ f \in Nat /\ f + Weight(s) = NodeSize
  BY DEF NodeOK
<1>2. l \in Nat /\ h \in Nat /\ NodeSize \in Nat
  <2>1. N \in Nat /\ IhSize \in Nat /\ NodeSize \in Nat
    BY <1>1, LenProperties, NodeConstants
  <2>2. s \in Seq(ItemSet)
    BY <1>1, GoodSeqs
  <2>3. l \in Nat
    <3>1. PICK g : IsSums(g, s)
      BY <2>2, SumExists
    <3> QED
      BY <2>2, <3>1, SumIs
  <2> HIDE DEF N, l
  <2> QED
    BY <2>1, <2>3
<1>3. Weight(s) = l + h
  BY DEF Weight
<1> HIDE DEF l, h, f
<1>4. f = NodeSize - l - h
  BY <1>1, <1>2, <1>3 DEF f
<1>5. n.free = NodeSize - SumLen(n.items) - node40_items(n) * node40_overhead
  BY <1>4 DEF f, l, h, node40_items, node40_overhead
<1>6. \A i \in 1 .. node40_items(n) - 1 : ~reiser4_item_mergeable(n.items[i], n.items[i + 1])
  BY <1>1 DEF Neat, Tight, node40_items
<1> QED
  BY <1>5, <1>6

(* The invariant is at least what the runs check.                            *)
LEMMA PairSound ==
  ASSUME Pair
  PROVE  NodesSound
<1>1. \A n \in {left, right} : NodeOK(n)
  BY DEF Pair, PairOK
<1> QED
  BY <1>1, NodeSound, Zenon DEF NodesSound

(* Whatever is inserted, appended, cut, removed and shifted between two     *)
(* neighbour nodes, in every mode of node40_shift() that the tree code asks *)
(* for and with nodes, item headers and keys of every size: the free space  *)
(* counters say what headers and bodies leave, and no two items that could  *)
(* be merged stay side by side in a node.                                   *)
THEOREM SpaceStaysExact == Spec => []NodesSound
<1>1. Init => Pair
  BY PairInit
<1>2. Pair /\ [Next]_vars => Pair'
  BY PairNext
<1>3. Pair => NodesSound
  BY PairSound
<1> QED
  BY <1>1, <1>2, <1>3, PTL DEF Spec

(* Two sequences in order, and in order where they meet, make one in order.  *)
LEMMA OrderedTogether ==
  ASSUME NEW s \in Seq(GoodItems), NEW t \in Seq(GoodItems), Ordered(s), Ordered(t), Border(s, t)
  PROVE  Ordered(s \o t)
<1> DEFINE m == Len(s)  n == Len(t)  c == s \o t
<1>1. m \in Nat /\ n \in Nat
  OBVIOUS
<1>2. Len(c) = m + n /\ \A i \in 1 .. m + n : c[i] = IF i <= m THEN s[i] ELSE t[i - m]
  BY ConcatOf
<1>3. (s # <<>> <=> m # 0) /\ (t # <<>> <=> n # 0)
  BY EmptySeq
<1>4. (\A i \in 1 .. m - 1 : Precedes(s[i], s[i + 1])) /\ \A i \in 1 .. n - 1 : Precedes(t[i], t[i + 1])
  BY DEF Ordered
<1>5. m # 0 /\ n # 0 => Precedes(s[m], t[1])
  BY <1>3, Zenon DEF Border
<1> HIDE DEF m, n, c
<1>6. ASSUME NEW i \in 1 .. (m + n) - 1
      PROVE  Precedes(c[i], c[i + 1])
  <2>0. i \in 1 .. m + n /\ i + 1 \in 1 .. m + n
    BY <1>1
  <2>1. CASE i < m
    <3>1. i <= m /\ i + 1 <= m /\ i \in 1 .. m - 1
      BY <1>1, <2>1
    <3>2. c[i] = s[i] /\ c[i + 1] = s[i + 1]
      BY <1>2, <2>0, <3>1, Zenon
    <3> QED
      BY <1>4, <3>1, <3>2, Zenon
  <2>2. CASE i = m
    <3>1. i <= m /\ ~(i + 1 <= m) /\ (i + 1) - m = 1 /\ m # 0 /\ n # 0
      BY <1>1, <2>2
    <3>2. c[i] = s[m] /\ c[i + 1] = t[1]
      BY <1>2, <2>0, <2>2, <3>1, Zenon
    <3> QED
      BY <1>5, <3>1, <3>2, Zenon
  <2>3. CASE i > m
    <3>1. ~(i <= m) /\ ~(i + 1 <= m) /\ (i + 1) - m = (i - m) + 1 /\ i - m \in 1 .. n - 1
      BY <1>1, <2>3
    <3>2. c[i] = t[i - m] /\ c[i + 1] = t[(i + 1) - m]
      BY <1>2, <2>0, <3>1, Zenon
    <3>3. c[i + 1] = t[(i - m) + 1]
      BY <3>1, <3>2, Zenon
    <3> QED
      BY <1>4, <3>1, <3>2, <3>3, Zenon
  <2> QED
    BY <1>1, <2>1, <2>2, <2>3
<1>7. \A i \in 1 .. Len(c) - 1 : Precedes(c[i], c[i + 1])
  BY <1>2, <1>6
<1> QED
  BY <1>7 DEF Ordered, c

(* The key order goes through both nodes.                                    *)
LEMMA PairOrdered ==
  ASSUME Pair
  PROVE  Ordered(left.items \o right.items)
<1>1. NodeOK(left) /\ NodeOK(right) /\ Border(left.items, right.items)
  BY Zenon DEF Pair, PairOK
<1>2. ASSUME NEW n, NodeOK(n)
      PROVE  n.items \in Seq(GoodItems) /\ Ordered(n.items)
  BY <1>2 DEF NodeOK, Neat, Tight, Ordered
<1> QED
  BY <1>1, <1>2, OrderedTogether

(* The items of two neighbours stay in the order of their keys, each of     *)
(* them ending before the next one starts, within the nodes and where they  *)
(* meet: no insert, write, cut or shift puts an item where node40_lookup()  *)
(* would not find it.                                                       *)
THEOREM KeysStayOrdered == Spec => []Ordered(left.items \o right.items)
<1>1. Init => Pair
  BY PairInit
<1>2. Pair /\ [Next]_vars => Pair'
  BY PairNext
<1>3. Pair => Ordered(left.items \o right.items)
  BY PairOrdered
<1> QED
  BY <1>1, <1>2, <1>3, PTL DEF Spec

(* A shift loses nothing, doubles nothing and keeps the key order: unit by  *)
(* unit the two nodes hold afterwards what they held before, to the left,   *)
(* to the right, packing and into a new node, wherever the insert point is  *)
(* and however full the nodes are.  Items go through three passes of        *)
(* node40_shift(), each of which predicts, cuts the source and expands the  *)
(* destination on its own account.                                          *)
THEOREM ShiftLosesNothing == Spec => []ShiftKeepsUnits
<1>1. Init => Pair
  BY PairInit
<1>2. Pair /\ [Next]_vars => Pair'
  BY PairNext
<1>3. Pair => ShiftKeepsUnits
  BY ShiftUnits DEF Pair
<1> QED
  BY <1>1, <1>2, <1>3, PTL DEF Spec

(* After a shift that may update it, the insert point exists and separates  *)
(* the same units as before, however many units and whole items of the node *)
(* have gone to its neighbour, and also where the point itself has gone to  *)
(* a new one: what tree_insert() and tree_write() write after making room   *)
(* goes in at its key.                                                      *)
THEOREM PointStaysInPlace == Spec => []PointKept
<1>1. Init => Pair
  BY PairInit
<1>2. Pair /\ [Next]_vars => Pair'
  BY PairNext
<1>3. Pair => PointKept
  BY ShiftPoints DEF Pair
<1> QED
  BY <1>1, <1>2, <1>3, PTL DEF Spec
=============================================================================
