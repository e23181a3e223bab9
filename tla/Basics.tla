------------------------------- MODULE Basics -------------------------------
(***************************************************************************)
(* What the proofs need of arithmetic, of least elements and of functions  *)
(* that are defined from one number to the next: the recursive functions   *)
(* by which the modules write the loops of the code.                       *)
(***************************************************************************)
EXTENDS Integers, Sequences, FiniteSets, SequencesExt, FiniteSetTheorems,
        SequenceTheorems, TLAPS

(* The quotient of the round-downs: bits to bytes, units to blocks.         *)
LEMMA DivBounds ==
  ASSUME NEW a \in Nat, NEW d \in Nat \ {0}
  PROVE  /\ a \div d \in Nat
         /\ (a \div d) * d =< a
         /\ a < (a \div d) * d + d
  OBVIOUS

(* A set of naturals that has an element has a least one.                   *)
LEMMA Least ==
  ASSUME NEW S \in SUBSET Nat, S # {}
  PROVE  \E x \in S : \A y \in S : x =< y
<1>1. PICK x \in S : \A y \in S : ~(<<y, x>> \in OpToRel(<, Nat))
  BY NatLessThanWellFounded, WFMin
<1>2. \A y \in S : y < x => <<y, x>> \in OpToRel(<, Nat)
  BY Zenon DEF OpToRel
<1>3. \A y \in S : ~(y < x)
  BY <1>1, <1>2, Zenon
<1> QED
  BY <1>3

(* The smallest element of a set of naturals is one of its elements.        *)
LEMMA MinExists ==
  ASSUME NEW S \in SUBSET Nat, S # {}
  PROVE  Min(S) \in S /\ \A y \in S : Min(S) =< y
  BY Least DEF Min

(* f starts at a and goes on by the functions of G. *)
IsIterate(f, N, S, a, G) ==
  /\ f \in [0 .. N -> S]
  /\ f[0] = a
  /\ \A n \in 1 .. N : f[n] = G[n][f[n - 1]]

(* A loop that goes from one value of S to the next has a run of N turns.   *)
LEMMA Iterates ==
  ASSUME NEW N \in Nat, NEW S, NEW a \in S, NEW G \in [1 .. N -> [S -> S]]
  PROVE  \E f : IsIterate(f, N, S, a, G)
<1> DEFINE Good(k) == \E f \in [0 .. k -> S] : f[0] = a /\ \A n \in 1 .. k : f[n] = G[n][f[n - 1]]
           Bad == {k \in 0 .. N : ~Good(k)}
<1>1. Good(0)
  <2> DEFINE f == [n \in 0 .. 0 |-> a]
  <2>1. f \in [0 .. 0 -> S] /\ f[0] = a /\ \A n \in 1 .. 0 : f[n] = G[n][f[n - 1]]
    OBVIOUS
  <2> HIDE DEF f
  <2> QED
    BY <2>1
<1>2. ASSUME NEW k \in 1 .. N, Good(k - 1) PROVE Good(k)
  <2>1. PICK f \in [0 .. k - 1 -> S] : f[0] = a /\ \A n \in 1 .. k - 1 : f[n] = G[n][f[n - 1]]
    BY <1>2
  <2> DEFINE g == [n \in 0 .. k |-> IF n = k THEN G[k][f[k - 1]] ELSE f[n]]
  <2>2. G[k][f[k - 1]] \in S
    BY <2>1
  <2>3. g \in [0 .. k -> S]
    BY <2>2, <2>1
  <2>4. g[0] = a /\ \A n \in 1 .. k : g[n] = G[n][g[n - 1]]
    BY <2>1
  <2> HIDE DEF g
  <2> QED
    BY <2>3, <2>4
<1>3. Good(N)
  <2> HIDE DEF Good
  <2> SUFFICES ASSUME ~Good(N) PROVE FALSE
    OBVIOUS
  <2>1. Bad \in SUBSET Nat /\ N \in Bad
    OBVIOUS
  <2>2. PICK k \in Bad : \A j \in Bad : k =< j
    BY <2>1, Least
  <2>3. k # 0 /\ k - 1 \in 0 .. N
    BY <1>1, <2>2
  <2>4. Good(k - 1)
    BY <2>2, <2>3
  <2> QED
    BY <1>2, <2>2, <2>3, <2>4
<1> QED
  BY <1>3 DEF IsIterate

(* f and g begin alike and where they are alike they go on alike. *)
StepAlike(f, g, N) ==
  /\ f[0] = g[0]
  /\ \A n \in 1 .. N : f[n - 1] = g[n - 1] => f[n] = g[n]

(* Two runs of a loop that begin alike and go on alike are the same.        *)
LEMMA SameIterates ==
  ASSUME NEW N \in Nat, NEW f, NEW g, StepAlike(f, g, N)
  PROVE  \A n \in 0 .. N : f[n] = g[n]
<1> DEFINE Bad == {n \in 0 .. N : f[n] # g[n]}
<1> SUFFICES ASSUME Bad # {} PROVE FALSE
  OBVIOUS
<1>1. PICK k \in Bad : \A j \in Bad : k =< j
  <2>1. Bad \in SUBSET Nat
    OBVIOUS
  <2> HIDE DEF Bad
  <2> QED
    BY <2>1, Least
<1>2. k # 0 /\ k - 1 \in 0 .. N /\ k \in 1 .. N
  BY <1>1 DEF StepAlike
<1>3. f[k - 1] = g[k - 1]
  BY <1>1, <1>2
<1> QED
  BY <1>1, <1>2, <1>3 DEF StepAlike

(* What holds at the start and is kept by each turn holds at the end.       *)
LEMMA Climb ==
  ASSUME NEW N \in Nat, NEW S, 0 \in S, \A n \in 1 .. N : n - 1 \in S => n \in S
  PROVE  \A n \in 0 .. N : n \in S
<1> DEFINE Bad == {n \in 0 .. N : n \notin S}
<1> SUFFICES ASSUME Bad # {} PROVE FALSE
  OBVIOUS
<1>1. PICK k \in Bad : \A j \in Bad : k =< j
  <2>1. Bad \in SUBSET Nat
    OBVIOUS
  <2> HIDE DEF Bad
  <2> QED
    BY <2>1, Least
<1>2. k # 0 /\ k - 1 \in 0 .. N /\ k \in 1 .. N
  BY <1>1
<1>3. k - 1 \in S
  BY <1>1, <1>2
<1> QED
  BY <1>1, <1>2, <1>3

-----------------------------------------------------------------------------
(* Sequences of sequences, put together *)

\* The sequences one gets on the way
IsFlat(f, s) ==
  /\ f[0] = <<>>
  /\ \A i \in 1 .. Len(s) : f[i] = f[i - 1] \o s[i]

FlatRecursion(g, s) == g = [i \in 1 .. Len(s) |-> IF i = 1 THEN s[i] ELSE g[i - 1] \o s[i]]

(* One can put sequences together one after the other.                      *)
LEMMA FlatExists ==
  ASSUME NEW S, NEW s \in Seq(Seq(S))
  PROVE  \E f \in [0 .. Len(s) -> Seq(S)] : IsFlat(f, s)
<1> DEFINE N == Len(s)
           H == [n \in 1 .. N |-> [x \in Seq(S) |-> x \o s[n]]]
<1>1. N \in Nat /\ \A n \in 1 .. N : s[n] \in Seq(S)
  BY ElementOfSeq
<1>2. H \in [1 .. N -> [Seq(S) -> Seq(S)]]
  <2>1. \A n \in 1 .. N : \A x \in Seq(S) : x \o s[n] \in Seq(S)
    BY <1>1, ConcatProperties
  <2> QED
    BY <2>1
<1>3. \A n \in 1 .. N : \A x \in Seq(S) : H[n][x] = x \o s[n]
  OBVIOUS
<1>4. <<>> \in Seq(S)
  BY EmptySeq
<1> HIDE DEF H
<1>5. PICK f : IsIterate(f, N, Seq(S), <<>>, H)
  BY <1>1, <1>2, <1>4, Iterates
<1>6. f \in [0 .. N -> Seq(S)] /\ f[0] = <<>> /\ \A n \in 1 .. N : f[n] = H[n][f[n - 1]]
  BY <1>5 DEF IsIterate
<1>7. \A n \in 1 .. N : n - 1 \in 0 .. N
  BY <1>1
<1>8. \A n \in 1 .. N : f[n] = f[n - 1] \o s[n]
  BY <1>3, <1>6, <1>7
<1> QED
  BY <1>6, <1>8 DEF IsFlat

(* FlattenSeq() is the last of them.                                        *)
LEMMA FlatIs ==
  ASSUME NEW S, NEW s \in Seq(Seq(S)), NEW f \in [0 .. Len(s) -> Seq(S)], IsFlat(f, s)
  PROVE  FlattenSeq(s) = f[Len(s)] /\ FlattenSeq(s) \in Seq(S)
<1> DEFINE N == Len(s)
<1>0. N \in Nat /\ f[N] \in Seq(S)
  OBVIOUS
<1>1. CASE N = 0
  <2>1. s = <<>> /\ FlattenSeq(s) = s
    BY <1>1, EmptySeq DEF FlattenSeq
  <2> QED
    BY <1>0, <1>1, <2>1 DEF IsFlat
<1>2. CASE N # 0
  <2>0. 1 \in 1 .. N /\ N \in 1 .. N
    BY <1>0, <1>2
  <2>1. \E g : FlatRecursion(g, s)
    <3> DEFINE g == [i \in 1 .. N |-> f[i]]
    <3>1. \A i \in 1 .. N : g[i] = IF i = 1 THEN s[i] ELSE g[i - 1] \o s[i]
      <4> TAKE i \in 1 .. N
      <4>1. CASE i = 1
        <5>1. f[1] = <<>> \o s[1] /\ s[1] \in Seq(S)
          <6>1. ASSUME NEW k \in 1 .. N, k = 1 PROVE f[k] = f[0] \o s[k]
            <7>1. k - 1 = 0
              BY <6>1
            <7>2. f[k] = f[k - 1] \o s[k]
              BY DEF IsFlat
            <7> QED
              BY <7>1, <7>2
          <6>2. f[1] = f[0] \o s[1]
            BY <2>0, <6>1
          <6> QED
            BY <2>0, <6>2, ElementOfSeq DEF IsFlat
        <5> QED
          BY <4>1, <5>1, ConcatEmptySeq
      <4>2. CASE i # 1
        <5>1. i - 1 \in 1 .. N
          BY <1>0, <4>2
        <5> QED
          BY <4>2, <5>1 DEF IsFlat
      <4> QED
        BY <4>1, <4>2
    <3>2. g = [i \in 1 .. N |-> g[i]]
      OBVIOUS
    <3> HIDE DEF g
    <3>3. FlatRecursion(g, s)
      BY <3>1, <3>2 DEF FlatRecursion
    <3> QED
      BY <3>3
  <2> DEFINE c == CHOOSE g : FlatRecursion(g, s)
  <2>2. FlatRecursion(c, s)
    BY <2>1
  <2> HIDE DEF c
  <2>3. FlattenSeq(s) = c[N]
    BY <1>2, Zenon DEF FlattenSeq, FlatRecursion, c
  <2> DEFINE e == [i \in 0 .. N |-> IF i = 0 THEN <<>> ELSE c[i]]
  <2>4. \A i \in 1 .. N : c[i] = IF i = 1 THEN s[i] ELSE c[i - 1] \o s[i]
    BY <2>2 DEF FlatRecursion
  <2>5. StepAlike(e, f, N)
    <3>1. e[0] = f[0]
      BY <1>0 DEF IsFlat
    <3>2. ASSUME NEW i \in 1 .. N, e[i - 1] = f[i - 1]
          PROVE  e[i] = f[i]
      <4>1. f[i] = f[i - 1] \o s[i] /\ e[i] = c[i]
        <5>1. i \in 0 .. N /\ i # 0
          BY <1>0
        <5> QED
          BY <5>1 DEF IsFlat
      <4>2. CASE i = 1
        <5>1. f[1] = <<>> \o s[1] /\ s[1] \in Seq(S)
          <6>1. ASSUME NEW k \in 1 .. N, k = 1 PROVE f[k] = f[0] \o s[k]
            <7>1. k - 1 = 0
              BY <6>1
            <7>2. f[k] = f[k - 1] \o s[k]
              BY DEF IsFlat
            <7> QED
              BY <7>1, <7>2
          <6>2. f[1] = f[0] \o s[1]
            BY <2>0, <6>1
          <6> QED
            BY <2>0, <6>2, ElementOfSeq DEF IsFlat
        <5>2. c[1] = s[1]
          BY <2>0, <2>4
        <5> QED
          BY <4>1, <4>2, <5>1, <5>2, ConcatEmptySeq
      <4>3. CASE i # 1
        <5>1. i - 1 \in 0 .. N /\ i - 1 # 0
          BY <1>0, <4>3
        <5>2. e[i - 1] = c[i - 1]
          BY <5>1
        <5> QED
          BY <2>4, <3>2, <4>1, <4>3, <5>2
      <4> QED
        BY <4>2, <4>3
    <3> HIDE DEF e
    <3> QED
      BY <3>1, <3>2 DEF StepAlike
  <2> HIDE DEF e
  <2>6. \A n \in 0 .. N : e[n] = f[n]
    BY <1>0, <2>5, SameIterates
  <2>7. N \in 0 .. N /\ e[N] = c[N]
    BY <1>0, <1>2 DEF e
  <2> QED
    BY <1>0, <2>3, <2>6, <2>7
<1> QED
  BY <1>1, <1>2

(* Nothing makes nothing.                                                   *)
LEMMA FlatEmpty == FlattenSeq(<<>>) = <<>>
BY DEF FlattenSeq

(* One sequence makes itself.                                               *)
LEMMA FlatOne ==
  ASSUME NEW S, NEW x \in Seq(S)
  PROVE  FlattenSeq(<<x>>) = x
<1> DEFINE s == <<x>>  f == [i \in 0 .. 1 |-> IF i = 0 THEN <<>> ELSE x]
<1>1. s \in Seq(Seq(S)) /\ Len(s) = 1 /\ s[1] = x
  OBVIOUS
<1>2. f \in [0 .. Len(s) -> Seq(S)] /\ f[0] = <<>> /\ f[1] = x
  BY <1>1, EmptySeq
<1>3. <<>> \o x = x
  BY ConcatEmptySeq
<1> HIDE DEF s, f
<1>4. IsFlat(f, s)
  <2>1. ASSUME NEW i \in 1 .. Len(s) PROVE f[i] = f[i - 1] \o s[i]
    <3>1. i = 1 /\ i - 1 = 0
      BY <1>1
    <3> QED
      BY <1>1, <1>2, <1>3, <3>1
  <2> QED
    BY <1>2, <2>1 DEF IsFlat
<1>5. FlattenSeq(s) = f[Len(s)]
  BY <1>1, <1>2, <1>4, FlatIs
<1> QED
  BY <1>1, <1>2, <1>5 DEF s

\* concatenating sequences over S is associative
SeqsAssociate(S) == \A a, b, c \in Seq(S) : (a \o b) \o c = a \o (b \o c)

(* It is.                                                                   *)
LEMMA SeqsJoin ==
  ASSUME NEW S
  PROVE  SeqsAssociate(S)
BY ConcatAssociative DEF SeqsAssociate

(* Two sequences of sequences put together one by one, or each by itself.   *)
LEMMA FlatConcat ==
  ASSUME NEW S, NEW s \in Seq(Seq(S)), NEW t \in Seq(Seq(S))
  PROVE  /\ FlattenSeq(s \o t) = FlattenSeq(s) \o FlattenSeq(t)
         /\ FlattenSeq(s) \in Seq(S) /\ FlattenSeq(t) \in Seq(S) /\ FlattenSeq(s \o t) \in Seq(S)
<1> DEFINE m == Len(s)  n == Len(t)  st == s \o t
<1>1. PICK f \in [0 .. m -> Seq(S)] : IsFlat(f, s)
  BY FlatExists
<1>2. PICK g \in [0 .. n -> Seq(S)] : IsFlat(g, t)
  BY FlatExists
<1>3. /\ FlattenSeq(s) = f[m] /\ FlattenSeq(s) \in Seq(S)
      /\ FlattenSeq(t) = g[n] /\ FlattenSeq(t) \in Seq(S)
  BY <1>1, <1>2, FlatIs
<1>4. /\ m \in Nat /\ n \in Nat /\ st \in Seq(Seq(S)) /\ Len(st) = m + n
      /\ \A i \in 1 .. m + n : st[i] = IF i <= m THEN s[i] ELSE t[i - m]
  BY ConcatProperties
<1>5. /\ f[0] = <<>> /\ \A i \in 1 .. m : f[i] = f[i - 1] \o s[i]
      /\ g[0] = <<>> /\ \A i \in 1 .. n : g[i] = g[i - 1] \o t[i]
  BY <1>1, <1>2 DEF IsFlat
<1>6. \A i \in 1 .. n : t[i] \in Seq(S)
  BY ElementOfSeq
<1>14. /\ \A i \in 0 .. m : f[i] \in Seq(S)
       /\ \A i \in 0 .. n : g[i] \in Seq(S)
  OBVIOUS
<1> DEFINE h == [i \in 0 .. m + n |-> IF i <= m THEN f[i] ELSE f[m] \o g[i - m]]
<1>7. h \in [0 .. m + n -> Seq(S)]
  <2>1. ASSUME NEW i \in 0 .. m + n PROVE h[i] \in Seq(S)
    <3>1. CASE i <= m
      <4>1. i \in 0 .. m
        BY <1>4, <3>1
      <4> QED
        BY <3>1, <4>1
    <3>2. CASE ~(i <= m)
      <4>0. i - m \in 0 .. n /\ m \in 0 .. m
        BY <1>4, <3>2
      <4>1. g[i - m] \in Seq(S) /\ f[m] \in Seq(S)
        BY <4>0
      <4> QED
        BY <3>2, <4>1, ConcatProperties
    <3> QED
      BY <3>1, <3>2
  <2> QED
    BY <2>1
<1>8. /\ \A i \in 0 .. m : h[i] = f[i]
      /\ \A i \in 1 .. n : h[m + i] = f[m] \o g[i]
  <2>1. \A i \in 0 .. m : i \in 0 .. m + n /\ i <= m
    BY <1>4
  <2>2. \A i \in 1 .. n : m + i \in 0 .. m + n /\ ~(m + i <= m) /\ (m + i) - m = i
    BY <1>4
  <2> QED
    BY <2>1, <2>2
<1> HIDE DEF h, m, n, st
<1>9. ASSUME NEW i \in 1 .. m + n
      PROVE  h[i] = h[i - 1] \o st[i]
  <2>1. CASE i <= m
    <3>1. i \in 1 .. m /\ i \in 0 .. m /\ i - 1 \in 0 .. m
      BY <1>4, <2>1
    <3> QED
      BY <1>4, <1>5, <1>8, <2>1, <3>1
  <2>2. CASE ~(i <= m)
    <3> DEFINE j == i - m
    <3>1. j \in 1 .. n /\ i = m + j
      BY <1>4, <2>2
    <3> HIDE DEF j
    <3>2. h[i] = f[m] \o g[j] /\ g[j] = g[j - 1] \o t[j] /\ st[i] = t[j]
      <4>1. i - m = j
        BY <1>4, <3>1
      <4> QED
        BY <1>4, <1>5, <1>8, <2>2, <3>1, <4>1
    <3>3. CASE j = 1
      <4>1. h[i - 1] = f[m] /\ g[j - 1] = <<>> /\ m \in 0 .. m
        <5>1. i - 1 = m
          BY <1>4, <3>1, <3>3
        <5>2. j - 1 = 0 /\ m \in 0 .. m
          BY <1>4, <3>3
        <5> QED
          BY <1>5, <1>8, <5>1, <5>2
      <4>2. g[j] = t[j]
        <5>1. t[j] \in Seq(S)
          BY <1>6, <3>1
        <5> QED
          BY <3>2, <4>1, <5>1, ConcatEmptySeq
      <4> QED
        BY <3>2, <4>1, <4>2
    <3>4. CASE j # 1
      <4>1. j - 1 \in 1 .. n /\ i - 1 = m + (j - 1) /\ j - 1 \in 0 .. n
        BY <1>4, <3>1, <3>4
      <4>2. h[i - 1] = f[m] \o g[j - 1]
        BY <1>8, <4>1
      <4>3. f[m] \in Seq(S) /\ g[j - 1] \in Seq(S) /\ t[j] \in Seq(S)
        <5>1. m \in 0 .. m
          BY <1>4
        <5> QED
          BY <1>6, <1>14, <3>1, <4>1, <5>1
      <4>4. (f[m] \o g[j - 1]) \o t[j] = f[m] \o (g[j - 1] \o t[j])
        <5>1. SeqsAssociate(S)
          BY SeqsJoin
        <5> QED
          BY <4>3, <5>1, Zenon DEF SeqsAssociate
      <4> QED
        BY <3>2, <4>2, <4>4
    <3> QED
      BY <3>3, <3>4
  <2> QED
    BY <2>1, <2>2
<1>10. h[0] = <<>>
  BY <1>4, <1>5, <1>8
<1>11. IsFlat(h, st)
  BY <1>4, <1>9, <1>10 DEF IsFlat
<1>12. FlattenSeq(st) = h[m + n] /\ FlattenSeq(st) \in Seq(S)
  <2>1. h \in [0 .. Len(st) -> Seq(S)]
    BY <1>4, <1>7
  <2> QED
    BY <1>4, <1>11, <2>1, FlatIs
<1>13. h[m + n] = f[m] \o g[n]
  <2>1. CASE n = 0
    <3>1. m + n = m /\ m \in 0 .. m /\ g[n] = <<>> /\ f[m] \in Seq(S)
      BY <1>4, <1>5, <2>1
    <3> QED
      BY <1>8, <3>1, ConcatEmptySeq
  <2>2. CASE n # 0
    <3>1. n \in 1 .. n
      BY <1>4, <2>2
    <3> QED
      BY <1>8, <3>1
  <2> QED
    BY <2>1, <2>2
<1> QED
  BY <1>3, <1>12, <1>13 DEF st, m, n

(* The beginning of a sequence.                                             *)
LEMMA PrefixHas ==
  ASSUME NEW A, NEW q \in Seq(A), NEW n \in 1 .. Len(q)
  PROVE  /\ SubSeq(q, 1, n - 1) \in Seq(A) /\ Len(SubSeq(q, 1, n - 1)) = n - 1
         /\ \A i \in 1 .. n - 1 : SubSeq(q, 1, n - 1)[i] = q[i]
<1> DEFINE e == 1  j == n - 1
<1>1. e \in Int /\ j \in Int /\ \A i \in e .. j : q[i] \in A
  BY ElementOfSeq
<1>2. e = 1 /\ j - e + 1 = n - 1 /\ (e =< j \/ j - e + 1 = 0)
  OBVIOUS
<1> HIDE DEF e, j
<1>3. /\ SubSeq(q, e, j) \in Seq(A)
      /\ Len(SubSeq(q, e, j)) = IF e <= j THEN j - e + 1 ELSE 0
      /\ \A i \in 1 .. j - e + 1 : SubSeq(q, e, j)[i] = q[e + i - 1]
  <2>1. \A r, z \in Int : (\A i \in r .. z : q[i] \in A) =>
          /\ SubSeq(q, r, z) \in Seq(A)
          /\ Len(SubSeq(q, r, z)) = IF r <= z THEN z - r + 1 ELSE 0
          /\ \A i \in 1 .. z - r + 1 : SubSeq(q, r, z)[i] = q[r + i - 1]
    BY SubSeqProperties
  <2> QED
    BY <1>1, <2>1, Zenon
<1>4. \A i \in 1 .. n - 1 : e + i - 1 = i
  BY <1>2
<1> QED
  BY <1>2, <1>3, <1>4 DEF e, j

(* One element before a sequence.                                           *)
LEMMA ConsHas ==
  ASSUME NEW A, NEW b \in A, NEW q \in Seq(A)
  PROVE  /\ <<b>> \o q \in Seq(A) /\ Len(<<b>> \o q) = Len(q) + 1
         /\ (<<b>> \o q)[1] = b
         /\ \A k \in 1 .. Len(q) : (<<b>> \o q)[k + 1] = q[k]
<1> DEFINE p == <<b>>  m == Len(q)  u == p \o q
<1>1. p \in Seq(A) /\ Len(p) = 1 /\ p[1] = b /\ m \in Nat
  OBVIOUS
<1>2. /\ u \in Seq(A) /\ Len(u) = Len(p) + m
      /\ \A i \in 1 .. Len(p) + m : u[i] = IF i <= Len(p) THEN p[i] ELSE q[i - Len(p)]
  BY <1>1, ConcatProperties
<1> HIDE DEF p, m, u
<1>3. \A k \in 1 .. m : k + 1 \in 1 .. 1 + m /\ ~(k + 1 <= 1) /\ (k + 1) - 1 = k
  BY <1>1
<1>4. 1 \in 1 .. 1 + m /\ 1 <= 1 /\ 1 + m = m + 1
  BY <1>1
<1>5. u[1] = b
  BY <1>1, <1>2, <1>4
<1>6. \A k \in 1 .. m : u[k + 1] = q[k]
  BY <1>1, <1>2, <1>3
<1>7. Len(u) = m + 1
  BY <1>1, <1>2, <1>4
<1> QED
  BY <1>2, <1>5, <1>6, <1>7 DEF u, p, m

(* A sequence is its first element and the others.                          *)
LEMMA ConsOf ==
  ASSUME NEW A, NEW s \in Seq(A), s # <<>>
  PROVE  s = <<s[1]>> \o Tail(s) /\ s[1] \in A /\ Tail(s) \in Seq(A) /\ Len(s) \in Nat \ {0}
<1>1. Len(s) \in Nat \ {0}
  BY EmptySeq
<1>2. 1 \in 1 .. Len(s) /\ Len(s) \in 1 .. Len(s)
  BY <1>1
<1> DEFINE e == 1  n == Len(s)
<1> HIDE DEF e, n
<1>3. SubSeq(s, e, n) = <<s[e]>> \o SubSeq(s, e + 1, n)
  BY <1>2, SubSeqRecursiveFirst DEF e, n
<1>4. SubSeq(s, 1, Len(s)) = s
  BY SubSeqFull
<1>5. Tail(s) = SubSeq(s, 2, Len(s))
  BY TailIsSubSeq
<1>6. e + 1 = 2
  BY DEF e
<1>7. s = <<s[1]>> \o Tail(s)
  BY <1>3, <1>4, <1>5, <1>6 DEF e, n
<1>8. s[1] \in A /\ Tail(s) \in Seq(A)
  BY <1>2, ElementOfSeq, HeadTailProperties
<1> QED
  BY <1>1, <1>7, <1>8

(* The elements of two sequences put together.                              *)
LEMMA ConcatElements ==
  ASSUME NEW S, NEW s \in Seq(S), NEW t \in Seq(S), NEW y
  PROVE  y \in ToSet(s \o t) <=> y \in ToSet(s) \/ y \in ToSet(t)
<1> DEFINE u == s \o t  m == Len(s)  n == Len(t)
<1>1. /\ m \in Nat /\ DOMAIN s = 1 .. m
      /\ n \in Nat /\ DOMAIN t = 1 .. n
  BY LenProperties
<1>2. /\ u \in Seq(S) /\ Len(u) = m + n
      /\ \A i \in 1 .. m + n : u[i] = IF i <= m THEN s[i] ELSE t[i - m]
  BY ConcatProperties
<1>3. DOMAIN u = 1 .. m + n
  BY <1>2, LenProperties
<1> HIDE DEF u, m, n
<1>4. \A i \in 1 .. m : i \in 1 .. m + n /\ u[i] = s[i]
  BY <1>1, <1>2
<1>5. \A i \in 1 .. n : m + i \in 1 .. m + n /\ u[m + i] = t[i]
  <2>1. \A i \in 1 .. n : m + i \in 1 .. m + n /\ ~(m + i <= m) /\ (m + i) - m = i
    BY <1>1
  <2> QED
    BY <1>2, <2>1
<1>6. \A i \in 1 .. m + n : i \in 1 .. m \/ (i - m \in 1 .. n /\ u[i] = t[i - m])
  <2>1. \A i \in 1 .. m + n : i \in 1 .. m \/ (i - m \in 1 .. n /\ ~(i <= m))
    BY <1>1
  <2> QED
    BY <1>2, <2>1
<1>7. /\ y \in ToSet(u) <=> \E i \in 1 .. m + n : y = u[i]
      /\ y \in ToSet(s) <=> \E i \in 1 .. m : y = s[i]
      /\ y \in ToSet(t) <=> \E i \in 1 .. n : y = t[i]
  BY <1>1, <1>3 DEF ToSet
<1>8. y \in ToSet(u) <=> y \in ToSet(s) \/ y \in ToSet(t)
  BY <1>4, <1>5, <1>6, <1>7
<1> QED
  BY <1>8 DEF u

-----------------------------------------------------------------------------
(* A sequence made of the pieces that a function gives for each element *)

FlatMap(g, s) == FlattenSeq([k \in DOMAIN s |-> g[s[k]]])

(* The pieces are a sequence of sequences.                                  *)
LEMMA SeqPieces ==
  ASSUME NEW A, NEW S, NEW g \in [A -> Seq(S)], NEW s \in Seq(A)
  PROVE  [k \in DOMAIN s |-> g[s[k]]] \in Seq(Seq(S))
<1>1. Len(s) \in Nat /\ DOMAIN s = 1 .. Len(s)
  BY LenProperties
<1>2. \A k \in 1 .. Len(s) : g[s[k]] \in Seq(S)
  BY ElementOfSeq
<1> DEFINE p == [k \in 1 .. Len(s) |-> g[s[k]]]
<1>3. p \in [1 .. Len(s) -> Seq(S)]
  BY <1>2
<1>4. p \in Seq(Seq(S))
  <2> DEFINE T == Seq(S)  n == Len(s)
  <2> HIDE DEF p, T, n
  <2>1. n \in Nat /\ p \in [1 .. n -> T]
    BY <1>1, <1>3 DEF n, T
  <2>2. p \in Seq(T)
    BY <2>1, SeqDef
  <2> QED
    BY <2>2 DEF T
<1> HIDE DEF p
<1> QED
  BY <1>1, <1>4 DEF p

(* No elements, no pieces.                                                  *)
LEMMA FlatMapEmpty ==
  ASSUME NEW g
  PROVE  FlatMap(g, <<>>) = <<>>
<1>1. [k \in DOMAIN <<>> |-> g[<<>>[k]]] = <<>>
  OBVIOUS
<1> QED
  BY <1>1, FlatEmpty, Zenon DEF FlatMap

(* One element, one piece.                                                  *)
LEMMA FlatMapOne ==
  ASSUME NEW A, NEW S, NEW g \in [A -> Seq(S)], NEW x \in A
  PROVE  FlatMap(g, <<x>>) = g[x]
<1>1. [k \in DOMAIN <<x>> |-> g[<<x>>[k]]] = <<g[x]>>
  OBVIOUS
<1>2. FlattenSeq(<<g[x]>>) = g[x]
  BY FlatOne
<1> QED
  BY <1>1, <1>2, Zenon DEF FlatMap

(* The pieces of two sequences.                                             *)
LEMMA FlatMapConcat ==
  ASSUME NEW A, NEW S, NEW g \in [A -> Seq(S)], NEW s \in Seq(A), NEW t \in Seq(A)
  PROVE  /\ FlatMap(g, s \o t) = FlatMap(g, s) \o FlatMap(g, t)
         /\ FlatMap(g, s) \in Seq(S)
         /\ FlatMap(g, t) \in Seq(S)
<1> DEFINE ps == [k \in DOMAIN s |-> g[s[k]]]
           pt == [k \in DOMAIN t |-> g[t[k]]]
           pu == [k \in DOMAIN (s \o t) |-> g[(s \o t)[k]]]
<1>1. /\ Len(s) \in Nat /\ DOMAIN s = 1 .. Len(s)
      /\ Len(t) \in Nat /\ DOMAIN t = 1 .. Len(t)
  BY LenProperties
<1>2. /\ s \o t \in Seq(A) /\ Len(s \o t) = Len(s) + Len(t)
      /\ \A i \in 1 .. Len(s) + Len(t) : (s \o t)[i] = IF i <= Len(s) THEN s[i] ELSE t[i - Len(s)]
  BY ConcatProperties
<1>3. DOMAIN (s \o t) = 1 .. Len(s) + Len(t)
  BY <1>2, LenProperties
<1>4. ps \in Seq(Seq(S)) /\ pt \in Seq(Seq(S)) /\ pu \in Seq(Seq(S))
  <2>1. ps \in Seq(Seq(S))
    BY SeqPieces
  <2>2. pt \in Seq(Seq(S))
    BY SeqPieces
  <2>3. pu \in Seq(Seq(S))
    BY <1>2, SeqPieces
  <2> QED
    BY <2>1, <2>2, <2>3
<1>5. Len(ps) = Len(s) /\ Len(pt) = Len(t) /\ Len(pu) = Len(s) + Len(t)
  <2>1. DOMAIN ps = 1 .. Len(s) /\ DOMAIN pt = 1 .. Len(t) /\ DOMAIN pu = 1 .. Len(s) + Len(t)
    BY <1>1, <1>3
  <2> HIDE DEF ps, pt, pu
  <2>2. /\ Len(ps) \in Nat /\ DOMAIN ps = 1 .. Len(ps)
        /\ Len(pt) \in Nat /\ DOMAIN pt = 1 .. Len(pt)
        /\ Len(pu) \in Nat /\ DOMAIN pu = 1 .. Len(pu)
    BY <1>4, LenProperties
  <2> QED
    BY <1>1, <2>1, <2>2
<1>6. \A i \in 1 .. Len(s) + Len(t) : pu[i] = IF i <= Len(s) THEN ps[i] ELSE pt[i - Len(s)]
  <2> TAKE i \in 1 .. Len(s) + Len(t)
  <2>1. pu[i] = g[(s \o t)[i]]
    BY <1>3
  <2>2. CASE i <= Len(s)
    <3>1. (s \o t)[i] = s[i] /\ i \in 1 .. Len(s)
      BY <1>1, <1>2, <2>2
    <3> QED
      BY <1>1, <2>1, <2>2, <3>1
  <2>3. CASE ~(i <= Len(s))
    <3>1. (s \o t)[i] = t[i - Len(s)]
      BY <1>1, <1>2, <2>3
    <3>2. i - Len(s) \in 1 .. Len(t)
      BY <1>1, <2>3
    <3>3. pt[i - Len(s)] = g[t[i - Len(s)]]
      BY <1>1, <3>2
    <3> QED
      BY <2>1, <2>3, <3>1, <3>3
  <2> QED
    BY <2>2, <2>3
<1>7. /\ FlatMap(g, s \o t) = FlattenSeq(pu)
      /\ FlatMap(g, s) = FlattenSeq(ps)
      /\ FlatMap(g, t) = FlattenSeq(pt)
  BY Zenon DEF FlatMap
<1> HIDE DEF ps, pt, pu
<1>8. pu = ps \o pt
  <2>1. /\ ps \o pt \in Seq(Seq(S)) /\ Len(ps \o pt) = Len(s) + Len(t)
        /\ \A i \in 1 .. Len(s) + Len(t) : (ps \o pt)[i] = IF i <= Len(s) THEN ps[i] ELSE pt[i - Len(s)]
    <3>1. \A x, z \in Seq(Seq(S)) :
            /\ x \o z \in Seq(Seq(S)) /\ Len(x \o z) = Len(x) + Len(z)
            /\ \A i \in 1 .. Len(x) + Len(z) : (x \o z)[i] = IF i <= Len(x) THEN x[i] ELSE z[i - Len(x)]
      BY ConcatProperties
    <3>2. /\ ps \o pt \in Seq(Seq(S)) /\ Len(ps \o pt) = Len(ps) + Len(pt)
          /\ \A i \in 1 .. Len(ps) + Len(pt) : (ps \o pt)[i] = IF i <= Len(ps) THEN ps[i] ELSE pt[i - Len(ps)]
      BY <1>4, <3>1, Zenon
    <3> QED
      BY <1>5, <3>2, Zenon
  <2>2. \A i \in 1 .. Len(pu) : pu[i] = (ps \o pt)[i]
    BY <1>5, <1>6, <2>1
  <2> HIDE <1>6
  <2> QED
    BY <1>4, <1>5, <2>1, <2>2, SeqEqual
<1> QED
  <2>1. \A x, z \in Seq(Seq(S)) :
          FlattenSeq(x \o z) = FlattenSeq(x) \o FlattenSeq(z) /\ FlattenSeq(x) \in Seq(S) /\ FlattenSeq(z) \in Seq(S)
    BY FlatConcat
  <2>2. /\ FlattenSeq(ps \o pt) = FlattenSeq(ps) \o FlattenSeq(pt)
        /\ FlattenSeq(ps) \in Seq(S) /\ FlattenSeq(pt) \in Seq(S)
    BY <1>4, <2>1, Zenon
  <2> QED
    BY <1>7, <1>8, <2>2, Zenon

(* A sequence falls apart at each of its elements, and so do the pieces.    *)
LEMMA FlatMapSplit ==
  ASSUME NEW A, NEW S, NEW g \in [A -> Seq(S)], NEW s \in Seq(A), NEW k \in 1 .. Len(s)
  PROVE  /\ FlatMap(g, s) = FlatMap(g, SubSeq(s, 1, k - 1)) \o (g[s[k]] \o FlatMap(g, SubSeq(s, k + 1, Len(s))))
         /\ FlatMap(g, SubSeq(s, 1, k - 1)) \in Seq(S)
         /\ FlatMap(g, SubSeq(s, k + 1, Len(s))) \in Seq(S)
         /\ g[s[k]] \in Seq(S)
<1> DEFINE a == SubSeq(s, 1, k - 1)  b == SubSeq(s, k + 1, Len(s))  c == SubSeq(s, k, Len(s))
<1>1. Len(s) \in Nat /\ \A i \in 1 .. Len(s) : s[i] \in A
  BY ElementOfSeq
<1>2. a \in Seq(A) /\ b \in Seq(A) /\ c \in Seq(A) /\ <<s[k]>> \in Seq(A)
  <2>1. a \in Seq(A)
    BY <1>1, SubSeqProperties
  <2>2. b \in Seq(A)
    BY <1>1, SubSeqProperties
  <2>3. c \in Seq(A)
    BY <1>1, SubSeqProperties
  <2> QED
    BY <1>1, <2>1, <2>2, <2>3
<1>3. c = <<s[k]>> \o b
  <2>1. Len(s) \in k .. Len(s)
    BY <1>1
  <2> QED
    BY <2>1, SubSeqRecursiveFirst
<1>4. a \o c = s
  <2> DEFINE e == 1  j == k - 1  n == Len(s)
  <2>1. e \in 1 .. Len(s) + 1 /\ j \in e - 1 .. Len(s) /\ n \in j .. Len(s)
    BY <1>1
  <2>2. j + 1 = k
    BY <1>1
  <2> HIDE DEF e, j, n
  <2>3. SubSeq(s, e, j) \o SubSeq(s, j + 1, n) = SubSeq(s, e, n)
    BY <2>1, ConcatAdjacentSubSeq
  <2>4. SubSeq(s, 1, Len(s)) = s
    BY SubSeqFull
  <2> QED
    BY <2>2, <2>3, <2>4 DEF e, j, n
<1>0. \A x, z \in Seq(A) : /\ FlatMap(g, x \o z) = FlatMap(g, x) \o FlatMap(g, z)
                           /\ FlatMap(g, x) \in Seq(S) /\ FlatMap(g, z) \in Seq(S)
  BY FlatMapConcat
<1>9. \A x \in A : FlatMap(g, <<x>>) = g[x] /\ g[x] \in Seq(S)
  BY FlatMapOne
<1> HIDE DEF a, b, c
<1>5. FlatMap(g, s) = FlatMap(g, a) \o FlatMap(g, c) /\ FlatMap(g, a) \in Seq(S)
  BY <1>0, <1>2, <1>4, Zenon
<1>6. FlatMap(g, c) = FlatMap(g, <<s[k]>>) \o FlatMap(g, b) /\ FlatMap(g, b) \in Seq(S)
  BY <1>0, <1>2, <1>3, Zenon
<1>7. FlatMap(g, <<s[k]>>) = g[s[k]] /\ g[s[k]] \in Seq(S)
  BY <1>1, <1>9, Zenon
<1> QED
  BY <1>5, <1>6, <1>7 DEF a, b

(* What the pieces are made of is what is put together.                     *)
LEMMA FlatMapElements ==
  ASSUME NEW A, NEW S, NEW g \in [A -> Seq(S)], NEW s \in Seq(A), NEW y
  PROVE  y \in ToSet(FlatMap(g, s)) <=> \E k \in 1 .. Len(s) : y \in ToSet(g[s[k]])
<1> DEFINE Holds(q) == y \in ToSet(FlatMap(g, q)) <=> \E k \in 1 .. Len(q) : y \in ToSet(g[q[k]])
           Right == {n \in Nat : \A q \in Seq(A) : Len(q) = n => Holds(q)}
<1>0. \A x, z \in Seq(A) : /\ FlatMap(g, x \o z) = FlatMap(g, x) \o FlatMap(g, z)
                           /\ FlatMap(g, x) \in Seq(S) /\ FlatMap(g, z) \in Seq(S)
  BY FlatMapConcat
<1>9. \A x \in A : FlatMap(g, <<x>>) = g[x] /\ g[x] \in Seq(S)
  BY FlatMapOne
<1>1. 0 \in Right
  <2> SUFFICES ASSUME NEW q \in Seq(A), Len(q) = 0 PROVE Holds(q)
    OBVIOUS
  <2>1. q = <<>>
    BY EmptySeq
  <2>2. ToSet(FlatMap(g, <<>>)) = {}
    BY FlatMapEmpty DEF ToSet
  <2> QED
    BY <2>1, <2>2
<1>2. ASSUME NEW n \in 1 .. Len(s), n - 1 \in Right PROVE n \in Right
  <2> SUFFICES ASSUME NEW q \in Seq(A), Len(q) = n PROVE Holds(q)
    OBVIOUS
  <2>1. Len(s) \in Nat
    OBVIOUS
  <2> DEFINE a == SubSeq(q, 1, n - 1)
  <2>2. \A i \in 1 .. n : q[i] \in A
    BY ElementOfSeq
  <2>3. a \in Seq(A) /\ Len(a) = n - 1 /\ \A i \in 1 .. n - 1 : a[i] = q[i]
    BY <2>1, PrefixHas
  <2>4. Holds(a)
    BY <1>2, <2>3
  <2>5. FlatMap(g, q) = FlatMap(g, a) \o g[q[n]] /\ FlatMap(g, a) \in Seq(S) /\ g[q[n]] \in Seq(S)
    <3>1. q = a \o <<q[n]>>
      <4>1. SubSeq(q, 1, Len(q)) = q
        BY SubSeqFull
      <4> DEFINE e == 1
      <4>2. e \in 1 .. Len(q) /\ n \in e .. Len(q)
        OBVIOUS
      <4> HIDE DEF e
      <4>3. SubSeq(q, e, n) = SubSeq(q, e, n - 1) \o <<q[n]>>
        BY <4>2, SubSeqRecursiveSecond
      <4> QED
        BY <4>1, <4>3 DEF e
    <3>2. q[n] \in A /\ <<q[n]>> \in Seq(A)
      BY <2>2
    <3> HIDE DEF a
    <3>3. FlatMap(g, a \o <<q[n]>>) = FlatMap(g, a) \o FlatMap(g, <<q[n]>>) /\ FlatMap(g, a) \in Seq(S)
      BY <1>0, <2>3, <3>2, Zenon
    <3>4. FlatMap(g, <<q[n]>>) = g[q[n]] /\ g[q[n]] \in Seq(S)
      BY <1>9, <3>2, Zenon
    <3> QED
      BY <3>1, <3>3, <3>4
  <2>6. y \in ToSet(FlatMap(g, q)) <=> y \in ToSet(FlatMap(g, a)) \/ y \in ToSet(g[q[n]])
    BY <2>5, ConcatElements
  <2>7. (\E k \in 1 .. n : y \in ToSet(g[q[k]])) <=> (\E k \in 1 .. n - 1 : y \in ToSet(g[a[k]])) \/ y \in ToSet(g[q[n]])
    <3>1. \A k \in 1 .. n : k = n \/ k \in 1 .. n - 1
      OBVIOUS
    <3>2. n \in 1 .. n /\ \A k \in 1 .. n - 1 : k \in 1 .. n
      OBVIOUS
    <3> HIDE DEF a
    <3> QED
      BY <2>3, <3>1, <3>2
  <2> HIDE DEF a
  <2> QED
    BY <2>3, <2>4, <2>6, <2>7
<1>3. Len(s) \in Nat /\ Len(s) \in 0 .. Len(s)
  OBVIOUS
<1> HIDE DEF Right
<1>4. Len(s) \in Right
  BY <1>1, <1>2, <1>3, Climb
<1> QED
  BY <1>4 DEF Right

(* All the pieces together are a sequence of what they are made of.         *)
LEMMA FlatMapType ==
  ASSUME NEW A, NEW S, NEW g \in [A -> Seq(S)], NEW s \in Seq(A)
  PROVE  FlatMap(g, s) \in Seq(S)
BY FlatMapConcat

(* The first piece and the others.                                          *)
LEMMA FlatMapCons ==
  ASSUME NEW A, NEW S, NEW g \in [A -> Seq(S)], NEW s \in Seq(A), s # <<>>
  PROVE  FlatMap(g, s) = g[s[1]] \o FlatMap(g, Tail(s))
<1> DEFINE h == <<s[1]>>  t == Tail(s)
<1>1. s = h \o t /\ s[1] \in A /\ t \in Seq(A)
  BY ConsOf
<1>2. h \in Seq(A)
  BY <1>1
<1>3. FlatMap(g, h) = g[s[1]]
  BY <1>1, FlatMapOne
<1> HIDE DEF h, t
<1>4. \A x, z \in Seq(A) : /\ FlatMap(g, x \o z) = FlatMap(g, x) \o FlatMap(g, z)
                           /\ FlatMap(g, x) \in Seq(S) /\ FlatMap(g, z) \in Seq(S)
  BY FlatMapConcat
<1>5. FlatMap(g, s) = FlatMap(g, h) \o FlatMap(g, t)
  BY <1>1, <1>2, <1>4, Zenon
<1> QED
  BY <1>3, <1>5 DEF t

(* Where the middle of three sequences put together is found.               *)
LEMMA ConcatMiddle ==
  ASSUME NEW S, NEW a \in Seq(S), NEW b \in Seq(S), NEW c \in Seq(S), NEW i \in 1 .. Len(b)
  PROVE  /\ Len(a) + i \in 1 .. Len(a \o (b \o c))
         /\ (a \o (b \o c))[Len(a) + i] = b[i]
<1> DEFINE bc == b \o c
<1>1. Len(a) \in Nat /\ Len(b) \in Nat /\ Len(c) \in Nat
  OBVIOUS
<1>2. /\ bc \in Seq(S) /\ Len(bc) = Len(b) + Len(c)
      /\ \A k \in 1 .. Len(b) + Len(c) : bc[k] = IF k <= Len(b) THEN b[k] ELSE c[k - Len(b)]
  BY ConcatProperties
<1> HIDE DEF bc
<1>3. /\ Len(a \o bc) = Len(a) + Len(bc)
      /\ \A k \in 1 .. Len(a) + Len(bc) : (a \o bc)[k] = IF k <= Len(a) THEN a[k] ELSE bc[k - Len(a)]
  <2>1. \A x, z \in Seq(S) :
          /\ Len(x \o z) = Len(x) + Len(z)
          /\ \A k \in 1 .. Len(x) + Len(z) : (x \o z)[k] = IF k <= Len(x) THEN x[k] ELSE z[k - Len(x)]
    BY ConcatProperties
  <2> QED
    BY <1>2, <2>1, Zenon
<1>4. /\ i \in 1 .. Len(b) + Len(c) /\ i <= Len(b)
      /\ Len(a) + i \in 1 .. Len(a) + Len(bc) /\ ~(Len(a) + i <= Len(a)) /\ (Len(a) + i) - Len(a) = i
  BY <1>1, <1>2
<1>5. bc[i] = b[i]
  BY <1>2, <1>4
<1>6. (a \o bc)[Len(a) + i] = bc[i]
  BY <1>3, <1>4
<1> QED
  BY <1>3, <1>4, <1>5, <1>6 DEF bc

(* The largest element of a set of numbers.                                 *)
LEMMA MaxIs ==
  ASSUME NEW S \in SUBSET Int, NEW m \in S, \A y \in S : y =< m
  PROVE  Max(S) = m
<1>1. m \in S /\ \A y \in S : m >= y
  OBVIOUS
<1>2. \A x \in S : (\A y \in S : x >= y) => x = m
  OBVIOUS
<1> QED
  BY <1>1, <1>2 DEF Max

(* A bounded set of naturals has a largest element.                         *)
LEMMA MaxExists ==
  ASSUME NEW S \in SUBSET Nat, S # {}, NEW n \in Nat, \A y \in S : y =< n
  PROVE  Max(S) \in S /\ \A y \in S : y =< Max(S)
<1> DEFINE T == {n - y : y \in S}
<1>1. T \in SUBSET Nat /\ T # {}
  <2>1. \A y \in S : n - y \in Nat
    OBVIOUS
  <2>2. PICK y \in S : TRUE
    OBVIOUS
  <2>3. n - y \in T
    OBVIOUS
  <2> QED
    BY <2>1, <2>3
<1> HIDE DEF T
<1>2. PICK x \in T : \A y \in T : x =< y
  BY <1>1, Least
<1>3. PICK m \in S : x = n - m
  BY DEF T
<1>4. \A y \in S : y =< m
  <2> TAKE y \in S
  <2>1. n - y \in T
    BY DEF T
  <2>2. n - m =< n - y
    BY <1>2, <1>3, <2>1
  <2> QED
    BY <2>2
<1>5. Max(S) = m
  BY <1>4, MaxIs
<1> QED
  BY <1>4, <1>5

(* Sequences one after the other, however bracketed: three of them, ...     *)
LEMMA JoinThree ==
  ASSUME NEW S, NEW a \in Seq(S), NEW b \in Seq(S), NEW c \in Seq(S)
  PROVE  (a \o b) \o c = a \o (b \o c)
<1>1. SeqsAssociate(S)
  BY SeqsJoin
<1> QED
  BY <1>1, Zenon DEF SeqsAssociate

\* the four sequences, one after the other
FourJoined(a, b, c, e) == ((a \o b) \o c) \o e = a \o (b \o (c \o e))

(* ... four of them, ...                                                    *)
LEMMA JoinFour ==
  ASSUME NEW S, NEW a \in Seq(S), NEW b \in Seq(S), NEW c \in Seq(S), NEW e \in Seq(S)
  PROVE  FourJoined(a, b, c, e)
<1> DEFINE ab == a \o b  ce == c \o e
<1>1. SeqsAssociate(S)
  BY SeqsJoin
<1>2. ce \in Seq(S)
  OBVIOUS
<1>3. (ab \o c) \o e = ab \o (c \o e)
  <2>1. ab \in Seq(S)
    OBVIOUS
  <2> HIDE DEF ab
  <2> QED
    BY <1>1, <2>1, Zenon DEF SeqsAssociate
<1>4. (a \o b) \o ce = a \o (b \o ce)
  <2> HIDE DEF ce
  <2> QED
    BY <1>1, <1>2, ZenonT(30) DEF SeqsAssociate
<1> QED
  BY <1>3, <1>4, Zenon DEF FourJoined

\* ... and three after the empty one
JoinsAfterNone(S) == \A a, b, c \in Seq(S) : <<>> \o ((a \o b) \o c) = a \o (b \o c)

(* Sequences joined, the first of them empty.                               *)
LEMMA JoinAfterNone ==
  ASSUME NEW S
  PROVE  JoinsAfterNone(S)
<1>1. ASSUME NEW a \in Seq(S), NEW b \in Seq(S), NEW c \in Seq(S)
      PROVE  <<>> \o ((a \o b) \o c) = a \o (b \o c)
  <2>1. (a \o b) \o c = a \o (b \o c)
    BY JoinThree
  <2> DEFINE x == (a \o b) \o c
  <2>2. x \in Seq(S)
    OBVIOUS
  <2> HIDE DEF x
  <2>3. <<>> \o x = x
    BY <2>2, ConcatEmptySeq
  <2> QED
    BY <2>1, <2>3 DEF x
<1> QED
  BY <1>1, Zenon DEF JoinsAfterNone

=============================================================================
