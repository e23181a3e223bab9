--------------------------- MODULE Journal40Proofs ---------------------------
(***************************************************************************)
(* Proofs about Journal40: whatever was damaged, a journal that passed     *)
(* fsck's check is right, a right one passes it uncut, and the replay of   *)
(* what passed makes of the device what it is to.                          *)
(***************************************************************************)
EXTENDS Journal40, Basics

-----------------------------------------------------------------------------
(* What blocks hold *)

Datas   == [type : {"data"}, val : Nat]
Supers  == [type : {"super"}, root : Nat, ctr : Nat]
Headers == [type : {"header"}, last : Nat]
Footers == [type : {"footer"}, flushed : Nat, ctr : Nat]
TxHs    == [type : {"txh"}, prev : Nat, next : Nat, ctr : Nat]
Pairs   == [wandered : Nat, original : Nat]
LGRs    == [type : {"lgr"}, next : Nat, entries : Seq(Pairs)]

Content == Datas \cup Supers \cup Headers \cup Footers \cup TxHs \cup LGRs
Devices == [Blocks -> Content]

(* The blocks are numbers.                                                  *)
LEMMA BlockNumbers ==
  /\ AreaLen \in Nat /\ Blocks \in SUBSET Nat
  /\ FormatBlk \in Blocks /\ HeaderBlk \in Blocks /\ FooterBlk \in Blocks /\ AllocBlk \in Blocks
BY JournalConstants DEF Blocks

(* What a transaction header points to.                                     *)
LEMMA TxHHas ==
  ASSUME NEW d \in Devices, NEW b, IsTxH(d, b)
  PROVE  b \in Blocks /\ b \in Nat /\ d[b].prev \in Nat /\ d[b].next \in Nat
BY BlockNumbers DEF IsTxH, Devices, Content, Datas, Supers, Headers, Footers, TxHs, LGRs

(* What a log record holds.                                                 *)
LEMMA LGRHas ==
  ASSUME NEW d \in Devices, NEW b, IsLGR(d, b)
  PROVE  b \in Blocks /\ b \in Nat /\ d[b].next \in Nat /\ d[b].entries \in Seq(Pairs)
BY BlockNumbers DEF IsLGR, Devices, Content, Datas, Supers, Headers, Footers, TxHs, LGRs

(* No block is both.                                                        *)
LEMMA TxHNoLGR ==
  ASSUME NEW d, NEW b, IsTxH(d, b)
  PROVE  ~IsLGR(d, b)
BY DEF IsTxH, IsLGR

-----------------------------------------------------------------------------
(* The list of transactions *)

\* list is the chain of transactions from after flushed up to last.
Chain(d, list, last, flushed) ==
  /\ list \in Seq(Blocks)
  /\ \A k \in 1 .. Len(list) : IsTxH(d, list[k]) /\ list[k] # flushed
  /\ \A k \in 1 .. Len(list) : d[list[k]].prev = IF k = 1 THEN flushed ELSE list[k - 1]
  /\ last = IF Len(list) = 0 THEN flushed ELSE list[Len(list)]

(* A chain ends before each of its transactions, too.                       *)
LEMMA ChainPrefix ==
  ASSUME NEW d \in Devices, NEW list, NEW last, NEW flushed, Chain(d, list, last, flushed),
         NEW k \in 1 .. Len(list)
  PROVE  Chain(d, SubSeq(list, 1, k - 1), d[list[k]].prev, flushed)
<1> DEFINE x == SubSeq(list, 1, k - 1)
<1>1. list \in Seq(Blocks) /\ Len(list) \in Nat
  BY DEF Chain
<1>2. x \in Seq(Blocks) /\ Len(x) = k - 1 /\ \A i \in 1 .. k - 1 : x[i] = list[i]
  BY <1>1, PrefixHas
<1> HIDE DEF x
<1>3. \A i \in 1 .. Len(x) : i \in 1 .. Len(list) /\ (i # 1 => i - 1 \in 1 .. k - 1)
  BY <1>1, <1>2
<1>4. \A i \in 1 .. Len(x) : IsTxH(d, x[i]) /\ x[i] # flushed
  BY <1>2, <1>3 DEF Chain
<1>5. ASSUME NEW i \in 1 .. Len(x) PROVE d[x[i]].prev = IF i = 1 THEN flushed ELSE x[i - 1]
  <2>1. d[list[i]].prev = IF i = 1 THEN flushed ELSE list[i - 1]
    BY <1>3 DEF Chain
  <2> QED
    BY <1>2, <1>3, <2>1
<1>6. d[list[k]].prev = IF Len(x) = 0 THEN flushed ELSE x[Len(x)]
  <2>1. d[list[k]].prev = IF k = 1 THEN flushed ELSE list[k - 1]
    BY DEF Chain
  <2>2. k # 1 => k - 1 \in 1 .. k - 1
    BY <1>1
  <2>3. Len(x) = 0 <=> k = 1
    BY <1>1, <1>2
  <2> QED
    BY <1>2, <2>1, <2>2, <2>3
<1>7. Chain(d, x, d[list[k]].prev, flushed)
  BY <1>2, <1>4, <1>5, <1>6 DEF Chain
<1> QED
  BY <1>7 DEF x

(* The next transaction makes a chain longer.                               *)
LEMMA ChainAppend ==
  ASSUME NEW d \in Devices, NEW list, NEW b, NEW flushed,
         IsTxH(d, b), b # flushed, Chain(d, list, d[b].prev, flushed)
  PROVE  Chain(d, Append(list, b), b, flushed)
<1> DEFINE x == Append(list, b)
<1>1. list \in Seq(Blocks) /\ b \in Blocks /\ Len(list) \in Nat
  BY TxHHas DEF Chain
<1>2. /\ x \in Seq(Blocks) /\ Len(x) = Len(list) + 1
      /\ \A i \in 1 .. Len(list) : x[i] = list[i]
      /\ x[Len(list) + 1] = b
  BY <1>1
<1> HIDE DEF x
<1>3. \A i \in 1 .. Len(x) : (i \in 1 .. Len(list) \/ i = Len(list) + 1) /\ (i # 1 => i - 1 \in 1 .. Len(list))
  BY <1>1, <1>2
<1>4. \A i \in 1 .. Len(x) : IsTxH(d, x[i]) /\ x[i] # flushed
  BY <1>2, <1>3 DEF Chain
<1>5. ASSUME NEW i \in 1 .. Len(x) PROVE d[x[i]].prev = IF i = 1 THEN flushed ELSE x[i - 1]
  <2>1. CASE i \in 1 .. Len(list)
    <3>1. d[list[i]].prev = IF i = 1 THEN flushed ELSE list[i - 1]
      BY <2>1 DEF Chain
    <3> QED
      BY <1>2, <1>3, <2>1, <3>1
  <2>2. CASE i = Len(list) + 1
    <3>1. d[x[i]].prev = IF Len(list) = 0 THEN flushed ELSE list[Len(list)]
      BY <1>2, <2>2 DEF Chain
    <3>2. /\ Len(list) = 0 <=> i = 1
          /\ i - 1 = Len(list)
      BY <1>1, <2>2
    <3> QED
      BY <1>2, <1>3, <3>1, <3>2
  <2> QED
    BY <1>3, <2>1, <2>2
<1>6. b = IF Len(x) = 0 THEN flushed ELSE x[Len(x)]
  BY <1>1, <1>2
<1>7. Chain(d, x, b, flushed)
  BY <1>2, <1>4, <1>5, <1>6 DEF Chain
<1> QED
  BY <1>7 DEF x

(* No transaction is twice in a chain.                                      *)
LEMMA ChainDistinct ==
  ASSUME NEW d \in Devices, NEW list, NEW last, NEW flushed, Chain(d, list, last, flushed)
  PROVE  \A i, j \in 1 .. Len(list) : list[i] = list[j] => i = j
<1> DEFINE Bad == {i \in 1 .. Len(list) : \E j \in 1 .. Len(list) : i < j /\ list[i] = list[j]}
<1>1. Len(list) \in Nat
  BY DEF Chain
<1>2. Bad = {}
  <2> SUFFICES ASSUME Bad # {} PROVE FALSE
    OBVIOUS
  <2>1. PICK i \in Bad : \A k \in Bad : i =< k
    <3>1. Bad \in SUBSET Nat
      OBVIOUS
    <3> HIDE DEF Bad
    <3> QED
      BY <3>1, Least
  <2>2. PICK j \in 1 .. Len(list) : i < j /\ list[i] = list[j]
    BY <2>1
  <2>3. i \in 1 .. Len(list) /\ j # 1 /\ j - 1 \in 1 .. Len(list)
    BY <1>1, <2>1, <2>2
  <2>4. d[list[j]].prev = list[j - 1] /\ list[j - 1] # flushed
    BY <2>3 DEF Chain
  <2>5. CASE i = 1
    <3>1. d[list[i]].prev = flushed
      BY <2>3, <2>5 DEF Chain
    <3> QED
      BY <2>2, <2>4, <3>1
  <2>6. CASE i # 1
    <3>1. d[list[i]].prev = list[i - 1]
      BY <2>3, <2>6 DEF Chain
    <3>2. i - 1 \in 1 .. Len(list) /\ i - 1 < j - 1 /\ ~(i =< i - 1)
      BY <1>1, <2>2, <2>3, <2>6
    <3>3. i - 1 \in Bad
      BY <2>2, <2>3, <2>4, <3>1, <3>2
    <3> QED
      BY <2>1, <3>2, <3>3
  <2> QED
    BY <2>5, <2>6
<1>3. \A i, j \in 1 .. Len(list) : i < j \/ j < i \/ i = j
  BY <1>1
<1> QED
  BY <1>2, <1>3

\* back[n][b]: the chains of at most n transactions up to b
BackSteps(back, d, flushed) ==
  /\ \A b \in Nat : back[0][b] = IF b = flushed THEN {<<>>} ELSE {}
  /\ \A n \in 1 .. AreaLen : \A b \in Nat :
       back[n][b] = IF b = flushed THEN {<<>>}
                    ELSE IF ~IsTxH(d, b) THEN {}
                    ELSE {Append(txs_, b) : txs_ \in back[n - 1][d[b].prev]}

BackRecursion(back, d, flushed) ==
  back = [steps \in 0 .. AreaLen |->
            [b \in Nat |->
               IF b = flushed THEN {<<>>}
               ELSE IF steps = 0 \/ ~IsTxH(d, b) THEN {}
               ELSE {Append(txs_, b) : txs_ \in back[steps - 1][d[b].prev]}]]

(* The walk back over the transactions can be made.                         *)
LEMMA BackExists ==
  ASSUME NEW d \in Devices, NEW flushed \in Nat
  PROVE  \E back : BackRecursion(back, d, flushed)
<1> DEFINE X == [Nat -> SUBSET Seq(Nat)]
           Step(x) == [b \in Nat |-> IF b = flushed THEN {<<>>}
                                     ELSE IF ~IsTxH(d, b) THEN {}
                                     ELSE {Append(txs_, b) : txs_ \in x[d[b].prev]}]
           a == [b \in Nat |-> IF b = flushed THEN {<<>>} ELSE {}]
           G == [n \in 1 .. AreaLen |-> [x \in X |-> Step(x)]]
<1>1. AreaLen \in Nat
  BY BlockNumbers
<1>2. a \in X
  BY EmptySeq
<1>3. ASSUME NEW x \in X PROVE Step(x) \in X
  <2>1. ASSUME NEW b \in Nat, b # flushed, IsTxH(d, b)
        PROVE  {Append(txs_, b) : txs_ \in x[d[b].prev]} \in SUBSET Seq(Nat)
    <3>1. x[d[b].prev] \in SUBSET Seq(Nat)
      BY <2>1, TxHHas
    <3>2. \A q \in Seq(Nat) : Append(q, b) \in Seq(Nat)
      OBVIOUS
    <3> QED
      BY <3>1, <3>2
  <2> QED
    BY <2>1, EmptySeq
<1>4. G \in [1 .. AreaLen -> [X -> X]]
  BY <1>3
<1>5. \A n \in 1 .. AreaLen : \A x \in X : G[n][x] = Step(x)
  OBVIOUS
<1> HIDE DEF G, X
<1>6. PICK f : IsIterate(f, AreaLen, X, a, G)
  BY <1>1, <1>2, <1>4, Iterates
<1>7. f \in [0 .. AreaLen -> X] /\ f[0] = a /\ \A n \in 1 .. AreaLen : f[n] = G[n][f[n - 1]]
  BY <1>6 DEF IsIterate
<1>8. \A n \in 1 .. AreaLen : f[n] = Step(f[n - 1])
  <2>1. \A n \in 1 .. AreaLen : n - 1 \in 0 .. AreaLen
    BY <1>1
  <2>2. \A n \in 1 .. AreaLen : f[n - 1] \in X
    BY <1>7, <2>1
  <2> HIDE DEF Step
  <2> QED
    BY <1>5, <1>7, <2>2
<1> DEFINE e == [steps \in 0 .. AreaLen |->
                   [b \in Nat |->
                      IF b = flushed THEN {<<>>}
                      ELSE IF steps = 0 \/ ~IsTxH(d, b) THEN {}
                      ELSE {Append(txs_, b) : txs_ \in f[steps - 1][d[b].prev]}]]
<1>9. \A n \in 0 .. AreaLen : e[n] = f[n]
  <2> TAKE n \in 0 .. AreaLen
  <2>1. CASE n = 0
    <3>1. f[n] = a
      BY <1>7, <2>1
    <3> QED
      BY <2>1, <3>1
  <2>2. CASE n # 0
    <3>1. f[n] = Step(f[n - 1])
      BY <1>1, <1>8, <2>2
    <3> QED
      BY <2>2, <3>1
  <2> QED
    BY <2>1, <2>2
<1>10. f = e
  <2>1. f = [n \in 0 .. AreaLen |-> f[n]]
    BY <1>7
  <2>2. e = [n \in 0 .. AreaLen |-> e[n]]
    OBVIOUS
  <2> HIDE DEF e
  <2> QED
    BY <1>9, <2>1, <2>2
<1>11. BackRecursion(f, d, flushed)
  BY <1>10, Zenon DEF BackRecursion
<1> QED
  BY <1>11

(* ... and TxLists() makes it.                                              *)
LEMMA BackIs ==
  ASSUME NEW d \in Devices, NEW last \in Nat, NEW flushed \in Nat
  PROVE  \E back : BackSteps(back, d, flushed) /\ TxLists(d, last, flushed) = back[AreaLen][last]
<1> DEFINE c == CHOOSE back : BackRecursion(back, d, flushed)
<1>1. BackRecursion(c, d, flushed)
  BY BackExists
<1>2. TxLists(d, last, flushed) = c[AreaLen][last]
  BY Zenon DEF TxLists, BackRecursion
<1> HIDE DEF c
<1>3. \A n \in 0 .. AreaLen : \A b \in Nat :
        c[n][b] = IF b = flushed THEN {<<>>}
                  ELSE IF n = 0 \/ ~IsTxH(d, b) THEN {}
                  ELSE {Append(txs_, b) : txs_ \in c[n - 1][d[b].prev]}
  <2> DEFINE F(n) == [b \in Nat |->
                        IF b = flushed THEN {<<>>}
                        ELSE IF n = 0 \/ ~IsTxH(d, b) THEN {}
                        ELSE {Append(txs_, b) : txs_ \in c[n - 1][d[b].prev]}]
  <2>1. c = [n \in 0 .. AreaLen |-> F(n)]
    BY <1>1, Zenon DEF BackRecursion
  <2>2. \A n \in 0 .. AreaLen : c[n] = F(n)
    <3> HIDE DEF F
    <3> QED
      BY <2>1
  <2> QED
    BY <2>2
<1>4. BackSteps(c, d, flushed)
  <2>1. 0 \in 0 .. AreaLen /\ \A n \in 1 .. AreaLen : n \in 0 .. AreaLen /\ n # 0
    BY BlockNumbers
  <2>2. \A b \in Nat : c[0][b] = IF b = flushed THEN {<<>>} ELSE {}
    BY <1>3, <2>1
  <2>3. \A n \in 1 .. AreaLen : \A b \in Nat :
       c[n][b] = IF b = flushed THEN {<<>>}
                    ELSE IF ~IsTxH(d, b) THEN {}
                    ELSE {Append(txs_, b) : txs_ \in c[n - 1][d[b].prev]}
    BY <1>3, <2>1
  <2> QED
    BY <2>2, <2>3 DEF BackSteps
<1> QED
  BY <1>2, <1>4

(* Before the first transaction of all there is nothing.                    *)
LEMMA ChainEmpty ==
  ASSUME NEW d, NEW flushed
  PROVE  Chain(d, <<>>, flushed, flushed)
<1>1. <<>> \in Seq(Blocks) /\ Len(<<>>) = 0
  BY EmptySeq
<1>2. 1 .. 0 = {}
  OBVIOUS
<1> QED
  BY <1>1, <1>2 DEF Chain

\* all the chains of at most n transactions up to b, and no two of them
AreChains(lists, d, b, flushed, n) ==
  /\ \A x : x \in lists <=> Chain(d, x, b, flushed) /\ Len(x) =< n
  /\ \A x, y \in lists : x = y

(* The lists found are the chains, and there is at most one.                *)
LEMMA ListsAreChains ==
  ASSUME NEW d \in Devices, NEW last \in Nat, NEW flushed \in Nat
  PROVE  AreChains(TxLists(d, last, flushed), d, last, flushed, AreaLen)
<1>1. PICK back : BackSteps(back, d, flushed) /\ TxLists(d, last, flushed) = back[AreaLen][last]
  BY BackIs
<1> DEFINE Right == {n \in Nat : \A b \in Nat : AreChains(back[n][b], d, b, flushed, n)}
<1>2. ASSUME NEW b, NEW n \in Nat PROVE AreChains({<<>>}, d, flushed, flushed, n)
  <2>1. ASSUME NEW x, Chain(d, x, flushed, flushed) PROVE x = <<>>
    <3>1. x \in Seq(Blocks)
      BY <2>1 DEF Chain
    <3>2. CASE Len(x) = 0
      BY <3>1, <3>2, EmptySeq
    <3>3. CASE Len(x) # 0
      <4>1. Len(x) \in 1 .. Len(x)
        BY <3>1, <3>3
      <4> QED
        BY <2>1, <3>3, <4>1 DEF Chain
    <3> QED
      BY <3>2, <3>3
  <2>2. Chain(d, <<>>, flushed, flushed) /\ Len(<<>>) =< n
    BY ChainEmpty, EmptySeq
  <2> QED
    BY <2>1, <2>2 DEF AreChains
<1>3. 0 \in Right
  <2> SUFFICES ASSUME NEW b \in Nat PROVE AreChains(back[0][b], d, b, flushed, 0)
    OBVIOUS
  <2>1. back[0][b] = IF b = flushed THEN {<<>>} ELSE {}
    BY <1>1 DEF BackSteps
  <2>2. CASE b = flushed
    BY <1>2, <2>1, <2>2
  <2>3. CASE b # flushed
    <3>1. \A x : Chain(d, x, b, flushed) => Len(x) \in Nat /\ Len(x) # 0
      BY <2>3 DEF Chain
    <3>2. \A x : ~(Chain(d, x, b, flushed) /\ Len(x) =< 0)
      BY <3>1
    <3> QED
      BY <2>1, <2>3, <3>2 DEF AreChains
  <2> QED
    BY <2>2, <2>3
<1>4. ASSUME NEW n \in 1 .. AreaLen, n - 1 \in Right PROVE n \in Right
  <2>0. AreaLen \in Nat /\ n \in Nat /\ n - 1 \in Nat
    BY BlockNumbers
  <2> SUFFICES ASSUME NEW b \in Nat PROVE AreChains(back[n][b], d, b, flushed, n)
    BY <2>0
  <2>1. back[n][b] = IF b = flushed THEN {<<>>}
                     ELSE IF ~IsTxH(d, b) THEN {}
                     ELSE {Append(txs_, b) : txs_ \in back[n - 1][d[b].prev]}
    BY <1>1 DEF BackSteps
  <2>2. CASE b = flushed
    BY <1>2, <2>0, <2>1, <2>2
  <2>3. CASE b # flushed /\ ~IsTxH(d, b)
    <3>1. ASSUME NEW x, Chain(d, x, b, flushed) PROVE FALSE
      <4>1. Len(x) \in 1 .. Len(x) /\ x[Len(x)] = b
        BY <2>3, <3>1 DEF Chain
      <4> QED
        BY <2>3, <3>1, <4>1 DEF Chain
    <3> QED
      BY <2>1, <2>3, <3>1 DEF AreChains
  <2>4. CASE b # flushed /\ IsTxH(d, b)
    <3>1. d[b].prev \in Nat
      BY <2>4, TxHHas
    <3> DEFINE before == back[n - 1][d[b].prev]
    <3>2. AreChains(before, d, d[b].prev, flushed, n - 1)
      BY <1>4, <3>1
    <3> HIDE DEF before
    <3>3. back[n][b] = {Append(txs_, b) : txs_ \in before}
      BY <2>1, <2>4 DEF before
    <3>4. ASSUME NEW x \in back[n][b] PROVE Chain(d, x, b, flushed) /\ Len(x) =< n
      <4>1. PICK z \in before : x = Append(z, b)
        BY <3>3
      <4>2. Chain(d, z, d[b].prev, flushed) /\ Len(z) =< n - 1
        BY <3>2 DEF AreChains
      <4>3. z \in Seq(Blocks)
        BY <4>2 DEF Chain
      <4>4. Len(x) = Len(z) + 1
        BY <4>1, <4>3
      <4>5. Chain(d, x, b, flushed)
        BY <2>4, <4>1, <4>2, ChainAppend
      <4> QED
        BY <2>0, <4>2, <4>3, <4>4, <4>5
    <3>5. ASSUME NEW x, Chain(d, x, b, flushed), Len(x) =< n PROVE x \in back[n][b]
      <4>1. x \in Seq(Blocks) /\ Len(x) # 0 /\ x[Len(x)] = b
        BY <2>4, <3>5 DEF Chain
      <4> DEFINE k == Len(x)  z == SubSeq(x, 1, k - 1)
      <4>2. k \in 1 .. Len(x)
        BY <4>1
      <4>3. Chain(d, z, d[x[k]].prev, flushed)
        BY <3>5, <4>2, ChainPrefix
      <4>4. z \in Seq(Blocks) /\ Len(z) = k - 1 /\ \A i \in 1 .. k - 1 : z[i] = x[i]
        BY <4>1, <4>2, PrefixHas
      <4>5. Append(z, b) = x
        <5>1. b \in Blocks
          BY <2>4, TxHHas
        <5> HIDE DEF k, z
        <5>2. /\ Append(z, b) \in Seq(Blocks) /\ Len(Append(z, b)) = Len(z) + 1
              /\ \A i \in 1 .. Len(z) : Append(z, b)[i] = z[i]
              /\ Append(z, b)[Len(z) + 1] = b
          BY <4>4, <5>1
        <5>3. Len(z) + 1 = k /\ k \in Nat
          BY <4>1, <4>4 DEF k
        <5>4. \A i \in 1 .. k : i \in 1 .. k - 1 \/ i = k
          BY <5>3
        <5>5. \A i \in 1 .. k : Append(z, b)[i] = x[i]
          BY <4>1, <4>4, <5>2, <5>3, <5>4 DEF k
        <5>6. Len(x) = k
          BY DEF k
        <5> QED
          BY <4>1, <5>2, <5>3, <5>5, <5>6, SeqEqual
      <4>6. z \in before
        <5>1. Len(z) =< n - 1
          BY <2>0, <3>5, <4>1, <4>4
        <5>2. d[x[k]].prev = d[b].prev
          BY <4>1
        <5> HIDE DEF z, k
        <5> QED
          BY <3>2, <4>3, <5>1, <5>2 DEF AreChains
      <4> QED
        BY <3>3, <4>5, <4>6
    <3>6. ASSUME NEW x \in back[n][b], NEW y \in back[n][b] PROVE x = y
      <4>1. PICK z \in before : x = Append(z, b)
        BY <3>3
      <4>2. PICK w \in before : y = Append(w, b)
        BY <3>3
      <4>3. z = w
        BY <3>2 DEF AreChains
      <4> QED
        BY <4>1, <4>2, <4>3
    <3> QED
      BY <3>4, <3>5, <3>6 DEF AreChains
  <2> QED
    BY <2>2, <2>3, <2>4
<1>5. AreaLen \in Nat /\ AreaLen \in 0 .. AreaLen
  BY BlockNumbers
<1> HIDE DEF Right
<1>6. AreaLen \in Right
  BY <1>3, <1>4, <1>5, Climb
<1> QED
  BY <1>1, <1>6 DEF Right

-----------------------------------------------------------------------------
(* The log records of a transaction *)

Walks == [end : {"good", "eio", "broken", "never"}, blks : Seq(Nat)]

EndsAs(e, b)  == [end |-> e, blks |-> b]
Before(b, r)  == [r EXCEPT !.blks = <<b>> \o @]

(* A walk that begins one block earlier.                                    *)
LEMMA BeforeIs ==
  ASSUME NEW b \in Nat, NEW r \in Walks
  PROVE  /\ Before(b, r) \in Walks
         /\ Before(b, r) = EndsAs(r.end, <<b>> \o r.blks)
         /\ Before(b, r).end = r.end
         /\ Before(b, r).blks = <<b>> \o r.blks
<1>1. Before(b, r).end = r.end
  BY DEF Before, Walks
<1>2. Before(b, r).blks = <<b>> \o r.blks
  BY DEF Before, Walks
<1>3. <<b>> \o r.blks \in Seq(Nat)
  <2>1. <<b>> \in Seq(Nat) /\ r.blks \in Seq(Nat)
    BY DEF Walks
  <2> QED
    BY <2>1, ConcatProperties
<1>4. DOMAIN Before(b, r) = {"end", "blks"}
  BY DEF Before, Walks
<1>5. Before(b, r) = EndsAs(r.end, <<b>> \o r.blks)
  <2> DEFINE e == EndsAs(r.end, <<b>> \o r.blks)  f == Before(b, r)
  <2>1. f.end = e.end /\ f.blks = e.blks /\ DOMAIN f = {"end", "blks"} /\ DOMAIN e = {"end", "blks"}
    BY <1>1, <1>2, <1>4 DEF EndsAs
  <2>2. f = [x \in DOMAIN f |-> f[x]]
    BY DEF Before, Walks
  <2>3. e = [x \in DOMAIN e |-> e[x]]
    BY DEF EndsAs
  <2> HIDE DEF e, f
  <2>4. \A x \in {"end", "blks"} : f[x] = e[x]
    BY <2>1
  <2>5. f = e
    BY <2>1, <2>2, <2>3, <2>4
  <2> QED
    BY <2>5 DEF e, f
<1>6. Before(b, r) \in Walks
  BY <1>3, <1>5 DEF EndsAs, Walks
<1> QED
  BY <1>1, <1>2, <1>5, <1>6

\* from[n][b]: the walk of at most n records from b to the transaction t
FromSteps(from, d, t) ==
  \A n \in 0 .. AreaLen : \A b \in Nat :
    from[n][b] = IF b = t                THEN EndsAs("good", <<>>)
                 ELSE IF b \notin Blocks THEN EndsAs("eio", <<b>>)
                 ELSE IF ~IsLGR(d, b)    THEN EndsAs("broken", <<b>>)
                 ELSE IF n = 0           THEN EndsAs("never", <<b>>)
                 ELSE Before(b, from[n - 1][d[b].next])

FromRecursion(from, d, t) ==
  from = [steps \in 0 .. AreaLen |->
            [b \in Nat |->
               IF b = t                THEN [end |-> "good",   blks |-> <<>>]
               ELSE IF b \notin Blocks THEN [end |-> "eio",    blks |-> <<b>>]
               ELSE IF ~IsLGR(d, b)    THEN [end |-> "broken", blks |-> <<b>>]
               ELSE IF steps = 0       THEN [end |-> "never",  blks |-> <<b>>]
               ELSE [from[steps - 1][d[b].next] EXCEPT !.blks = <<b>> \o @]]]

(* The walk over the log records can be made.                               *)
LEMMA FromExists ==
  ASSUME NEW d \in Devices, NEW t \in Nat
  PROVE  \E from : FromRecursion(from, d, t)
<1> DEFINE X == [Nat -> Walks]
           Walk(x, n, b) == IF b = t                THEN EndsAs("good", <<>>)
                            ELSE IF b \notin Blocks THEN EndsAs("eio", <<b>>)
                            ELSE IF ~IsLGR(d, b)    THEN EndsAs("broken", <<b>>)
                            ELSE IF n = 0           THEN EndsAs("never", <<b>>)
                            ELSE Before(b, x[d[b].next])
           Step(x, n) == [b \in Nat |-> Walk(x, n, b)]
           G == [n \in 1 .. AreaLen |-> [x \in X |-> Step(x, n)]]
           x0 == [b \in Nat |-> EndsAs("good", <<>>)]
           a == Step(x0, 0)
<1>1. AreaLen \in Nat
  BY BlockNumbers
<1>2. ASSUME NEW x \in X, NEW n \in Nat, NEW b \in Nat PROVE Walk(x, n, b) \in Walks
  <2>1. EndsAs("good", <<>>) \in Walks
    BY EmptySeq DEF EndsAs, Walks
  <2>2. \A e \in {"eio", "broken", "never"} : EndsAs(e, <<b>>) \in Walks
    BY DEF EndsAs, Walks
  <2>3. ASSUME IsLGR(d, b) PROVE Before(b, x[d[b].next]) \in Walks
    <3>1. x[d[b].next] \in Walks
      BY <2>3, LGRHas
    <3> HIDE DEF X
    <3> QED
      BY <3>1, BeforeIs
  <2> QED
    BY <2>1, <2>2, <2>3
<1>3. ASSUME NEW x \in X, NEW n \in Nat PROVE Step(x, n) \in X
  <2> HIDE DEF Walk
  <2> QED
    BY <1>2
<1>4. x0 \in X
  BY EmptySeq DEF EndsAs, Walks
<1>5. a \in X
  <2> DEFINE z == 0
  <2>1. z \in Nat
    OBVIOUS
  <2> HIDE DEF x0, Step, z, X
  <2>2. Step(x0, z) \in X
    BY <1>3, <1>4, <2>1
  <2> QED
    BY <2>2 DEF z
<1> HIDE DEF x0, a, Step
<1>6. \A n \in 1 .. AreaLen : n \in Nat
  BY <1>1
<1>7. G \in [1 .. AreaLen -> [X -> X]]
  <2> HIDE DEF X
  <2> QED
    BY <1>3, <1>6
<1>8. \A n \in 1 .. AreaLen : \A x \in X : G[n][x] = Step(x, n)
  OBVIOUS
<1> HIDE DEF G, X
<1>9. PICK f : IsIterate(f, AreaLen, X, a, G)
  BY <1>1, <1>5, <1>7, Iterates
<1>10. f \in [0 .. AreaLen -> X] /\ f[0] = a /\ \A n \in 1 .. AreaLen : f[n] = G[n][f[n - 1]]
  BY <1>9 DEF IsIterate
<1>11. \A n \in 1 .. AreaLen : f[n] = Step(f[n - 1], n)
  <2>1. \A n \in 1 .. AreaLen : n - 1 \in 0 .. AreaLen
    BY <1>1
  <2>2. \A n \in 1 .. AreaLen : f[n - 1] \in X
    BY <1>10, <2>1
  <2> QED
    BY <1>8, <1>10, <2>2
<1> DEFINE e == [steps \in 0 .. AreaLen |-> [b \in Nat |-> Walk(f[steps - 1], steps, b)]]
<1>12. \A n \in 0 .. AreaLen : e[n] = f[n]
  <2> TAKE n \in 0 .. AreaLen
  <2>0. e[n] = [b \in Nat |-> Walk(f[n - 1], n, b)]
    <3> HIDE DEF Walk
    <3> QED
      OBVIOUS
  <2> HIDE DEF e
  <2>1. CASE n = 0
    <3>1. f[n] = a
      BY <1>10, <2>1
    <3>2. \A b \in Nat : Walk(f[n - 1], n, b) = Walk(x0, 0, b)
      BY <2>1
    <3>3. a = [b \in Nat |-> Walk(x0, 0, b)]
      BY Zenon DEF a, Step
    <3> HIDE DEF Walk
    <3> QED
      BY <2>0, <3>1, <3>2, <3>3
  <2>2. CASE n # 0
    <3>1. f[n] = Step(f[n - 1], n)
      BY <1>1, <1>11, <2>2
    <3>2. Step(f[n - 1], n) = [b \in Nat |-> Walk(f[n - 1], n, b)]
      BY Zenon DEF Step
    <3> HIDE DEF Walk
    <3> QED
      BY <2>0, <3>1, <3>2
  <2> QED
    BY <2>1, <2>2
<1>13. f = e
  <2>1. f = [n \in 0 .. AreaLen |-> f[n]]
    BY <1>10
  <2>2. e = [n \in 0 .. AreaLen |-> e[n]]
    OBVIOUS
  <2> HIDE DEF e
  <2> QED
    BY <1>12, <2>1, <2>2
<1>14. FromRecursion(f, d, t)
  BY <1>13, Zenon DEF FromRecursion, EndsAs, Before
<1> QED
  BY <1>14

(* ... and LogRecords() makes it.                                           *)
LEMMA FromIs ==
  ASSUME NEW d \in Devices, NEW t \in Nat
  PROVE  \E from : FromSteps(from, d, t) /\ LogRecords(d, t) = from[AreaLen][d[t].next]
<1> DEFINE c == CHOOSE from : FromRecursion(from, d, t)
<1>1. FromRecursion(c, d, t)
  BY FromExists
<1>2. LogRecords(d, t) = c[AreaLen][d[t].next]
  BY Zenon DEF LogRecords, FromRecursion
<1> HIDE DEF c
<1> DEFINE Walk(n, b) == IF b = t                THEN EndsAs("good", <<>>)
                         ELSE IF b \notin Blocks THEN EndsAs("eio", <<b>>)
                         ELSE IF ~IsLGR(d, b)    THEN EndsAs("broken", <<b>>)
                         ELSE IF n = 0           THEN EndsAs("never", <<b>>)
                         ELSE Before(b, c[n - 1][d[b].next])
<1>3. c = [n \in 0 .. AreaLen |-> [b \in Nat |-> Walk(n, b)]]
  BY <1>1, Zenon DEF FromRecursion, EndsAs, Before
<1>4. \A n \in 0 .. AreaLen : \A b \in Nat : c[n][b] = Walk(n, b)
  <2> DEFINE F(n) == [b \in Nat |-> Walk(n, b)]
  <2>1. \A n \in 0 .. AreaLen : c[n] = F(n)
    <3>1. c = [n \in 0 .. AreaLen |-> F(n)]
      BY <1>3
    <3> HIDE DEF F
    <3> QED
      BY <3>1
  <2>2. \A n \in 0 .. AreaLen : \A b \in Nat : F(n)[b] = Walk(n, b)
    <3> HIDE DEF Walk
    <3> QED
      OBVIOUS
  <2> HIDE DEF F, Walk
  <2> QED
    BY <2>1, <2>2
<1>5. FromSteps(c, d, t)
  BY <1>4, Zenon DEF FromSteps
<1> QED
  BY <1>2, <1>5

\* s is the log records from b on, which lead back to the transaction t.
Circle(d, t, b, s) ==
  /\ s \in Seq(Blocks)
  /\ \A k \in 1 .. Len(s) : IsLGR(d, s[k]) /\ s[k] # t
  /\ \A k \in 1 .. Len(s) : d[s[k]].next = IF k = Len(s) THEN t ELSE s[k + 1]
  /\ b = IF Len(s) = 0 THEN t ELSE s[1]

(* At the transaction there are no more records.                            *)
LEMMA CircleEmpty ==
  ASSUME NEW d, NEW t
  PROVE  Circle(d, t, t, <<>>)
<1>1. <<>> \in Seq(Blocks) /\ Len(<<>>) = 0
  BY EmptySeq
<1>2. 1 .. 0 = {}
  OBVIOUS
<1> QED
  BY <1>1, <1>2 DEF Circle

(* One more record.                                                         *)
LEMMA CircleCons ==
  ASSUME NEW d \in Devices, NEW t, NEW b, NEW s, IsLGR(d, b), b # t, Circle(d, t, d[b].next, s)
  PROVE  Circle(d, t, b, <<b>> \o s)
<1> DEFINE u == <<b>> \o s
<1>1. b \in Blocks /\ s \in Seq(Blocks) /\ Len(s) \in Nat
  BY LGRHas DEF Circle
<1>2. u \in Seq(Blocks) /\ Len(u) = Len(s) + 1 /\ u[1] = b /\ \A k \in 1 .. Len(s) : u[k + 1] = s[k]
  BY <1>1, ConsHas
<1> HIDE DEF u
<1>3. \A k \in 1 .. Len(u) : k = 1 \/ (k - 1 \in 1 .. Len(s) /\ k = (k - 1) + 1)
  BY <1>1, <1>2
<1>4. \A k \in 1 .. Len(u) : k # 1 => u[k] = s[k - 1]
  BY <1>2, <1>3
<1>5. ASSUME NEW k \in 1 .. Len(u) PROVE IsLGR(d, u[k]) /\ u[k] # t
  <2>1. CASE k = 1
    BY <1>2, <2>1
  <2>2. CASE k # 1
    <3>1. IsLGR(d, s[k - 1]) /\ s[k - 1] # t
      BY <1>3, <2>2 DEF Circle
    <3> QED
      BY <1>4, <2>2, <3>1
  <2> QED
    BY <2>1, <2>2
<1>6. ASSUME NEW k \in 1 .. Len(u) PROVE d[u[k]].next = IF k = Len(u) THEN t ELSE u[k + 1]
  <2>1. CASE k = 1
    <3>1. d[b].next = IF Len(s) = 0 THEN t ELSE s[1]
      BY DEF Circle
    <3>2. CASE Len(s) = 0
      BY <1>2, <2>1, <3>1, <3>2
    <3>3. CASE Len(s) # 0
      <4>1. k \in 1 .. Len(s) /\ k # Len(u)
        BY <1>1, <1>2, <2>1, <3>3
      <4>2. u[k + 1] = s[k]
        BY <1>2, <4>1
      <4> QED
        BY <1>2, <2>1, <3>1, <3>3, <4>1, <4>2
    <3> QED
      BY <3>2, <3>3
  <2>2. CASE k # 1
    <3>1. d[s[k - 1]].next = IF k - 1 = Len(s) THEN t ELSE s[(k - 1) + 1]
      BY <1>3, <2>2 DEF Circle
    <3>2. CASE k = Len(u)
      <4>1. k - 1 = Len(s)
        BY <1>1, <1>2, <3>2
      <4> QED
        BY <1>4, <2>2, <3>1, <3>2, <4>1
    <3>3. CASE k # Len(u)
      <4>1. k - 1 # Len(s) /\ k \in 1 .. Len(s) /\ (k - 1) + 1 = k
        BY <1>1, <1>2, <3>3
      <4>2. u[k + 1] = s[k]
        BY <1>2, <4>1
      <4> QED
        BY <1>4, <2>2, <3>1, <3>3, <4>1, <4>2
    <3> QED
      BY <3>2, <3>3
  <2> QED
    BY <2>1, <2>2
<1>7. b = IF Len(u) = 0 THEN t ELSE u[1]
  BY <1>1, <1>2
<1>8. Circle(d, t, b, u)
  BY <1>2, <1>5, <1>6, <1>7 DEF Circle
<1> QED
  BY <1>8 DEF u

\* b is the first record of s, and from the next one on they are Tail(s).
FirstRecord(d, t, b, s) ==
  /\ b = s[1] /\ IsLGR(d, b) /\ b # t
  /\ Circle(d, t, d[b].next, Tail(s))
  /\ s = <<b>> \o Tail(s)
  /\ Len(s) \in Nat /\ Len(Tail(s)) = Len(s) - 1

(* One record less.                                                         *)
LEMMA CircleTail ==
  ASSUME NEW d \in Devices, NEW t, NEW b, NEW s, Circle(d, t, b, s), Len(s) # 0
  PROVE  FirstRecord(d, t, b, s)
<1> DEFINE u == Tail(s)
<1>1. s \in Seq(Blocks) /\ Len(s) \in Nat /\ s # <<>>
  BY EmptySeq DEF Circle
<1>2. u \in Seq(Blocks) /\ Len(u) = Len(s) - 1 /\ \A i \in 1 .. Len(u) : u[i] = s[i + 1]
  BY <1>1, HeadTailProperties
<1>3. s = <<s[1]>> \o u
  BY <1>1, ConsOf
<1> HIDE DEF u
<1>4. 1 \in 1 .. Len(s)
  BY <1>1
<1>5. b = s[1] /\ IsLGR(d, b) /\ b # t
  BY <1>4 DEF Circle
<1>6. \A i \in 1 .. Len(u) : i + 1 \in 1 .. Len(s) /\ (i + 1 = Len(s) <=> i = Len(u)) /\ (i # Len(u) => i + 1 \in 1 .. Len(u))
  BY <1>1, <1>2
<1>7. \A i \in 1 .. Len(u) : IsLGR(d, u[i]) /\ u[i] # t
  BY <1>2, <1>6 DEF Circle
<1>8. ASSUME NEW i \in 1 .. Len(u) PROVE d[u[i]].next = IF i = Len(u) THEN t ELSE u[i + 1]
  <2>1. d[s[i + 1]].next = IF i + 1 = Len(s) THEN t ELSE s[(i + 1) + 1]
    BY <1>6 DEF Circle
  <2>2. CASE i = Len(u)
    BY <1>2, <1>6, <2>1, <2>2
  <2>3. CASE i # Len(u)
    <3>1. u[i + 1] = s[(i + 1) + 1]
      BY <1>2, <1>6, <2>3
    <3> QED
      BY <1>2, <1>6, <2>1, <2>3, <3>1
  <2> QED
    BY <2>2, <2>3
<1>9. d[b].next = IF Len(u) = 0 THEN t ELSE u[1]
  <2>1. d[s[1]].next = IF 1 = Len(s) THEN t ELSE s[1 + 1]
    BY <1>4 DEF Circle
  <2>2. CASE Len(u) = 0
    BY <1>1, <1>2, <1>5, <2>1, <2>2
  <2>3. CASE Len(u) # 0
    <3>1. 1 \in 1 .. Len(u) /\ 1 # Len(s)
      BY <1>1, <1>2, <2>3
    <3> QED
      BY <1>2, <1>5, <2>1, <2>3, <3>1
  <2> QED
    BY <2>2, <2>3
<1>10. Circle(d, t, d[b].next, u)
  BY <1>2, <1>7, <1>8, <1>9 DEF Circle
<1> QED
  BY <1>1, <1>2, <1>3, <1>5, <1>10 DEF FirstRecord, u

\* What a walk of at most n records from b says is so.
WalkIs(d, t, b, n, r) ==
  /\ r \in Walks
  /\ r.end = "good" => Circle(d, t, b, r.blks) /\ Len(r.blks) =< n
  /\ r.end = "never" => Len(r.blks) = n + 1 /\ \A k \in 1 .. n + 1 : IsLGR(d, r.blks[k])
  /\ r.end \in {"eio", "broken"} => Len(r.blks) # 0 /\ ~IsLGR(d, r.blks[Len(r.blks)])
  /\ \A s : Circle(d, t, b, s) /\ Len(s) =< n => r = EndsAs("good", s)

(* The walk over the log records says what is so.                           *)
LEMMA LogRecordsAre ==
  ASSUME NEW d \in Devices, NEW t, IsTxH(d, t)
  PROVE  WalkIs(d, t, d[t].next, AreaLen, LogRecords(d, t))
<1>1. t \in Nat /\ d[t].next \in Nat
  BY TxHHas
<1>2. PICK from : FromSteps(from, d, t) /\ LogRecords(d, t) = from[AreaLen][d[t].next]
  BY <1>1, FromIs
<1> DEFINE Right == {n \in Nat : \A b \in Nat : WalkIs(d, t, b, n, from[n][b])}
<1>3. ASSUME NEW n \in 0 .. AreaLen, NEW b \in Nat, b = t \/ ~IsLGR(d, b)
      PROVE  WalkIs(d, t, b, n, from[n][b])
  <2>1. from[n][b] = IF b = t THEN EndsAs("good", <<>>)
                     ELSE IF b \notin Blocks THEN EndsAs("eio", <<b>>) ELSE EndsAs("broken", <<b>>)
    BY <1>2, <1>3 DEF FromSteps
  <2>2. CASE b = t
    <3>1. Circle(d, t, b, <<>>) /\ EndsAs("good", <<>>) \in Walks
      BY <2>2, CircleEmpty, EmptySeq DEF EndsAs, Walks
    <3>2. ASSUME NEW s, Circle(d, t, b, s) PROVE s = <<>>
      <4>1. Len(s) # 0 => 1 \in 1 .. Len(s) /\ s[1] = b
        BY <3>2 DEF Circle
      <4>2. Len(s) = 0 /\ s \in Seq(Blocks)
        BY <2>2, <3>2, <4>1 DEF Circle
      <4> QED
        BY <4>2, EmptySeq
    <3>3. from[n][b] = EndsAs("good", <<>>)
      BY <2>1, <2>2
    <3>4. EndsAs("good", <<>>).end = "good" /\ EndsAs("good", <<>>).blks = <<>>
      BY DEF EndsAs
    <3>5. Len(<<>>) =< n
      BY BlockNumbers
    <3> QED
      BY <3>1, <3>2, <3>3, <3>4, <3>5 DEF WalkIs
  <2>3. CASE b # t /\ ~IsLGR(d, b)
    <3>1. PICK e \in {"eio", "broken"} : from[n][b] = EndsAs(e, <<b>>)
      BY <2>1, <2>3
    <3>2. EndsAs(e, <<b>>) \in Walks /\ EndsAs(e, <<b>>).end = e /\ EndsAs(e, <<b>>).blks = <<b>>
      BY DEF EndsAs, Walks
    <3>3. Len(<<b>>) # 0 /\ <<b>>[Len(<<b>>)] = b
      OBVIOUS
    <3>4. ASSUME NEW s, Circle(d, t, b, s) PROVE FALSE
      <4>1. Len(s) # 0 => 1 \in 1 .. Len(s) /\ s[1] = b
        BY <3>4 DEF Circle
      <4> QED
        BY <2>3, <3>4, <4>1 DEF Circle
    <3> QED
      BY <2>3, <3>1, <3>2, <3>3, <3>4 DEF WalkIs
  <2> QED
    BY <1>3, <2>2, <2>3
<1>4. 0 \in Right
  <2> SUFFICES ASSUME NEW b \in Nat PROVE WalkIs(d, t, b, 0, from[0][b])
    OBVIOUS
  <2>0. 0 \in 0 .. AreaLen
    BY BlockNumbers
  <2>1. CASE b = t \/ ~IsLGR(d, b)
    BY <1>3, <2>0, <2>1
  <2>2. CASE b # t /\ IsLGR(d, b)
    <3>1. b \in Blocks
      BY <2>2, LGRHas
    <3>2. from[0][b] = EndsAs("never", <<b>>)
      BY <1>2, <2>0, <2>2, <3>1 DEF FromSteps
    <3>3. /\ EndsAs("never", <<b>>) \in Walks
          /\ EndsAs("never", <<b>>).end = "never" /\ EndsAs("never", <<b>>).blks = <<b>>
      BY DEF EndsAs, Walks
    <3>4. Len(<<b>>) = 0 + 1 /\ \A k \in 1 .. 0 + 1 : <<b>>[k] = b
      OBVIOUS
    <3>5. ASSUME NEW s, Circle(d, t, b, s), Len(s) =< 0 PROVE FALSE
      <4>1. Len(s) = 0
        BY <3>5 DEF Circle
      <4> QED
        BY <2>2, <3>5, <4>1 DEF Circle
    <3> QED
      BY <2>2, <3>2, <3>3, <3>4, <3>5 DEF WalkIs
  <2> QED
    BY <2>1, <2>2
<1>5. ASSUME NEW n \in 1 .. AreaLen, n - 1 \in Right PROVE n \in Right
  <2>0. n \in 0 .. AreaLen /\ n # 0 /\ n \in Nat
    BY BlockNumbers
  <2> SUFFICES ASSUME NEW b \in Nat PROVE WalkIs(d, t, b, n, from[n][b])
    BY <2>0
  <2>1. CASE b = t \/ ~IsLGR(d, b)
    BY <1>3, <2>0, <2>1
  <2>2. CASE b # t /\ IsLGR(d, b)
    <3>1. b \in Blocks /\ d[b].next \in Nat
      BY <2>2, LGRHas
    <3> DEFINE r == from[n - 1][d[b].next]  q == r.blks
    <3>2. WalkIs(d, t, d[b].next, n - 1, r)
      BY <1>5, <3>1
    <3>3. from[n][b] = Before(b, r)
      BY <1>2, <2>0, <2>2, <3>1 DEF FromSteps
    <3> HIDE DEF r
    <3>4. r \in Walks /\ q \in Seq(Nat) /\ Len(q) \in Nat
      BY <3>2 DEF WalkIs, Walks
    <3>5. /\ Before(b, r) \in Walks
          /\ Before(b, r).end = r.end /\ Before(b, r).blks = <<b>> \o q
          /\ Before(b, r) = EndsAs(r.end, <<b>> \o q)
      BY <3>4, BeforeIs
    <3>6. /\ Len(<<b>> \o q) = Len(q) + 1 /\ (<<b>> \o q)[1] = b
          /\ \A k \in 1 .. Len(q) : (<<b>> \o q)[k + 1] = q[k]
      BY <3>4, ConsHas
    <3>7. r.end = "good" => Circle(d, t, b, <<b>> \o q) /\ Len(<<b>> \o q) =< n
      <4> SUFFICES ASSUME r.end = "good" PROVE Circle(d, t, b, <<b>> \o q) /\ Len(<<b>> \o q) =< n
        OBVIOUS
      <4>1. Circle(d, t, d[b].next, q) /\ Len(q) =< n - 1
        BY <3>2 DEF WalkIs
      <4>2. Len(q) + 1 =< n
        BY <2>0, <3>4, <4>1
      <4>3. Circle(d, t, b, <<b>> \o q)
        BY <2>2, <4>1, CircleCons
      <4> QED
        BY <3>6, <4>2, <4>3
    <3>8. r.end = "never" => Len(<<b>> \o q) = n + 1 /\ \A k \in 1 .. n + 1 : IsLGR(d, (<<b>> \o q)[k])
      <4> SUFFICES ASSUME r.end = "never" PROVE Len(<<b>> \o q) = n + 1 /\ \A k \in 1 .. n + 1 : IsLGR(d, (<<b>> \o q)[k])
        OBVIOUS
      <4>1. Len(q) = (n - 1) + 1 /\ \A k \in 1 .. (n - 1) + 1 : IsLGR(d, q[k])
        BY <3>2 DEF WalkIs
      <4>2. (n - 1) + 1 = n
        BY <2>0
      <4>3. \A k \in 1 .. n + 1 : k = 1 \/ (k - 1 \in 1 .. n /\ (k - 1) + 1 = k)
        BY <2>0
      <4>4. \A k \in 1 .. n + 1 : k # 1 => (<<b>> \o q)[k] = q[k - 1]
        BY <3>6, <4>1, <4>2, <4>3
      <4> QED
        BY <2>2, <3>6, <4>1, <4>2, <4>3, <4>4
    <3>9. r.end \in {"eio", "broken"} => Len(<<b>> \o q) # 0 /\ ~IsLGR(d, (<<b>> \o q)[Len(<<b>> \o q)])
      <4> SUFFICES ASSUME r.end \in {"eio", "broken"} PROVE Len(q) + 1 # 0 /\ ~IsLGR(d, (<<b>> \o q)[Len(q) + 1])
        BY <3>6
      <4>1. Len(q) # 0 /\ ~IsLGR(d, q[Len(q)])
        BY <3>2 DEF WalkIs
      <4>2. Len(q) \in 1 .. Len(q)
        BY <3>4, <4>1
      <4> QED
        BY <3>4, <3>6, <4>1, <4>2
    <3>10. ASSUME NEW s, Circle(d, t, b, s), Len(s) =< n PROVE Before(b, r) = EndsAs("good", s)
      <4>1. Len(s) # 0
        BY <2>2, <3>10 DEF Circle
      <4>2. FirstRecord(d, t, b, s)
        BY <3>10, <4>1, CircleTail
      <4>3. Len(Tail(s)) =< n - 1
        BY <2>0, <3>10, <4>2 DEF FirstRecord
      <4>4. r = EndsAs("good", Tail(s))
        BY <3>2, <4>2, <4>3 DEF WalkIs, FirstRecord
      <4>5. r.end = "good" /\ q = Tail(s)
        BY <4>4 DEF EndsAs
      <4> QED
        BY <3>5, <4>2, <4>5 DEF FirstRecord
    <3> HIDE DEF q
    <3> QED
      BY <3>3, <3>5, <3>7, <3>8, <3>9, <3>10 DEF WalkIs
  <2> QED
    BY <2>1, <2>2
<1>6. AreaLen \in Nat /\ AreaLen \in 0 .. AreaLen
  BY BlockNumbers
<1> HIDE DEF Right
<1>7. AreaLen \in Right
  BY <1>4, <1>5, <1>6, Climb
<1> QED
  BY <1>1, <1>2, <1>7 DEF Right

(* More records than there are blocks: one comes twice.                     *)
LEMMA RecordsRepeat ==
  ASSUME NEW s \in Seq(Nat), Len(s) = AreaLen + 1, \A k \in 1 .. AreaLen + 1 : s[k] \in Blocks
  PROVE  \E i, j \in 1 .. Len(s) : i < j /\ s[i] = s[j]
<1>1. AreaLen \in Nat
  BY BlockNumbers
<1> DEFINE S == 1 .. AreaLen + 1  T == Blocks
<1>2. IsFiniteSet(S) /\ Cardinality(S) = AreaLen + 1
  BY <1>1, FS_Interval
<1>3. IsFiniteSet(T) /\ Cardinality(T) = AreaLen
  <2> DEFINE a == 0  b == AreaLen - 1
  <2>1. a \in Int /\ b \in Int
    BY <1>1
  <2> HIDE DEF a, b
  <2>2. IsFiniteSet(a .. b) /\ Cardinality(a .. b) = IF a > b THEN 0 ELSE b - a + 1
    BY <2>1, FS_Interval
  <2> QED
    BY <1>1, <2>2 DEF a, b, Blocks
<1>4. s \in [S -> T]
  BY LenProperties
<1>5. Cardinality(T) < Cardinality(S)
  BY <1>1, <1>2, <1>3
<1> HIDE DEF S, T
<1>6. PICK x, y \in S : x # y /\ s[x] = s[y]
  BY <1>2, <1>3, <1>4, <1>5, FS_PigeonHole
<1>7. x \in 1 .. Len(s) /\ y \in 1 .. Len(s) /\ (x < y \/ y < x)
  BY <1>1, <1>6 DEF S
<1> QED
  BY <1>6, <1>7

-----------------------------------------------------------------------------
(* What the traversal comes to *)

VisitRecs == [tx : Nat, blk : Nat, type : {"LGR", "WAN", "ORG"}]

Txs(d) == {t \in Blocks : IsTxH(d, t)}

PairPieces(t)      == [p \in Pairs |-> PairVisits(t, p)]
RecordPieces(d, t) == [l \in Nat |-> RecordVisits(d, t, l)]
TransPieces(d)     == [t \in Txs(d) |-> TransVisits(d, t)]
EntryPieces(d)     == [l \in Nat |-> Entries(d, l)]
PairsPieces(d)     == [t \in Txs(d) |-> PairsIn(d, LogRecords(d, t).blks)]

(* The transactions are blocks.                                             *)
LEMMA TxsNat ==
  ASSUME NEW d
  PROVE  Txs(d) \in SUBSET Nat
BY BlockNumbers DEF Txs

(* The pairs of a log record are pairs.                                     *)
LEMMA EntriesAre ==
  ASSUME NEW d \in Devices, NEW l
  PROVE  Entries(d, l) \in Seq(Pairs)
<1>1. CASE ~IsLGR(d, l)
  BY <1>1, EmptySeq DEF Entries
<1>2. CASE IsLGR(d, l)
  <2> DEFINE e == d[l].entries
  <2>1. e \in Seq(Pairs) /\ Len(e) \in Nat /\ DOMAIN e = 1 .. Len(e)
    BY <1>2, LGRHas, LenProperties
  <2> HIDE DEF e
  <2> DEFINE n == Cardinality(Used(e))
  <2>2. n \in Nat /\ n =< Len(e)
    <3> DEFINE S == 1 .. Len(e)
    <3>1. Used(e) \in SUBSET S
      BY <2>1 DEF Used
    <3>2. IsFiniteSet(S) /\ Cardinality(S) = Len(e)
      BY <2>1, FS_Interval, SMTT(30)
    <3> HIDE DEF S
    <3>3. IsFiniteSet(Used(e)) /\ Cardinality(Used(e)) =< Len(e)
      BY <3>1, <3>2, FS_Subset
    <3> QED
      BY <3>3, FS_CardinalityType
  <2> HIDE DEF n
  <2>3. SubSeq(e, 1, n) \in Seq(Pairs)
    <3> DEFINE a == 1
    <3>1. a \in Int /\ n \in Int /\ \A i \in a .. n : e[i] \in Pairs
      BY <2>1, <2>2, ElementOfSeq
    <3> HIDE DEF a
    <3>2. SubSeq(e, a, n) \in Seq(Pairs)
      BY <3>1, SubSeqProperties
    <3> QED
      BY <3>2 DEF a
  <2> QED
    BY <1>2, <2>3 DEF Entries, e, n
<1> QED
  BY <1>1, <1>2

(* The visits of the pairs of a transaction, pair by pair.                  *)
LEMMA PairsVisitsAre ==
  ASSUME NEW t \in Nat, NEW ps \in Seq(Pairs)
  PROVE  /\ PairPieces(t) \in [Pairs -> Seq(VisitRecs)]
         /\ PairsVisits(t, ps) = FlatMap(PairPieces(t), ps)
         /\ PairsVisits(t, ps) \in Seq(VisitRecs)
<1>1. \A p \in Pairs : PairVisits(t, p) \in Seq(VisitRecs)
  BY DEF PairVisits, Visit, VisitRecs, Pairs
<1>2. PairPieces(t) \in [Pairs -> Seq(VisitRecs)]
  BY <1>1 DEF PairPieces
<1>3. \A k \in DOMAIN ps : PairPieces(t)[ps[k]] = PairVisits(t, ps[k])
  <2>1. \A k \in DOMAIN ps : ps[k] \in Pairs
    BY LenProperties, ElementOfSeq
  <2> QED
    BY <2>1 DEF PairPieces
<1>4. [k \in DOMAIN ps |-> PairVisits(t, ps[k])] = [k \in DOMAIN ps |-> PairPieces(t)[ps[k]]]
  BY <1>3
<1>5. PairsVisits(t, ps) = FlatMap(PairPieces(t), ps)
  BY <1>4, Zenon DEF PairsVisits, FlatMap
<1>6. FlatMap(PairPieces(t), ps) \in Seq(VisitRecs)
  BY <1>2, FlatMapType
<1> QED
  BY <1>2, <1>5, <1>6

(* The visits of the log records of a transaction, record by record.        *)
LEMMA RecordsVisitsAre ==
  ASSUME NEW d \in Devices, NEW t \in Nat, NEW s \in Seq(Nat)
  PROVE  /\ RecordPieces(d, t) \in [Nat -> Seq(VisitRecs)]
         /\ RecordsVisits(d, t, s) = FlatMap(RecordPieces(d, t), s)
         /\ RecordsVisits(d, t, s) \in Seq(VisitRecs)
<1>1. ASSUME NEW l \in Nat PROVE RecordVisits(d, t, l) \in Seq(VisitRecs)
  <2>1. Entries(d, l) \in Seq(Pairs)
    BY EntriesAre
  <2>2. PairsVisits(t, Entries(d, l)) \in Seq(VisitRecs)
    BY <2>1, PairsVisitsAre
  <2>3. Visit(t, l, "LGR") \in VisitRecs
    BY DEF Visit, VisitRecs
  <2> QED
    BY <2>2, <2>3, ConsHas DEF RecordVisits
<1>2. RecordPieces(d, t) \in [Nat -> Seq(VisitRecs)]
  BY <1>1 DEF RecordPieces
<1>3. \A k \in DOMAIN s : RecordPieces(d, t)[s[k]] = RecordVisits(d, t, s[k])
  <2>1. \A k \in DOMAIN s : s[k] \in Nat
    BY LenProperties, ElementOfSeq
  <2> QED
    BY <2>1 DEF RecordPieces
<1>4. [k \in DOMAIN s |-> RecordVisits(d, t, s[k])] = [k \in DOMAIN s |-> RecordPieces(d, t)[s[k]]]
  BY <1>3
<1>5. RecordsVisits(d, t, s) = FlatMap(RecordPieces(d, t), s)
  BY <1>4, Zenon DEF RecordsVisits, FlatMap
<1>6. FlatMap(RecordPieces(d, t), s) \in Seq(VisitRecs)
  BY <1>2, FlatMapType
<1> QED
  BY <1>2, <1>5, <1>6

(* The log records of a transaction are numbers.                            *)
LEMMA RecordBlocks ==
  ASSUME NEW d \in Devices, NEW t, IsTxH(d, t)
  PROVE  LogRecords(d, t).blks \in Seq(Nat)
BY LogRecordsAre DEF WalkIs, Walks

(* The visits of the transactions, one by one.                              *)
LEMMA VisitsAre ==
  ASSUME NEW d \in Devices, NEW list \in Seq(Txs(d))
  PROVE  /\ TransPieces(d) \in [Txs(d) -> Seq(VisitRecs)]
         /\ Visits(d, list) = FlatMap(TransPieces(d), list)
         /\ Visits(d, list) \in Seq(VisitRecs)
<1>1. ASSUME NEW t \in Txs(d) PROVE TransVisits(d, t) \in Seq(VisitRecs)
  <2>1. t \in Nat /\ IsTxH(d, t)
    BY TxsNat DEF Txs
  <2>2. LogRecords(d, t).blks \in Seq(Nat)
    BY <2>1, RecordBlocks
  <2> QED
    BY <2>1, <2>2, RecordsVisitsAre DEF TransVisits
<1>2. TransPieces(d) \in [Txs(d) -> Seq(VisitRecs)]
  BY <1>1 DEF TransPieces
<1>3. \A k \in DOMAIN list : TransPieces(d)[list[k]] = TransVisits(d, list[k])
  <2>1. \A k \in DOMAIN list : list[k] \in Txs(d)
    BY LenProperties, ElementOfSeq
  <2> QED
    BY <2>1 DEF TransPieces
<1>4. [k \in DOMAIN list |-> TransVisits(d, list[k])] = [k \in DOMAIN list |-> TransPieces(d)[list[k]]]
  BY <1>3
<1>5. Visits(d, list) = FlatMap(TransPieces(d), list)
  BY <1>4, Zenon DEF Visits, FlatMap
<1>6. FlatMap(TransPieces(d), list) \in Seq(VisitRecs)
  BY <1>2, FlatMapType
<1> QED
  BY <1>2, <1>5, <1>6

(* The pairs of log records, record by record.                              *)
LEMMA PairsInAre ==
  ASSUME NEW d \in Devices, NEW s \in Seq(Nat)
  PROVE  /\ EntryPieces(d) \in [Nat -> Seq(Pairs)]
         /\ PairsIn(d, s) = FlatMap(EntryPieces(d), s)
         /\ PairsIn(d, s) \in Seq(Pairs)
<1>1. EntryPieces(d) \in [Nat -> Seq(Pairs)]
  BY EntriesAre DEF EntryPieces
<1>2. \A k \in DOMAIN s : EntryPieces(d)[s[k]] = Entries(d, s[k])
  <2>1. \A k \in DOMAIN s : s[k] \in Nat
    BY LenProperties, ElementOfSeq
  <2> QED
    BY <2>1 DEF EntryPieces
<1>3. [k \in DOMAIN s |-> Entries(d, s[k])] = [k \in DOMAIN s |-> EntryPieces(d)[s[k]]]
  BY <1>2
<1>4. PairsIn(d, s) = FlatMap(EntryPieces(d), s)
  BY <1>3, Zenon DEF PairsIn, FlatMap
<1>5. FlatMap(EntryPieces(d), s) \in Seq(Pairs)
  BY <1>1, FlatMapType
<1> QED
  BY <1>1, <1>4, <1>5

(* The pairs of transactions, one by one.                                   *)
LEMMA AllPairsAre ==
  ASSUME NEW d \in Devices, NEW list \in Seq(Txs(d))
  PROVE  /\ PairsPieces(d) \in [Txs(d) -> Seq(Pairs)]
         /\ AllPairs(d, list) = FlatMap(PairsPieces(d), list)
         /\ AllPairs(d, list) \in Seq(Pairs)
<1>1. ASSUME NEW t \in Txs(d) PROVE PairsIn(d, LogRecords(d, t).blks) \in Seq(Pairs)
  <2>1. LogRecords(d, t).blks \in Seq(Nat)
    BY RecordBlocks DEF Txs
  <2> QED
    BY <2>1, PairsInAre
<1>2. PairsPieces(d) \in [Txs(d) -> Seq(Pairs)]
  BY <1>1 DEF PairsPieces
<1>3. \A k \in DOMAIN list : PairsPieces(d)[list[k]] = PairsIn(d, LogRecords(d, list[k]).blks)
  <2>1. \A k \in DOMAIN list : list[k] \in Txs(d)
    BY LenProperties, ElementOfSeq
  <2> QED
    BY <2>1 DEF PairsPieces
<1>4. [k \in DOMAIN list |-> PairsIn(d, LogRecords(d, list[k]).blks)] = [k \in DOMAIN list |-> PairsPieces(d)[list[k]]]
  BY <1>3
<1>5. AllPairs(d, list) = FlatMap(PairsPieces(d), list)
  BY <1>4, Zenon DEF AllPairs, FlatMap
<1>6. FlatMap(PairsPieces(d), list) \in Seq(Pairs)
  BY <1>2, FlatMapType
<1> QED
  BY <1>2, <1>5, <1>6

\* y is a visit of one of the pairs ps of the transaction t.
PairVisitOf(y, t, ps) ==
  \E p \in ToSet(ps) : y = Visit(t, p.wandered, "WAN") \/ y = Visit(t, p.original, "ORG")

\* y is a visit of one of the log records s of the transaction t.
RecordVisitOf(d, y, t, s) ==
  \E k \in 1 .. Len(s) : y = Visit(t, s[k], "LGR") \/ PairVisitOf(y, t, Entries(d, s[k]))

(* The elements of a sequence.                                              *)
LEMMA ElementsOf ==
  ASSUME NEW S, NEW s \in Seq(S), NEW y
  PROVE  /\ y \in ToSet(s) <=> \E k \in 1 .. Len(s) : y = s[k]
         /\ y \in ToSet(s) => y \in S
BY LenProperties, ElementOfSeq DEF ToSet

(* What is visited for pairs.                                               *)
LEMMA PairsVisitsHave ==
  ASSUME NEW t \in Nat, NEW ps \in Seq(Pairs), NEW y
  PROVE  y \in ToSet(PairsVisits(t, ps)) <=> PairVisitOf(y, t, ps)
<1> DEFINE g == PairPieces(t)
<1>1. g \in [Pairs -> Seq(VisitRecs)] /\ PairsVisits(t, ps) = FlatMap(g, ps)
  BY PairsVisitsAre
<1>2. \A k \in 1 .. Len(ps) : ps[k] \in Pairs /\ g[ps[k]] = PairVisits(t, ps[k])
  BY ElementOfSeq DEF PairPieces
<1>3. \A p : ToSet(PairVisits(t, p)) = {Visit(t, p.wandered, "WAN"), Visit(t, p.original, "ORG")}
  BY DEF PairVisits, ToSet
<1> HIDE DEF g
<1>4. y \in ToSet(FlatMap(g, ps)) <=> \E k \in 1 .. Len(ps) : y \in ToSet(g[ps[k]])
  BY <1>1, FlatMapElements
<1>5. \A p : p \in ToSet(ps) <=> \E k \in 1 .. Len(ps) : p = ps[k]
  BY ElementsOf
<1> QED
  <2>1. PairVisitOf(y, t, ps) <=>
          \E k \in 1 .. Len(ps) : y = Visit(t, ps[k].wandered, "WAN") \/ y = Visit(t, ps[k].original, "ORG")
    BY <1>5, Zenon DEF PairVisitOf
  <2>2. \A k \in 1 .. Len(ps) :
          y \in ToSet(g[ps[k]]) <=> y = Visit(t, ps[k].wandered, "WAN") \/ y = Visit(t, ps[k].original, "ORG")
    BY <1>2, <1>3
  <2> QED
    BY <1>1, <1>4, <2>1, <2>2, Zenon

(* What is visited for log records.                                         *)
LEMMA RecordsVisitsHave ==
  ASSUME NEW d \in Devices, NEW t \in Nat, NEW s \in Seq(Nat), NEW y
  PROVE  y \in ToSet(RecordsVisits(d, t, s)) <=> RecordVisitOf(d, y, t, s)
<1> DEFINE g == RecordPieces(d, t)
<1>1. g \in [Nat -> Seq(VisitRecs)] /\ RecordsVisits(d, t, s) = FlatMap(g, s)
  BY RecordsVisitsAre
<1>2. \A k \in 1 .. Len(s) : s[k] \in Nat /\ g[s[k]] = RecordVisits(d, t, s[k])
  BY ElementOfSeq DEF RecordPieces
<1>3. ASSUME NEW l \in Nat
      PROVE  y \in ToSet(RecordVisits(d, t, l)) <=> y = Visit(t, l, "LGR") \/ PairVisitOf(y, t, Entries(d, l))
  <2> DEFINE a == Visit(t, l, "LGR")  q == PairsVisits(t, Entries(d, l))
  <2>1. Entries(d, l) \in Seq(Pairs)
    BY EntriesAre
  <2>2. q \in Seq(VisitRecs) /\ (y \in ToSet(q) <=> PairVisitOf(y, t, Entries(d, l)))
    BY <2>1, PairsVisitsAre, PairsVisitsHave
  <2>3. a \in VisitRecs
    BY DEF Visit, VisitRecs
  <2> HIDE DEF a, q
  <2>4. <<a>> \in Seq(VisitRecs) /\ (y \in ToSet(<<a>>) <=> y = a)
    BY <2>3 DEF ToSet
  <2>5. y \in ToSet(<<a>> \o q) <=> y \in ToSet(<<a>>) \/ y \in ToSet(q)
    BY <2>2, <2>4, ConcatElements
  <2> QED
    BY <2>2, <2>4, <2>5 DEF a, q, RecordVisits
<1> HIDE DEF g
<1>4. y \in ToSet(FlatMap(g, s)) <=> \E k \in 1 .. Len(s) : y \in ToSet(g[s[k]])
  BY <1>1, FlatMapElements
<1> QED
  BY <1>1, <1>2, <1>3, <1>4 DEF RecordVisitOf

(* What is visited for transactions.                                        *)
LEMMA VisitsHave ==
  ASSUME NEW d \in Devices, NEW list \in Seq(Txs(d)), NEW y
  PROVE  y \in ToSet(Visits(d, list)) <=>
           \E k \in 1 .. Len(list) : RecordVisitOf(d, y, list[k], LogRecords(d, list[k]).blks)
<1> DEFINE g == TransPieces(d)
<1>1. g \in [Txs(d) -> Seq(VisitRecs)] /\ Visits(d, list) = FlatMap(g, list)
  BY VisitsAre
<1>2. \A k \in 1 .. Len(list) : list[k] \in Txs(d) /\ g[list[k]] = TransVisits(d, list[k])
  BY ElementOfSeq DEF TransPieces
<1>3. ASSUME NEW t \in Txs(d)
      PROVE  y \in ToSet(TransVisits(d, t)) <=> RecordVisitOf(d, y, t, LogRecords(d, t).blks)
  <2>1. t \in Nat /\ LogRecords(d, t).blks \in Seq(Nat)
    BY TxsNat, RecordBlocks DEF Txs
  <2> QED
    BY <2>1, RecordsVisitsHave DEF TransVisits
<1> HIDE DEF g
<1>4. y \in ToSet(FlatMap(g, list)) <=> \E k \in 1 .. Len(list) : y \in ToSet(g[list[k]])
  BY <1>1, FlatMapElements
<1> QED
  BY <1>1, <1>2, <1>3, <1>4

(* A visit is of the transaction it is for.                                 *)
LEMMA RecordVisitTx ==
  ASSUME NEW d, NEW y, NEW t, NEW s, RecordVisitOf(d, y, t, s)
  PROVE  y.tx = t
BY DEF RecordVisitOf, PairVisitOf, Visit

(* Visits are for the transactions of the list.                             *)
LEMMA VisitsTx ==
  ASSUME NEW d \in Devices, NEW list \in Seq(Txs(d)), NEW i \in 1 .. Len(Visits(d, list))
  PROVE  /\ Visits(d, list)[i] \in VisitRecs
         /\ \E k \in 1 .. Len(list) : Visits(d, list)[i].tx = list[k]
<1> DEFINE v == Visits(d, list)
<1>1. v \in Seq(VisitRecs)
  BY VisitsAre
<1> HIDE DEF v
<1>2. i \in 1 .. Len(v)
  BY DEF v
<1>3. v[i] \in ToSet(v) /\ v[i] \in VisitRecs
  BY <1>1, <1>2, ElementsOf, ElementOfSeq
<1>4. \E k \in 1 .. Len(list) : RecordVisitOf(d, v[i], list[k], LogRecords(d, list[k]).blks)
  BY <1>3, VisitsHave DEF v
<1>5. \E k \in 1 .. Len(list) : v[i].tx = list[k]
  BY <1>4, RecordVisitTx
<1> QED
  BY <1>3, <1>5 DEF v

-----------------------------------------------------------------------------
(* The check of a visit *)

\* what it takes that cb_journal_sec_check() finds nothing wrong
FineVisit(d, txs_, v, i) ==
  /\ ~Illegal(v[i].blk, v[i].type)
  /\ v[i].type = "LGR" => IsLGR(d, v[i].blk)
  /\ MetInJournal(txs_, v, i) =>
       /\ ~MetInCurrent(v, i)
       /\ v[i].type = "ORG"
       /\ ~FromTxHOn(txs_, v[i].tx, v[i].blk)

\* an answer that is not fine names a visit up to the i-th, or fails
AnswerUpTo(a, v, i) == (\E j \in 1 .. i : a = Cut(v[j].tx)) \/ a.res \in {"eio", "never"}

\* how cb_journal_sec_check() answers
Answered(d, txs_, v, i) ==
  /\ cb_journal_sec_check(d, txs_, v, i) = Fine <=> FineVisit(d, txs_, v, i)
  /\ cb_journal_sec_check(d, txs_, v, i) # Fine => AnswerUpTo(cb_journal_sec_check(d, txs_, v, i), v, i)

(* The visit that came to a block first is an earlier one or this one.      *)
LEMMA FirstVisitIs ==
  ASSUME NEW v, NEW i \in Nat \ {0}
  PROVE  \E j \in 1 .. i : FirstVisit(v, i) = v[j]
<1> DEFINE S == {j \in 1 .. i : v[j].blk = v[i].blk}
<1>1. S \in SUBSET Nat /\ i \in S
  OBVIOUS
<1> HIDE DEF S
<1>2. Min(S) \in S
  BY <1>1, MinExists
<1>3. FirstVisit(v, i) = v[Min(S)]
  BY Zenon DEF FirstVisit, S
<1>4. S \in SUBSET (1 .. i)
  BY DEF S
<1> QED
  BY <1>2, <1>3, <1>4

(* What cb_journal_sec_check() answers.                                     *)
LEMMA AnsweredAll ==
  ASSUME NEW d \in Devices, NEW txs_, NEW v \in Seq(VisitRecs), NEW i \in 1 .. Len(v), IsTxH(d, v[i].tx)
  PROVE  Answered(d, txs_, v, i)
<1> DEFINE a == cb_journal_sec_check(d, txs_, v, i)  t == v[i].tx  f == FirstVisit(v, i)
           blk == v[i].blk  end == LogRecords(d, t).end
<1>0. i \in Nat \ {0} /\ i \in 1 .. i
  OBVIOUS
<1>1. v[i].type \in {"LGR", "WAN", "ORG"}
  <2>1. v[i] \in VisitRecs
    BY ElementOfSeq
  <2> QED
    BY <2>1 DEF VisitRecs
<1>2. end \in {"good", "eio", "broken", "never"}
  BY LogRecordsAre DEF WalkIs, Walks
<1>3. PICK k \in 1 .. i : f = v[k]
  BY <1>0, FirstVisitIs
<1>4. /\ \A x, y : Cut(x) # Fine /\ Cut(x).res = "cut"
      /\ \A x : x # "fine" => Ends(x) # Fine /\ Ends(x).res = x
  BY DEF Cut, Fine, Ends
<1> HIDE DEF a, t, f, end, blk
<1>5. AnswerUpTo(Cut(t), v, i) /\ AnswerUpTo(Cut(f.tx), v, i)
  BY <1>0, <1>3 DEF AnswerUpTo, t
<1>6. CASE Illegal(blk, v[i].type)
  <2>1. a = Cut(t)
    BY <1>6 DEF a, t, blk, cb_journal_sec_check
  <2> QED
    BY <1>4, <1>5, <1>6, <2>1 DEF Answered, FineVisit, a, blk
<1>7. CASE ~Illegal(blk, v[i].type) /\ v[i].type = "LGR" /\ ~IsLGR(d, blk)
  <2>1. a = Cut(t)
    BY <1>7 DEF a, t, blk, cb_journal_sec_check
  <2> QED
    BY <1>4, <1>5, <1>7, <2>1 DEF Answered, FineVisit, a, blk
<1>8. CASE ~Illegal(blk, v[i].type) /\ (v[i].type = "LGR" => IsLGR(d, blk))
  <2>1. CASE ~MetInJournal(txs_, v, i)
    <3>1. a = Fine
      BY <1>8, <2>1 DEF a, blk, cb_journal_sec_check
    <3> QED
      BY <1>8, <2>1, <3>1 DEF Answered, FineVisit, a, blk
  <2>2. CASE MetInJournal(txs_, v, i) /\ MetInCurrent(v, i)
    <3>1. a = Cut(t)
      BY <1>8, <2>2 DEF a, t, blk, cb_journal_sec_check
    <3> QED
      BY <1>4, <1>5, <2>2, <3>1 DEF Answered, FineVisit, a
  <2>3. CASE MetInJournal(txs_, v, i) /\ ~MetInCurrent(v, i)
    <3>1. CASE v[i].type = "LGR"
      <4>1. a = LgrMet(end, t, f)
        BY <1>8, <2>3, <3>1 DEF a, t, f, end, blk, cb_journal_sec_check
      <4>2. a # Fine /\ AnswerUpTo(a, v, i)
        <5>1. CASE end = "good"
          BY <1>4, <1>5, <4>1, <5>1 DEF LgrMet
        <5>2. CASE end = "broken"
          BY <1>4, <1>5, <4>1, <5>2 DEF LgrMet
        <5>3. CASE end \in {"eio", "never"}
          <6>1. a = Ends(end)
            BY <4>1, <5>3 DEF LgrMet
          <6>2. a # Fine /\ a.res \in {"eio", "never"}
            BY <1>4, <5>3, <6>1
          <6> QED
            BY <6>2 DEF AnswerUpTo
        <5> QED
          BY <1>2, <5>1, <5>2, <5>3
      <4>3. ~FineVisit(d, txs_, v, i)
        BY <2>3, <3>1 DEF FineVisit
      <4> QED
        BY <4>2, <4>3 DEF Answered, a
    <3>2. CASE v[i].type = "WAN"
      <4>1. a = WanMet(txs_, t, f)
        BY <1>8, <2>3, <3>2 DEF a, t, f, blk, cb_journal_sec_check
      <4>2. a # Fine /\ AnswerUpTo(a, v, i)
        BY <1>4, <1>5, <4>1 DEF WanMet
      <4>3. ~FineVisit(d, txs_, v, i)
        BY <2>3, <3>2 DEF FineVisit
      <4> QED
        BY <4>2, <4>3 DEF Answered, a
    <3>3. CASE v[i].type = "ORG"
      <4>1. a = OrgMet(txs_, t, blk)
        BY <1>8, <2>3, <3>3 DEF a, t, blk, cb_journal_sec_check
      <4>2. CASE FromTxHOn(txs_, t, blk)
        <5>1. a = Cut(t)
          BY <4>1, <4>2 DEF OrgMet
        <5>2. ~FineVisit(d, txs_, v, i)
          BY <2>3, <4>2 DEF FineVisit, t, blk
        <5> QED
          BY <1>4, <1>5, <5>1, <5>2 DEF Answered, a
      <4>3. CASE ~FromTxHOn(txs_, t, blk)
        <5>1. a = Fine
          BY <4>1, <4>3 DEF OrgMet
        <5>2. FineVisit(d, txs_, v, i)
          BY <1>8, <2>3, <3>3, <4>3 DEF FineVisit, t, blk
        <5> QED
          BY <5>1, <5>2 DEF Answered, a
      <4> QED
        BY <4>2, <4>3
    <3> QED
      BY <1>1, <3>1, <3>2, <3>3
  <2> QED
    BY <2>1, <2>2, <2>3
<1> QED
  BY <1>6, <1>7, <1>8

AnswerRecursion(from, d, txs_, v) ==
  from = [i \in 1 .. Len(v) + 1 |->
            IF i > Len(v) THEN Fine
            ELSE IF cb_journal_sec_check(d, txs_, v, i) = Fine THEN from[i + 1]
            ELSE cb_journal_sec_check(d, txs_, v, i)]

\* a is the first answer that is not fine, if there is one.
FirstAnswer(a, d, txs_, v) ==
  \/ a = Fine /\ \A i \in 1 .. Len(v) : cb_journal_sec_check(d, txs_, v, i) = Fine
  \/ \E i \in 1 .. Len(v) :
       /\ a = cb_journal_sec_check(d, txs_, v, i) /\ a # Fine
       /\ \A j \in 1 .. i - 1 : cb_journal_sec_check(d, txs_, v, j) = Fine

(* The traversal with the check stops at the first answer that is not fine. *)
LEMMA CheckVisitsIs ==
  ASSUME NEW d, NEW txs_, NEW v, Len(v) \in Nat
  PROVE  FirstAnswer(CheckVisits(d, txs_, v), d, txs_, v)
<1> DEFINE N == Len(v)
           ans == [i \in 1 .. N |-> cb_journal_sec_check(d, txs_, v, i)]
           Wrong(i) == {k \in 1 .. N : i =< k /\ ans[k] # Fine}
           e == [i \in 1 .. N + 1 |-> IF Wrong(i) = {} THEN Fine ELSE ans[Min(Wrong(i))]]
<1>0. N \in Nat
  OBVIOUS
<1>1. \A i \in 1 .. N : ans[i] = cb_journal_sec_check(d, txs_, v, i)
  OBVIOUS
<1>2. ASSUME NEW i \in 1 .. N + 1
      PROVE  e[i] = IF i > N THEN Fine ELSE IF ans[i] = Fine THEN e[i + 1] ELSE ans[i]
  <2> HIDE DEF ans
  <2>0. e[i] = IF Wrong(i) = {} THEN Fine ELSE ans[Min(Wrong(i))]
    OBVIOUS
  <2>1. CASE i > N
    <3>1. Wrong(i) = {}
      BY <1>0, <2>1
    <3> QED
      BY <2>0, <2>1, <3>1
  <2>2. CASE ~(i > N) /\ ans[i] = Fine
    <3>1. i + 1 \in 1 .. N + 1
      BY <1>0, <2>2
    <3>2. Wrong(i) = Wrong(i + 1)
      BY <1>0, <2>2
    <3>3. e[i + 1] = IF Wrong(i + 1) = {} THEN Fine ELSE ans[Min(Wrong(i + 1))]
      <4> HIDE DEF Wrong
      <4> QED
        BY <3>1
    <3> HIDE DEF Wrong
    <3> QED
      BY <2>0, <2>2, <3>2, <3>3
  <2>3. CASE ~(i > N) /\ ans[i] # Fine
    <3>1. i \in Wrong(i) /\ Wrong(i) \in SUBSET Nat /\ \A k \in Wrong(i) : i =< k
      BY <1>0, <2>3
    <3> HIDE DEF Wrong
    <3>2. Min(Wrong(i)) \in Wrong(i) /\ \A k \in Wrong(i) : Min(Wrong(i)) =< k
      BY <3>1, MinExists
    <3>3. Min(Wrong(i)) = i
      BY <3>1, <3>2
    <3> QED
      BY <2>0, <2>3, <3>1, <3>3
  <2> QED
    BY <2>1, <2>2, <2>3
<1>3. AnswerRecursion(e, d, txs_, v)
  <2>1. e = [i \in 1 .. N + 1 |-> e[i]]
    OBVIOUS
  <2>2. \A i \in 1 .. N + 1 : i > N \/ i \in 1 .. N
    BY <1>0
  <2> HIDE DEF e, ans
  <2>3. \A i \in 1 .. N + 1 : e[i] = IF i > N THEN Fine
            ELSE IF cb_journal_sec_check(d, txs_, v, i) = Fine THEN e[i + 1]
            ELSE cb_journal_sec_check(d, txs_, v, i)
    BY <1>1, <1>2, <2>2
  <2>4. e = [i \in 1 .. N + 1 |-> IF i > N THEN Fine
            ELSE IF cb_journal_sec_check(d, txs_, v, i) = Fine THEN e[i + 1]
            ELSE cb_journal_sec_check(d, txs_, v, i)]
    BY <2>1, <2>3
  <2> QED
    BY <2>4, Zenon DEF AnswerRecursion
<1> DEFINE c == CHOOSE from : AnswerRecursion(from, d, txs_, v)
<1>4. AnswerRecursion(c, d, txs_, v)
  BY <1>3
<1>5. CheckVisits(d, txs_, v) = c[1]
  BY Zenon DEF CheckVisits, AnswerRecursion
<1> HIDE DEF c, e
<1>6. \A i \in 1 .. N + 1 : c[i] = IF i > N THEN Fine ELSE IF ans[i] = Fine THEN c[i + 1] ELSE ans[i]
  <2> DEFINE F(i) == IF i > N THEN Fine
                     ELSE IF cb_journal_sec_check(d, txs_, v, i) = Fine THEN c[i + 1]
                     ELSE cb_journal_sec_check(d, txs_, v, i)
  <2>1. c = [i \in 1 .. N + 1 |-> F(i)]
    BY <1>4, Zenon DEF AnswerRecursion
  <2>2. \A i \in 1 .. N + 1 : c[i] = F(i)
    <3> HIDE DEF F
    <3> QED
      BY <2>1
  <2>3. \A i \in 1 .. N + 1 : i > N \/ i \in 1 .. N
    BY <1>0
  <2> HIDE DEF ans
  <2> QED
    BY <1>1, <2>2, <2>3
<1> HIDE DEF ans
<1> DEFINE Same == {n \in 0 .. N : (\A j \in 1 .. n : ans[j] = Fine) => c[n + 1] = c[1]}
<1>7. \A n \in 0 .. N : n \in Same
  <2>1. 0 \in Same
    BY <1>0
  <2>2. ASSUME NEW n \in 1 .. N, n - 1 \in Same PROVE n \in Same
    <3> SUFFICES ASSUME \A j \in 1 .. n : ans[j] = Fine PROVE c[n + 1] = c[1]
      BY <1>0
    <3>1. (n - 1) + 1 = n /\ n \in 1 .. N + 1 /\ ~(n > N) /\ ans[n] = Fine
      BY <1>0
    <3>2. c[(n - 1) + 1] = c[1]
      BY <1>0, <2>2
    <3>3. c[n] = c[n + 1]
      BY <1>6, <3>1
    <3> QED
      BY <3>1, <3>2, <3>3
  <2> HIDE DEF Same
  <2> QED
    BY <1>0, <2>1, <2>2, Climb
<1>8. CASE \A j \in 1 .. N : ans[j] = Fine
  <2>1. c[N + 1] = c[1] /\ N + 1 \in 1 .. N + 1 /\ N + 1 > N
    BY <1>0, <1>7, <1>8
  <2>2. c[1] = Fine
    BY <1>6, <2>1
  <2> QED
    BY <1>1, <1>5, <1>8, <2>2 DEF FirstAnswer
<1>9. CASE ~\A j \in 1 .. N : ans[j] = Fine
  <2> DEFINE W == {k \in 1 .. N : ans[k] # Fine}
  <2>1. PICK i \in W : \A k \in W : i =< k
    <3>1. W \in SUBSET Nat /\ W # {}
      BY <1>9
    <3> HIDE DEF W
    <3> QED
      BY <3>1, Least
  <2>2. i \in 1 .. N /\ ans[i] # Fine /\ \A j \in 1 .. i - 1 : ans[j] = Fine
    BY <1>0, <2>1
  <2>3. i - 1 \in 0 .. N /\ (i - 1) + 1 = i /\ i \in 1 .. N + 1 /\ ~(i > N)
    BY <1>0, <2>2
  <2>4. c[i] = c[1]
    BY <1>7, <2>2, <2>3
  <2>5. c[1] = ans[i]
    BY <1>6, <2>2, <2>3, <2>4
  <2>6. \A j \in 1 .. i - 1 : j \in 1 .. N
    BY <1>0, <2>2
  <2> QED
    BY <1>1, <1>5, <2>2, <2>5, <2>6 DEF FirstAnswer
<1> QED
  BY <1>8, <1>9

(* A walk that is not good has a log record that is not fine.               *)
LEMMA FineIsGood ==
  ASSUME NEW d \in Devices, NEW p \in Seq(Txs(d)),
         \A i \in 1 .. Len(Visits(d, p)) : FineVisit(d, p, Visits(d, p), i),
         NEW k \in 1 .. Len(p)
  PROVE  LogRecords(d, p[k]).end = "good"
<1> DEFINE w == Visits(d, p)  t == p[k]  r == LogRecords(d, t)  b == r.blks  n == Len(b)
           pre == FlatMap(TransPieces(d), SubSeq(p, 1, k - 1))
           post == FlatMap(TransPieces(d), SubSeq(p, k + 1, Len(p)))
           mid == RecordsVisits(d, t, b)
<1>1. t \in Txs(d) /\ IsTxH(d, t) /\ t \in Nat
  BY ElementOfSeq, TxsNat DEF Txs
<1>2. WalkIs(d, t, d[t].next, AreaLen, r)
  BY <1>1, LogRecordsAre
<1>3. b \in Seq(Nat) /\ n \in Nat
  BY <1>2 DEF WalkIs, Walks
<1>4. w = pre \o (mid \o post) /\ pre \in Seq(VisitRecs) /\ mid \in Seq(VisitRecs) /\ post \in Seq(VisitRecs)
  <2> DEFINE g == TransPieces(d)
  <2>1. g \in [Txs(d) -> Seq(VisitRecs)] /\ w = FlatMap(g, p)
    BY VisitsAre
  <2>2. g[t] = mid
    BY <1>1 DEF TransPieces, TransVisits
  <2> HIDE DEF g
  <2>3. \A y \in 1 .. Len(p) :
          /\ FlatMap(g, p) = FlatMap(g, SubSeq(p, 1, y - 1)) \o (g[p[y]] \o FlatMap(g, SubSeq(p, y + 1, Len(p))))
          /\ FlatMap(g, SubSeq(p, 1, y - 1)) \in Seq(VisitRecs)
          /\ FlatMap(g, SubSeq(p, y + 1, Len(p))) \in Seq(VisitRecs)
          /\ g[p[y]] \in Seq(VisitRecs)
    BY <2>1, FlatMapSplit
  <2>4. /\ FlatMap(g, p) = FlatMap(g, SubSeq(p, 1, k - 1)) \o (g[p[k]] \o FlatMap(g, SubSeq(p, k + 1, Len(p))))
        /\ FlatMap(g, SubSeq(p, 1, k - 1)) \in Seq(VisitRecs)
        /\ FlatMap(g, SubSeq(p, k + 1, Len(p))) \in Seq(VisitRecs)
        /\ g[p[k]] \in Seq(VisitRecs)
    BY <2>3, Zenon
  <2> QED
    BY <2>1, <2>2, <2>4 DEF g
<1>5. \A i \in 1 .. Len(w) : FineVisit(d, p, w, i)
  OBVIOUS
<1> HIDE DEF pre, post, w
<1>6. ASSUME NEW i \in 1 .. Len(mid)
      PROVE  /\ Len(pre) + i \in 1 .. Len(w) /\ w[Len(pre) + i] = mid[i]
             /\ FineVisit(d, p, w, Len(pre) + i)
  <2> HIDE DEF mid
  <2>1. Len(pre) + i \in 1 .. Len(w) /\ w[Len(pre) + i] = mid[i]
    BY <1>4, ConcatMiddle
  <2> QED
    BY <1>5, <2>1
<1>7. ASSUME NEW l \in 1 .. n PROVE \E i \in 1 .. Len(mid) : mid[i] = Visit(t, b[l], "LGR")
  <2>1. RecordVisitOf(d, Visit(t, b[l], "LGR"), t, b)
    BY DEF RecordVisitOf
  <2>2. Visit(t, b[l], "LGR") \in ToSet(mid)
    BY <1>1, <1>3, <2>1, RecordsVisitsHave
  <2> DEFINE y == Visit(t, b[l], "LGR")
  <2> HIDE DEF mid, y
  <2>3. \E i \in 1 .. Len(mid) : y = mid[i]
    <3>1. y \in ToSet(mid) /\ mid \in Seq(VisitRecs)
      BY <1>4, <2>2 DEF y
    <3>2. \A x : x \in ToSet(mid) <=> \E i \in 1 .. Len(mid) : x = mid[i]
      BY <3>1, ElementsOf
    <3> QED
      BY <3>1, <3>2, Zenon
  <2> QED
    BY <2>3 DEF y
<1>8. \A l \in 1 .. n : IsLGR(d, b[l])
  <2> TAKE l \in 1 .. n
  <2>1. PICK i \in 1 .. Len(mid) : mid[i] = Visit(t, b[l], "LGR")
    BY <1>7
  <2>2. w[Len(pre) + i].blk = b[l] /\ w[Len(pre) + i].type = "LGR"
    BY <1>6, <2>1 DEF Visit
  <2>3. FineVisit(d, p, w, Len(pre) + i)
    BY <1>6
  <2> HIDE DEF mid, b
  <2> QED
    BY <2>2, <2>3 DEF FineVisit
<1>9. CASE r.end \in {"eio", "broken"}
  <2>1. n \in 1 .. n /\ ~IsLGR(d, b[n])
    BY <1>2, <1>3, <1>9 DEF WalkIs
  <2> QED
    BY <1>8, <2>1
<1>10. CASE r.end = "never"
  <2>1. n = AreaLen + 1
    BY <1>2, <1>10 DEF WalkIs
  <2>2. \A l \in 1 .. AreaLen + 1 : b[l] \in Blocks
    BY <1>8, <2>1, LGRHas
  <2>3. PICK x, y \in 1 .. Len(b) : x < y /\ b[x] = b[y]
    BY <1>3, <2>1, <2>2, RecordsRepeat
  <2> DEFINE g == RecordPieces(d, t)
             one == FlatMap(g, SubSeq(b, 1, y - 1))
             two == RecordVisits(d, t, b[y])
             rest == FlatMap(g, SubSeq(b, y + 1, Len(b)))
             q == SubSeq(b, 1, y - 1)
  <2>4. g \in [Nat -> Seq(VisitRecs)] /\ mid = FlatMap(g, b)
    BY <1>1, <1>3, RecordsVisitsAre
  <2>5. q \in Seq(Nat) /\ Len(q) = y - 1 /\ \A i \in 1 .. y - 1 : q[i] = b[i]
    <3> HIDE DEF b
    <3> QED
      BY <1>3, PrefixHas
  <2>6. b[y] \in Nat /\ g[b[y]] = two
    <3>1. b[y] \in Nat
      BY <1>3, ElementOfSeq
    <3> QED
      BY <3>1 DEF RecordPieces
  <2> HIDE DEF g, b
  <2>7. /\ mid = one \o (two \o rest)
        /\ one \in Seq(VisitRecs) /\ two \in Seq(VisitRecs) /\ rest \in Seq(VisitRecs)
    <3>1. \A z \in 1 .. Len(b) :
          /\ FlatMap(g, b) = FlatMap(g, SubSeq(b, 1, z - 1)) \o (g[b[z]] \o FlatMap(g, SubSeq(b, z + 1, Len(b))))
          /\ FlatMap(g, SubSeq(b, 1, z - 1)) \in Seq(VisitRecs)
          /\ FlatMap(g, SubSeq(b, z + 1, Len(b))) \in Seq(VisitRecs)
          /\ g[b[z]] \in Seq(VisitRecs)
      BY <1>3, <2>4, FlatMapSplit
    <3> HIDE DEF mid, two
    <3> QED
      BY <2>4, <2>6, <3>1, Zenon
  <2>8. PICK i \in 1 .. Len(one) : one[i] = Visit(t, b[x], "LGR")
    <3>1. one = RecordsVisits(d, t, q)
      <4> HIDE DEF t, mid, two, rest
      <4>1. one = FlatMap(RecordPieces(d, t), q)
        BY Zenon DEF g
      <4> HIDE DEF one, q
      <4>2. d \in Devices /\ t \in Nat /\ q \in Seq(Nat)
        BY <1>1, <2>5, Zenon
      <4>3. RecordsVisits(d, t, q) = FlatMap(RecordPieces(d, t), q)
        BY <4>2, RecordsVisitsAre
      <4> QED
        BY <4>1, <4>3, Zenon
    <3>2. x \in 1 .. Len(q) /\ q[x] = b[x]
      <4> HIDE DEF q, b
      <4>1. Len(b) \in Nat
        BY <1>3, LenProperties
      <4>2. x \in 1 .. y - 1
        BY <2>3, <4>1
      <4> QED
        BY <2>5, <4>2
    <3>3. RecordVisitOf(d, Visit(t, b[x], "LGR"), t, q)
      BY <3>2 DEF RecordVisitOf
    <3>4. Visit(t, b[x], "LGR") \in ToSet(one)
      <4> DEFINE v == Visit(t, b[x], "LGR")
      <4>1. d \in Devices /\ t \in Nat /\ q \in Seq(Nat)
        BY <1>1, <2>5, Zenon
      <4>2. RecordVisitOf(d, v, t, q)
        BY <3>3, Zenon
      <4> HIDE DEF v, q, one
      <4>3. v \in ToSet(RecordsVisits(d, t, q))
        BY <4>1, <4>2, RecordsVisitsHave
      <4> QED
        BY <3>1, <4>3, Zenon DEF v
    <3> DEFINE v == Visit(t, b[x], "LGR")
    <3>5. one \in Seq(VisitRecs) /\ v \in ToSet(one)
      BY <2>7, <3>4, Zenon
    <3> HIDE DEF one, v
    <3>6. \A u_ \in Seq(VisitRecs) : \A y_ \in ToSet(u_) : \E z \in 1 .. Len(u_) : u_[z] = y_
      BY ElementsOf
    <3>7. \E z \in 1 .. Len(one) : one[z] = v
      BY <3>5, <3>6, Zenon
    <3> QED
      BY <3>7, Zenon DEF v
  <2>9. 1 \in 1 .. Len(two) /\ two[1] = Visit(t, b[y], "LGR")
    <3>1. Visit(t, b[y], "LGR") \in VisitRecs
      BY <1>1, <2>6 DEF Visit, VisitRecs
    <3>2. PairsVisits(t, Entries(d, b[y])) \in Seq(VisitRecs)
      <4>1. Entries(d, b[y]) \in Seq(Pairs)
        BY EntriesAre
      <4> QED
        BY <1>1, <4>1, PairsVisitsAre
    <3>3. Len(two) = Len(PairsVisits(t, Entries(d, b[y]))) + 1 /\ two[1] = Visit(t, b[y], "LGR")
      BY <3>1, <3>2, ConsHas DEF RecordVisits
    <3> QED
      BY <3>2, <3>3
  <2> DEFINE a == 1
  <2>10. a \in 1 .. Len(two) /\ two[a] = Visit(t, b[y], "LGR")
    BY <2>9
  <2> HIDE DEF one, two, rest, mid, a
  <2>11. Len(one) + a \in 1 .. Len(mid) /\ mid[Len(one) + a] = two[a]
    <3>1. \A a_, b_, c_ \in Seq(VisitRecs) : \A i_ \in 1 .. Len(b_) :
            /\ Len(a_) + i_ \in 1 .. Len(a_ \o (b_ \o c_))
            /\ (a_ \o (b_ \o c_))[Len(a_) + i_] = b_[i_]
      BY ConcatMiddle
    <3> QED
      BY <2>7, <2>10, <3>1, Zenon
  <2> DEFINE j == Len(one) + a
  <2>12. i \in 1 .. Len(mid) /\ mid[i] = one[i] /\ i < j
    <3>1. two \o rest \in Seq(VisitRecs)
      BY <2>7, ConcatProperties
    <3> DEFINE tr == two \o rest
    <3> HIDE DEF tr
    <3>2. /\ Len(one \o tr) = Len(one) + Len(tr)
          /\ \A z \in 1 .. Len(one) + Len(tr) : (one \o tr)[z] = IF z <= Len(one) THEN one[z] ELSE tr[z - Len(one)]
      <4>1. \A x_, z_ \in Seq(VisitRecs) :
              /\ Len(x_ \o z_) = Len(x_) + Len(z_)
              /\ \A z \in 1 .. Len(x_) + Len(z_) : (x_ \o z_)[z] = IF z <= Len(x_) THEN x_[z] ELSE z_[z - Len(x_)]
        BY ConcatProperties
      <4> QED
        BY <2>7, <3>1, <4>1, Zenon DEF tr
    <3>3. mid = one \o tr
      BY <2>7 DEF tr
    <3>4. Len(tr) \in Nat /\ Len(one) \in Nat
      BY <2>7, <3>1 DEF tr
    <3>5. i \in 1 .. Len(one) + Len(tr) /\ i <= Len(one) /\ i < Len(one) + a
      BY <3>4 DEF a
    <3> QED
      BY <3>2, <3>3, <3>5
  <2> HIDE DEF j
  <2>13. Visit(t, b[x], "LGR") = Visit(t, b[y], "LGR") /\ mid[j] = mid[i]
    BY <2>3, <2>8, <2>10, <2>11, <2>12 DEF j
  <2>14. j \in 1 .. Len(mid)
    BY <2>11 DEF j
  <2> DEFINE i1 == Len(pre) + i  j1 == Len(pre) + j
  <2>15. /\ i1 \in 1 .. Len(w) /\ w[i1] = mid[i]
         /\ j1 \in 1 .. Len(w) /\ w[j1] = mid[j] /\ FineVisit(d, p, w, j1)
    BY <1>6, <2>12, <2>14
  <2>16. i1 \in 1 .. j1 - 1
    <3>1. Len(pre) \in Nat /\ Len(mid) \in Nat
      BY <1>4
    <3> QED
      BY <2>12, <2>14, <3>1
  <2> HIDE DEF i1, j1
  <2>17. MetInJournal(p, w, j1) /\ MetInCurrent(w, j1)
    <3>1. w[i1] = w[j1]
      BY <2>13, <2>15
    <3> QED
      BY <2>16, <3>1 DEF MetInJournal, MetInCurrent
  <2> QED
    BY <2>15, <2>17 DEF FineVisit
<1>11. r.end \in {"good", "eio", "broken", "never"}
  BY <1>2 DEF WalkIs, Walks
<1> QED
  BY <1>9, <1>10, <1>11

(* Visits that are all fine are those of a right journal.                   *)
LEMMA FineIsSound ==
  ASSUME NEW d \in Devices, NEW p \in Seq(Txs(d)), ~BrokenList(p),
         \A i \in 1 .. Len(Visits(d, p)) : FineVisit(d, p, Visits(d, p), i)
  PROVE  SoundList(d, p)
<1> DEFINE w == Visits(d, p)
<1>1. w \in Seq(VisitRecs) /\ DOMAIN w = 1 .. Len(w) /\ Len(w) \in Nat
  BY VisitsAre, LenProperties
<1>2. \A k \in DOMAIN p : LogRecords(d, p[k]).end = "good"
  BY FineIsGood, LenProperties
<1>3. \A i \in 1 .. Len(w) : FineVisit(d, p, w, i)
  OBVIOUS
<1>4. \A i \in 1 .. Len(w) : w[i].type \in {"LGR", "WAN", "ORG"}
  <2>1. \A i \in 1 .. Len(w) : w[i] \in VisitRecs
    BY <1>1, ElementOfSeq
  <2> QED
    BY <2>1 DEF VisitRecs
<1> HIDE DEF w
<1>5. \A i \in 1 .. Len(w) : ~Illegal(w[i].blk, w[i].type)
  BY <1>3 DEF FineVisit
<1>6. \A i \in 1 .. Len(w) : w[i].type # "ORG" => ~AmongTxH(p, w[i].blk)
  BY <1>3 DEF FineVisit, MetInJournal
<1>7. \A i \in 1 .. Len(w) : w[i].type = "ORG" => ~FromTxHOn(p, w[i].tx, w[i].blk)
  <2>1. ASSUME NEW i \in 1 .. Len(w), FromTxHOn(p, w[i].tx, w[i].blk) PROVE MetInJournal(p, w, i)
    <3>1. PICK j, k \in DOMAIN p : p[j] = w[i].tx /\ p[k] = w[i].blk /\ j =< k
      BY <2>1 DEF FromTxHOn
    <3>2. k \in 1 .. Len(p)
      BY LenProperties
    <3> QED
      BY <3>1, <3>2 DEF MetInJournal, AmongTxH, Contains
  <2> QED
    BY <1>3, <2>1 DEF FineVisit
<1>8. ASSUME NEW i \in 1 .. Len(w), NEW j \in 1 .. Len(w), i < j, w[i].blk = w[j].blk
      PROVE  w[j].type = "ORG" /\ w[i].tx # w[j].tx
  <2>1. i \in 1 .. j - 1
    BY <1>1, <1>8
  <2>2. MetInJournal(p, w, j)
    BY <1>8, <2>1 DEF MetInJournal
  <2>3. w[j].type = "ORG" /\ ~MetInCurrent(w, j)
    BY <1>3, <2>2 DEF FineVisit
  <2> QED
    BY <1>8, <2>1, <2>3 DEF MetInCurrent
<1>9. ASSUME NEW i \in 1 .. Len(w), NEW j \in 1 .. Len(w), i # j, w[i].blk = w[j].blk
      PROVE  \/ w[i].type = "ORG" /\ w[j].type = "ORG" /\ w[i].tx # w[j].tx
             \/ w[i].type # "ORG" /\ w[j].type = "ORG" /\ i < j /\ w[i].tx # w[j].tx
             \/ w[j].type # "ORG" /\ w[i].type = "ORG" /\ j < i /\ w[i].tx # w[j].tx
  <2>1. i < j \/ j < i
    BY <1>1, <1>9
  <2> QED
    BY <1>8, <1>9, <2>1
<1>10. SoundVisits(p, w)
  BY <1>1, <1>5, <1>6, <1>7, <1>9 DEF SoundVisits
<1> QED
  BY <1>2, <1>10 DEF SoundList, w

-----------------------------------------------------------------------------
(* The check of a journal *)

\* p is the beginning of list, and what is fine in list is fine in p.
FineBeginning(d, p, list) ==
  /\ p \in Seq(Txs(d))
  /\ ~BrokenList(list) => ~BrokenList(p)
  /\ Len(Visits(d, p)) \in Nat /\ Len(Visits(d, p)) =< Len(Visits(d, list))
  /\ \A i \in 1 .. Len(Visits(d, p)) :
       /\ Visits(d, p)[i] = Visits(d, list)[i]
       /\ FineVisit(d, list, Visits(d, list), i) => FineVisit(d, p, Visits(d, p), i)

(* A list cut off before one of its transactions.                           *)
LEMMA Beginnings ==
  ASSUME NEW d \in Devices, NEW list \in Seq(Txs(d)), NEW k \in 1 .. Len(list)
  PROVE  FineBeginning(d, SubSeq(list, 1, k - 1), list)
<1> DEFINE p == SubSeq(list, 1, k - 1)  g == TransPieces(d)  v == Visits(d, list)  w == Visits(d, p)
           z == g[list[k]] \o FlatMap(g, SubSeq(list, k + 1, Len(list)))
<1>1. p \in Seq(Txs(d)) /\ Len(p) = k - 1 /\ \A i \in 1 .. k - 1 : p[i] = list[i]
  BY PrefixHas
<1>2. g \in [Txs(d) -> Seq(VisitRecs)] /\ v = FlatMap(g, list)
  BY VisitsAre
<1> HIDE DEF p, g
<1>3. w = FlatMap(g, p)
  BY <1>1, VisitsAre DEF g
<1>4. v = w \o z /\ w \in Seq(VisitRecs) /\ z \in Seq(VisitRecs)
  <2>1. \A y \in 1 .. Len(list) :
        /\ FlatMap(g, list) = FlatMap(g, SubSeq(list, 1, y - 1)) \o (g[list[y]] \o FlatMap(g, SubSeq(list, y + 1, Len(list))))
        /\ FlatMap(g, SubSeq(list, 1, y - 1)) \in Seq(VisitRecs)
        /\ FlatMap(g, SubSeq(list, y + 1, Len(list))) \in Seq(VisitRecs)
        /\ g[list[y]] \in Seq(VisitRecs)
    BY <1>2, FlatMapSplit
  <2>2. FlatMap(g, list) = FlatMap(g, p) \o z /\ FlatMap(g, p) \in Seq(VisitRecs)
    BY <2>1, Zenon DEF p
  <2>3. g[list[k]] \in Seq(VisitRecs) /\ FlatMap(g, SubSeq(list, k + 1, Len(list))) \in Seq(VisitRecs)
    BY <2>1, Zenon
  <2>4. z \in Seq(VisitRecs)
    <3>1. \A a_, b_ \in Seq(VisitRecs) : a_ \o b_ \in Seq(VisitRecs)
      BY ConcatProperties
    <3> QED
      BY <2>3, <3>1, Zenon
  <2> QED
    BY <1>2, <1>3, <2>2, <2>4
<1> HIDE DEF v, w, z
<1>5. Len(w) \in Nat /\ Len(w) =< Len(v) /\ \A i \in 1 .. Len(w) : v[i] = w[i]
  <2>1. Len(w) \in Nat /\ Len(z) \in Nat
    BY <1>4
  <2>2. /\ Len(v) = Len(w) + Len(z)
        /\ \A i \in 1 .. Len(w) + Len(z) : v[i] = IF i <= Len(w) THEN w[i] ELSE z[i - Len(w)]
    BY <1>4, ConcatProperties
  <2>3. \A i \in 1 .. Len(w) : i \in 1 .. Len(w) + Len(z) /\ i <= Len(w)
    BY <2>1
  <2> QED
    BY <2>1, <2>2, <2>3
<1>6. \A i \in 1 .. Len(p) : i \in 1 .. Len(list) /\ p[i] = list[i]
  BY <1>1
<1>7. \A blk : AmongTxH(p, blk) => AmongTxH(list, blk)
  BY <1>6 DEF AmongTxH, Contains
<1>8. \A t, blk : FromTxHOn(p, t, blk) => FromTxHOn(list, t, blk)
  <2>1. DOMAIN p = 1 .. Len(p) /\ DOMAIN list = 1 .. Len(list)
    BY <1>1, LenProperties
  <2> QED
    BY <1>6, <2>1 DEF FromTxHOn
<1>9. ~BrokenList(list) => ~BrokenList(p)
  <2>1. DOMAIN p = 1 .. Len(p) /\ DOMAIN list = 1 .. Len(list)
    BY <1>1, LenProperties
  <2> QED
    BY <1>6, <2>1 DEF BrokenList
<1>10. ASSUME NEW i \in 1 .. Len(w), FineVisit(d, list, v, i)
       PROVE  FineVisit(d, p, w, i)
  <2>1. \A j \in 1 .. i - 1 : j \in 1 .. Len(w)
    BY <1>5
  <2>2. v[i] = w[i] /\ \A j \in 1 .. i - 1 : v[j] = w[j]
    BY <1>5, <2>1
  <2>3. MetInCurrent(v, i) <=> MetInCurrent(w, i)
    BY <2>2 DEF MetInCurrent
  <2>4. MetInJournal(p, w, i) => MetInJournal(list, v, i)
    BY <1>7, <2>2 DEF MetInJournal
  <2> QED
    BY <1>8, <1>10, <2>2, <2>3, <2>4 DEF FineVisit
<1> QED
  BY <1>1, <1>5, <1>9, <1>10 DEF FineBeginning, p, v, w

(* A chain is made of transactions.                                         *)
LEMMA ChainOfTxs ==
  ASSUME NEW d, NEW list, NEW last, NEW flushed, Chain(d, list, last, flushed)
  PROVE  list \in Seq(Txs(d)) /\ Len(list) \in Nat
<1>1. list \in Seq(Blocks) /\ Len(list) \in Nat /\ \A k \in 1 .. Len(list) : IsTxH(d, list[k])
  BY DEF Chain
<1>2. \A k \in 1 .. Len(list) : list[k] \in Txs(d)
  BY <1>1, ElementOfSeq DEF Txs
<1>3. list \in [1 .. Len(list) -> Txs(d)]
  BY <1>1, <1>2, LenProperties
<1> DEFINE n == Len(list)  T == Txs(d)
<1>4. n \in Nat /\ list \in [1 .. n -> T]
  BY <1>1, <1>3
<1> HIDE DEF n, T
<1>5. list \in Seq(T)
  BY <1>4, SeqDef
<1> QED
  BY <1>1, <1>5 DEF T

(* A journal without pending transactions is right.                         *)
LEMMA EmptyIsSound ==
  ASSUME NEW d \in Devices, NEW flushed \in Nat
  PROVE  Sound(d, flushed, flushed)
<1> DEFINE p == <<>>
<1>1. AreChains(TxLists(d, flushed, flushed), d, flushed, flushed, AreaLen)
  BY ListsAreChains
<1>2. Chain(d, p, flushed, flushed) /\ Len(p) = 0 /\ 0 =< AreaLen /\ DOMAIN p = {}
  BY ChainEmpty, BlockNumbers
<1>3. p \in TxLists(d, flushed, flushed)
  BY <1>1, <1>2 DEF AreChains
<1>4. p \in Seq(Txs(d))
  BY EmptySeq
<1>5. ~BrokenList(p)
  BY <1>2 DEF BrokenList
<1>6. Visits(d, p) = <<>>
  BY <1>4, VisitsAre, FlatMapEmpty
<1>7. \A i \in 1 .. Len(Visits(d, p)) : FALSE
  BY <1>6
<1> HIDE DEF p
<1>8. SoundList(d, p)
  BY <1>4, <1>5, <1>7, FineIsSound
<1> QED
  BY <1>3, <1>8 DEF Sound

\* what the check makes of the header is right
ChecksOut(d, r, flushed) ==
  /\ r.res \in {"fine", "cut", "eio", "never"} /\ r.last \in Nat
  /\ r.res \in {"fine", "cut"} => Sound(d, r.last, flushed)

(* The check of a list of transactions leaves a right journal.              *)
LEMMA CheckListMakesSound ==
  ASSUME NEW d \in Devices, NEW last \in Nat, NEW flushed \in Nat,
         NEW list \in TxLists(d, last, flushed), ~BrokenList(list),
         NEW r \in CheckList(d, last, list)
  PROVE  ChecksOut(d, r, flushed)
<1> DEFINE v == Visits(d, list)  a == CheckVisits(d, list, v)
<1>1. AreChains(TxLists(d, last, flushed), d, last, flushed, AreaLen)
  BY ListsAreChains
<1>2. Chain(d, list, last, flushed) /\ Len(list) =< AreaLen
  BY <1>1 DEF AreChains
<1>3. list \in Seq(Txs(d)) /\ Len(list) \in Nat
  BY <1>2, ChainOfTxs
<1>4. v \in Seq(VisitRecs) /\ Len(v) \in Nat
  BY <1>3, VisitsAre, LenProperties
<1>5. FirstAnswer(a, d, list, v)
  BY <1>4, CheckVisitsIs
<1>6. r = CheckedTo(d, last, a)
  BY DEF CheckList
<1>7. \A i \in 1 .. Len(v) : \E k \in 1 .. Len(list) : v[i].tx = list[k]
  BY <1>3, VisitsTx
<1>8. \A i \in 1 .. Len(v) : Answered(d, list, v, i)
  <2>1. \A i \in 1 .. Len(v) : IsTxH(d, v[i].tx)
    BY <1>2, <1>7 DEF Chain
  <2> HIDE DEF v
  <2> QED
    BY <1>4, <2>1, AnsweredAll
<1>9. CASE a = Fine /\ \A i \in 1 .. Len(v) : cb_journal_sec_check(d, list, v, i) = Fine
  <2>1. r.res = "fine" /\ r.last = last
    BY <1>6, <1>9 DEF CheckedTo, Fine
  <2>2. \A i \in 1 .. Len(v) : FineVisit(d, list, v, i)
    BY <1>8, <1>9 DEF Answered
  <2>3. SoundList(d, list)
    BY <1>3, <2>2, FineIsSound
  <2> QED
    BY <2>1, <2>3 DEF ChecksOut, Sound
<1>10. ASSUME NEW i \in 1 .. Len(v), a = cb_journal_sec_check(d, list, v, i), a # Fine,
              \A j \in 1 .. i - 1 : cb_journal_sec_check(d, list, v, j) = Fine
       PROVE  ChecksOut(d, r, flushed)
  <2>1. AnswerUpTo(a, v, i)
    BY <1>8, <1>10 DEF Answered
  <2>2. CASE a.res \in {"eio", "never"}
    <3>1. r.res = a.res /\ r.last = last
      BY <1>6, <2>2 DEF CheckedTo
    <3> QED
      BY <2>2, <3>1 DEF ChecksOut
  <2>3. ASSUME NEW j \in 1 .. i, a = Cut(v[j].tx) PROVE ChecksOut(d, r, flushed)
    <3>1. j \in 1 .. Len(v)
      BY <1>4
    <3>2. PICK k \in 1 .. Len(list) : v[j].tx = list[k]
      BY <1>7, <3>1
    <3>3. r.res = "cut" /\ r.last = d[list[k]].prev
      BY <1>6, <2>3, <3>2 DEF CheckedTo, Cut
    <3> DEFINE p == SubSeq(list, 1, k - 1)  w == Visits(d, p)
    <3>4. FineBeginning(d, p, list)
      BY <1>3, Beginnings
    <3>5. p \in Seq(Blocks) /\ Len(p) = k - 1 /\ \A m \in 1 .. k - 1 : p[m] = list[m]
      BY <1>2, PrefixHas DEF Chain
    <3>6. Chain(d, p, d[list[k]].prev, flushed)
      BY <1>2, ChainPrefix
    <3>7. p \in Seq(Txs(d))
      BY <3>4 DEF FineBeginning
    <3> HIDE DEF p, v
    <3>8. j \notin 1 .. Len(w)
      <4> SUFFICES ASSUME j \in 1 .. Len(w) PROVE FALSE
        OBVIOUS
      <4>1. PICK m \in 1 .. Len(p) : w[j].tx = p[m]
        BY <3>7, VisitsTx, SMTT(30)
      <4>2. w[j] = v[j]
        BY <3>4 DEF FineBeginning, v
      <4>3. m \in 1 .. Len(list) /\ list[m] = list[k] /\ m # k
        BY <1>3, <3>2, <3>5, <4>1, <4>2
      <4> QED
        BY <1>2, <4>3, ChainDistinct
    <3> HIDE DEF w
    <3>9. \A m \in 1 .. Len(w) : m \in 1 .. i - 1 /\ m \in 1 .. Len(v)
      <4>1. Len(w) \in Nat
        BY <3>4 DEF FineBeginning, w
      <4> QED
        BY <1>4, <3>8, <4>1
    <3>10. \A m \in 1 .. Len(w) : FineVisit(d, list, v, m)
      BY <1>8, <1>10, <3>9 DEF Answered
    <3>11. SoundList(d, p)
      <4>1. \A m \in 1 .. Len(w) : FineVisit(d, p, w, m)
        BY <3>4, <3>10 DEF FineBeginning, w, v
      <4>2. ~BrokenList(p)
        BY <3>4 DEF FineBeginning
      <4> QED
        BY <3>7, <4>1, <4>2, FineIsSound DEF w
    <3>12. r.last \in Nat
      BY <1>2, <3>3, TxHHas DEF Chain
    <3>13. p \in TxLists(d, r.last, flushed)
      <4>1. AreChains(TxLists(d, r.last, flushed), d, r.last, flushed, AreaLen)
        BY <3>12, ListsAreChains
      <4>2. Len(p) =< AreaLen
        BY <1>2, <1>3, <3>5, BlockNumbers
      <4> QED
        BY <3>3, <3>6, <4>1, <4>2 DEF AreChains
    <3> QED
      BY <3>3, <3>11, <3>12, <3>13 DEF ChecksOut, Sound
  <2> QED
    BY <2>1, <2>2, <2>3 DEF AnswerUpTo
<1> HIDE DEF a, v
<1> QED
  BY <1>5, <1>9, <1>10 DEF FirstAnswer

(* Whatever the check leaves is right.                                      *)
LEMMA CheckMakesSound ==
  ASSUME NEW d \in Devices, NEW last \in Nat, NEW flushed \in Nat,
         NEW r \in journal40_check_struct(d, last, flushed)
  PROVE  ChecksOut(d, r, flushed)
<1> DEFINE lists == {list \in TxLists(d, last, flushed) : ~BrokenList(list)}
<1>1. CASE lists = {}
  <2>1. r = [res |-> "cut", last |-> flushed]
    BY <1>1, Zenon DEF journal40_check_struct
  <2>2. r.res = "cut" /\ r.last = flushed
    BY <2>1
  <2>3. Sound(d, flushed, flushed)
    BY EmptyIsSound
  <2> QED
    BY <2>2, <2>3 DEF ChecksOut
<1>2. CASE lists # {}
  <2>1. PICK list \in lists : r \in CheckList(d, last, list)
    <3>1. r \in UNION {CheckList(d, last, list) : list \in lists}
      BY <1>2, Zenon DEF journal40_check_struct
    <3> HIDE DEF lists
    <3> QED
      BY <3>1
  <2>2. list \in TxLists(d, last, flushed) /\ ~BrokenList(list)
    BY <2>1
  <2> QED
    BY <2>1, <2>2, CheckListMakesSound
<1> QED
  BY <1>1, <1>2

\* the walk from t over the log records s comes back to t
GoodRecords(d, t, s) ==
  /\ IsTxH(d, t) /\ LogRecords(d, t) = EndsAs("good", s)
  /\ Circle(d, t, d[t].next, s) /\ Len(s) =< AreaLen

(* What a good walk came to is log records.                                 *)
LEMMA GoodRecordsAre ==
  ASSUME NEW d \in Devices, NEW t, IsTxH(d, t), LogRecords(d, t).end = "good"
  PROVE  GoodRecords(d, t, LogRecords(d, t).blks)
<1> DEFINE r == LogRecords(d, t)
<1>1. WalkIs(d, t, d[t].next, AreaLen, r)
  BY LogRecordsAre
<1> HIDE DEF r
<1>2. /\ r \in Walks /\ r.end = "good"
      /\ Circle(d, t, d[t].next, r.blks) /\ Len(r.blks) =< AreaLen
  BY <1>1 DEF WalkIs, r
<1>3. r = EndsAs("good", r.blks)
  BY <1>2 DEF Walks, EndsAs
<1> QED
  BY <1>2, <1>3 DEF GoodRecords, r

(* A log record that is visited in a right journal is one.                  *)
LEMMA SoundRecords ==
  ASSUME NEW d \in Devices, NEW list \in Seq(Txs(d)),
         \A k \in 1 .. Len(list) : LogRecords(d, list[k]).end = "good",
         NEW i \in 1 .. Len(Visits(d, list)), Visits(d, list)[i].type = "LGR"
  PROVE  IsLGR(d, Visits(d, list)[i].blk)
<1> DEFINE v == Visits(d, list)  y == v[i]
<1>1. v \in Seq(VisitRecs)
  BY VisitsAre
<1>2. y \in ToSet(v)
  <2> HIDE DEF v
  <2> QED
    BY <1>1, ElementsOf DEF v
<1>3. PICK k \in 1 .. Len(list) : RecordVisitOf(d, y, list[k], LogRecords(d, list[k]).blks)
  BY <1>2, VisitsHave
<1>4. list[k] \in Txs(d)
  BY ElementOfSeq
<1>5. GoodRecords(d, list[k], LogRecords(d, list[k]).blks)
  BY <1>4, GoodRecordsAre DEF Txs
<1> DEFINE s == LogRecords(d, list[k]).blks
<1>6. Circle(d, list[k], d[list[k]].next, s)
  BY <1>5 DEF GoodRecords
<1>7. y.type = "LGR"
  OBVIOUS
<1> HIDE DEF s, y, v
<1>8. PICK m \in 1 .. Len(s) : y = Visit(list[k], s[m], "LGR") \/ PairVisitOf(y, list[k], Entries(d, s[m]))
  BY <1>3 DEF RecordVisitOf, s
<1>9. ~PairVisitOf(y, list[k], Entries(d, s[m]))
  BY <1>7 DEF PairVisitOf, Visit
<1>10. y.blk = s[m]
  BY <1>8, <1>9 DEF Visit
<1>11. IsLGR(d, s[m])
  BY <1>6 DEF Circle
<1> QED
  BY <1>10, <1>11 DEF y, v

(* In a right journal each visit is fine.                                   *)
LEMMA SoundIsFine ==
  ASSUME NEW d \in Devices, NEW list \in Seq(Txs(d)), SoundList(d, list),
         NEW i \in 1 .. Len(Visits(d, list))
  PROVE  FineVisit(d, list, Visits(d, list), i)
<1> DEFINE v == Visits(d, list)
<1>1. v \in Seq(VisitRecs) /\ DOMAIN v = 1 .. Len(v) /\ Len(v) \in Nat
  BY VisitsAre, LenProperties
<1>2. SoundVisits(list, v) /\ \A k \in 1 .. Len(list) : LogRecords(d, list[k]).end = "good"
  BY LenProperties DEF SoundList
<1>3. v[i].type = "LGR" => IsLGR(d, v[i].blk)
  BY <1>2, SoundRecords
<1> HIDE DEF v
<1>4. i \in DOMAIN v
  BY <1>1 DEF v
<1>5. ~Illegal(v[i].blk, v[i].type)
  BY <1>2, <1>4 DEF SoundVisits
<1>6. v[i].type # "ORG" => ~AmongTxH(list, v[i].blk)
  BY <1>2, <1>4 DEF SoundVisits
<1>7. ASSUME NEW j \in 1 .. i - 1, v[j].blk = v[i].blk
      PROVE  v[i].type = "ORG" /\ v[j].tx # v[i].tx
  <2>1. j \in DOMAIN v /\ i # j /\ j < i /\ ~(i < j)
    BY <1>1, <1>4
  <2>2. \/ v[i].type = "ORG" /\ v[j].type = "ORG" /\ v[i].tx # v[j].tx
        \/ v[i].type # "ORG" /\ v[j].type = "ORG" /\ i < j /\ v[i].tx # v[j].tx
        \/ v[j].type # "ORG" /\ v[i].type = "ORG" /\ j < i /\ v[i].tx # v[j].tx
    BY <1>2, <1>4, <1>7, <2>1 DEF SoundVisits
  <2> QED
    BY <2>1, <2>2
<1>8. v[i].type = "ORG" => ~FromTxHOn(list, v[i].tx, v[i].blk)
  BY <1>2, <1>4 DEF SoundVisits
<1>9. ~MetInCurrent(v, i)
  BY <1>7 DEF MetInCurrent
<1>10. MetInJournal(list, v, i) => v[i].type = "ORG"
  BY <1>6, <1>7 DEF MetInJournal
<1>11. FineVisit(d, list, v, i)
  BY <1>3, <1>5, <1>8, <1>9, <1>10 DEF FineVisit
<1> QED
  BY <1>11 DEF v

(* The check finds nothing wrong with a right journal.                      *)
LEMMA SoundStays ==
  ASSUME NEW d \in Devices, NEW last \in Nat, NEW flushed \in Nat, Sound(d, last, flushed),
         NEW r \in journal40_check_struct(d, last, flushed)
  PROVE  r.res = "fine"
<1> DEFINE lists == {list \in TxLists(d, last, flushed) : ~BrokenList(list)}
<1>1. PICK list \in TxLists(d, last, flushed) : SoundList(d, list)
  BY DEF Sound
<1>2. AreChains(TxLists(d, last, flushed), d, last, flushed, AreaLen)
  BY ListsAreChains
<1>3. list \in lists
  BY <1>1 DEF SoundList
<1>4. PICK one \in lists : r \in CheckList(d, last, one)
  <2>1. r \in UNION {CheckList(d, last, list_) : list_ \in lists}
    BY <1>3, Zenon DEF journal40_check_struct
  <2> HIDE DEF lists
  <2> QED
    BY <2>1
<1>5. one = list
  BY <1>2, <1>4 DEF AreChains
<1> DEFINE v == Visits(d, list)  a == CheckVisits(d, list, v)
<1>6. r = CheckedTo(d, last, a)
  BY <1>4, <1>5 DEF CheckList
<1>7. Chain(d, list, last, flushed)
  BY <1>2 DEF AreChains
<1>8. list \in Seq(Txs(d))
  BY <1>7, ChainOfTxs
<1>9. v \in Seq(VisitRecs) /\ Len(v) \in Nat
  BY <1>8, VisitsAre, LenProperties
<1>10. FirstAnswer(a, d, list, v)
  BY <1>9, CheckVisitsIs
<1>11. \A i \in 1 .. Len(v) : cb_journal_sec_check(d, list, v, i) = Fine
  <2> TAKE i \in 1 .. Len(v)
  <2>1. FineVisit(d, list, v, i)
    BY <1>1, <1>8, SoundIsFine
  <2>2. \E k \in 1 .. Len(list) : v[i].tx = list[k]
    BY <1>8, VisitsTx
  <2>3. IsTxH(d, v[i].tx)
    BY <1>7, <2>2 DEF Chain
  <2> HIDE DEF v
  <2>4. Answered(d, list, v, i)
    BY <1>9, <2>3, AnsweredAll
  <2> QED
    BY <2>1, <2>4 DEF Answered
<1>12. a = Fine
  <2> HIDE DEF a, v
  <2> QED
    BY <1>10, <1>11 DEF FirstAnswer
<1> QED
  BY <1>6, <1>12 DEF CheckedTo, Fine

-----------------------------------------------------------------------------
(* Putting blocks in their places *)

\* what replaying the one pair p does to the device
Moved(d, p) == [d EXCEPT ![p.original] = d[p.wandered]]

(* Nothing to be put.                                                       *)
LEMMA PutNone ==
  ASSUME NEW d \in Devices
  PROVE  Put(d, <<>>) = d
<1>1. \A b : About(<<>>, b) = {}
  BY DEF About
<1>2. Put(d, <<>>) = [b \in Blocks |-> d[b]]
  BY <1>1 DEF Put
<1> QED
  BY <1>2 DEF Devices

(* The first pair can be put in its place at once if no later one takes     *)
(* from there.                                                              *)
LEMMA PutFirst ==
  ASSUME NEW d \in Devices, NEW p \in Pairs, NEW q \in Seq(Pairs),
         p.wandered \in Blocks, p.original \in Blocks,
         \A k \in 1 .. Len(q) : q[k].wandered \in Blocks /\ q[k].wandered # p.original
  PROVE  Put(d, <<p>> \o q) = Put(Moved(d, p), q)
<1> DEFINE pq == <<p>> \o q  m == Moved(d, p)  n == Len(q)
<1>1. /\ pq \in Seq(Pairs) /\ Len(pq) = n + 1 /\ pq[1] = p /\ \A k \in 1 .. n : pq[k + 1] = q[k]
      /\ n \in Nat /\ DOMAIN q = 1 .. n
  BY ConsHas, LenProperties
<1>2. DOMAIN pq = 1 .. n + 1
  BY <1>1, LenProperties
<1>3. \A b \in Blocks : m[b] = IF b = p.original THEN d[p.wandered] ELSE d[b]
  BY DEF Moved, Devices
<1> HIDE DEF pq, m, n
<1>4. ASSUME NEW b \in Blocks
      PROVE  (IF About(pq, b) = {} THEN d[b] ELSE d[pq[Max(About(pq, b))].wandered])
             = (IF About(q, b) = {} THEN m[b] ELSE m[q[Max(About(q, b))].wandered])
  <2>1. About(pq, b) \in SUBSET (1 .. n + 1) /\ About(q, b) \in SUBSET (1 .. n)
    BY <1>1, <1>2 DEF About
  <2>2. \A k \in 1 .. n : k \in About(q, b) <=> k + 1 \in About(pq, b)
    BY <1>1, <1>2 DEF About
  <2>3. 1 \in About(pq, b) <=> p.original = b
    BY <1>1, <1>2 DEF About
  <2>4. \A k \in 1 .. n + 1 : k = 1 \/ (k - 1 \in 1 .. n /\ (k - 1) + 1 = k)
    BY <1>1
  <2>5. CASE About(q, b) = {}
    <3>1. About(pq, b) = {} \/ About(pq, b) = {1}
      BY <2>1, <2>2, <2>4, <2>5
    <3>2. CASE p.original = b
      <4>1. About(pq, b) = {1}
        BY <2>3, <3>1, <3>2
      <4>2. Max(About(pq, b)) = 1
        <5> DEFINE e == 1  A == About(pq, b)
        <5>1. A \in SUBSET Int /\ e \in A /\ \A y \in A : y =< e
          BY <4>1
        <5>2. e = 1
          OBVIOUS
        <5> HIDE DEF A, e
        <5>3. Max(A) = e
          BY <5>1, MaxIs
        <5> QED
          BY <5>2, <5>3 DEF A
      <4> QED
        BY <1>1, <1>3, <2>5, <3>2, <4>1, <4>2
    <3>3. CASE p.original # b
      <4>1. About(pq, b) = {}
        BY <2>3, <3>1, <3>3
      <4> QED
        BY <1>3, <2>5, <3>3, <4>1
    <3> QED
      BY <3>2, <3>3
  <2>6. CASE About(q, b) # {}
    <3> DEFINE k == Max(About(q, b))
    <3>1. About(q, b) \in SUBSET Nat /\ \A y \in About(q, b) : y =< n
      BY <1>1, <2>1
    <3>2. k \in About(q, b) /\ \A y \in About(q, b) : y =< k
      BY <1>1, <2>6, <3>1, MaxExists
    <3> HIDE DEF k
    <3>3. k \in 1 .. n /\ k + 1 \in About(pq, b)
      BY <2>1, <2>2, <3>2
    <3>4. \A y \in About(pq, b) : y =< k + 1
      <4> TAKE y \in About(pq, b)
      <4>1. y = 1 \/ y - 1 \in About(q, b)
        BY <2>1, <2>2, <2>4
      <4> QED
        BY <1>1, <2>1, <3>2, <3>3, <4>1
    <3>5. About(pq, b) \in SUBSET Int /\ About(pq, b) # {}
      BY <2>1, <3>3
    <3> DEFINE k1 == k + 1
    <3>6. Max(About(pq, b)) = k1
      <4>1. k1 \in About(pq, b) /\ \A y \in About(pq, b) : y =< k1
        BY <3>3, <3>4
      <4> HIDE DEF k1
      <4> QED
        BY <3>5, <4>1, MaxIs
    <3>7. pq[k1] = q[k]
      BY <1>1, <3>3
    <3>8. q[k].wandered \in Blocks /\ q[k].wandered # p.original
      BY <3>3 DEF n
    <3>9. m[q[k].wandered] = d[q[k].wandered]
      BY <1>3, <3>8
    <3> HIDE DEF k1
    <3> QED
      BY <2>6, <3>5, <3>6, <3>7, <3>9 DEF k
  <2> QED
    BY <2>5, <2>6
<1>5. Put(d, pq) = Put(m, q)
  BY <1>4, Zenon DEF Put
<1> QED
  BY <1>5 DEF pq, m

(* What replaying is to make of the device.                                 *)
LEMMA ReplayedIs ==
  ASSUME NEW d, NEW list
  PROVE  Replayed(d, list) = Put(d, AllPairs(d, list))
<1>1. {Put(d, ps) : ps \in {AllPairs(d, list)}} = {Put(d, AllPairs(d, list))}
  OBVIOUS
<1> QED
  BY <1>1 DEF Replayed

-----------------------------------------------------------------------------
(* What is left of the traversal *)

\* what the traversal still comes to: the pairs ps and the log records s of
\* the transaction t, and the transactions rest
Todo(d, t, ps, s, rest) == PairsVisits(t, ps) \o (RecordsVisits(d, t, s) \o Visits(d, rest))

\* the pairs it still replays
Left(d, ps, s, rest) == ps \o (PairsIn(d, s) \o AllPairs(d, rest))

\* The visits v can be made one by one, replaying pairs: what is read was not
\* written before, and no transaction header of list is written.
Safe(list, v) ==
  /\ \A i \in 1 .. Len(v) : v[i].blk \in Blocks
  /\ \A i, j \in 1 .. Len(v) : i < j /\ v[i].type = "ORG" /\ v[j].type # "ORG" => v[i].blk # v[j].blk
  /\ \A i \in 1 .. Len(v) : v[i].type = "ORG" => ~FromTxHOn(list, v[i].tx, v[i].blk)

(* A right list of transactions can be replayed.                            *)
LEMMA SoundIsSafe ==
  ASSUME NEW d \in Devices, NEW list \in Seq(Txs(d)), SoundList(d, list)
  PROVE  Safe(list, Visits(d, list))
<1> DEFINE v == Visits(d, list)
<1>1. v \in Seq(VisitRecs) /\ DOMAIN v = 1 .. Len(v) /\ Len(v) \in Nat
  BY VisitsAre, LenProperties
<1>2. SoundVisits(list, v)
  BY DEF SoundList
<1> HIDE DEF v
<1>3. \A b, e : ~Illegal(b, e) => b \in Blocks
  BY JournalConstants DEF Illegal, Blocks
<1>4. \A i \in 1 .. Len(v) : v[i].blk \in Blocks
  BY <1>1, <1>2, <1>3 DEF SoundVisits
<1>5. \A i \in 1 .. Len(v) : v[i].type = "ORG" => ~FromTxHOn(list, v[i].tx, v[i].blk)
  BY <1>1, <1>2 DEF SoundVisits
<1>6. ASSUME NEW i \in 1 .. Len(v), NEW j \in 1 .. Len(v),
             i < j, v[i].type = "ORG", v[j].type # "ORG", v[i].blk = v[j].blk
      PROVE  FALSE
  <2>1. i \in DOMAIN v /\ j \in DOMAIN v /\ i # j /\ ~(j < i)
    BY <1>1, <1>6
  <2>2. \/ v[i].type = "ORG" /\ v[j].type = "ORG" /\ v[i].tx # v[j].tx
        \/ v[i].type # "ORG" /\ v[j].type = "ORG" /\ i < j /\ v[i].tx # v[j].tx
        \/ v[j].type # "ORG" /\ v[i].type = "ORG" /\ j < i /\ v[i].tx # v[j].tx
    BY <1>2, <1>6, <2>1 DEF SoundVisits
  <2> QED
    BY <1>6, <2>1, <2>2
<1>7. Safe(list, v)
  BY <1>4, <1>5, <1>6 DEF Safe
<1> QED
  BY <1>7 DEF v

(* So can the rest of the visits.                                           *)
LEMMA SafeDrop ==
  ASSUME NEW list, NEW x \in Seq(VisitRecs), NEW v \in Seq(VisitRecs), Safe(list, x \o v)
  PROVE  Safe(list, v)
<1> DEFINE xv == x \o v  m == Len(x)  n == Len(v)
<1>1. m \in Nat /\ n \in Nat /\ Len(xv) = m + n
  BY ConcatProperties, LenProperties
<1>2. \A k \in 1 .. n : xv[m + k] = v[k]
  <2>1. \A k \in 1 .. m + n : xv[k] = IF k <= m THEN x[k] ELSE v[k - m]
    BY ConcatProperties
  <2> HIDE DEF xv, m, n
  <2> TAKE k \in 1 .. n
  <2>2. m + k \in 1 .. m + n /\ ~(m + k <= m) /\ (m + k) - m = k
    BY <1>1
  <2> QED
    BY <2>1, <2>2
<1>3. Safe(list, xv)
  OBVIOUS
<1> HIDE DEF xv, m
<1>4. \A k \in 1 .. n : m + k \in 1 .. Len(xv)
  BY <1>1
<1>5. \A i, j \in 1 .. n : i < j => m + i < m + j
  BY <1>1
<1>6. \A i \in 1 .. n : v[i].blk \in Blocks
  BY <1>2, <1>3, <1>4 DEF Safe
<1>7. \A i \in 1 .. n : v[i].type = "ORG" => ~FromTxHOn(list, v[i].tx, v[i].blk)
  BY <1>2, <1>3, <1>4 DEF Safe
<1>8. ASSUME NEW i \in 1 .. n, NEW j \in 1 .. n, i < j, v[i].type = "ORG", v[j].type # "ORG"
      PROVE  v[i].blk # v[j].blk
  <2>1. /\ m + i \in 1 .. Len(xv) /\ m + j \in 1 .. Len(xv) /\ m + i < m + j
        /\ xv[m + i].type = "ORG" /\ xv[m + j].type # "ORG"
    BY <1>2, <1>4, <1>5, <1>8
  <2>2. xv[m + i].blk # xv[m + j].blk
    BY <1>3, <2>1 DEF Safe
  <2> QED
    BY <1>2, <2>2
<1> QED
  BY <1>6, <1>7, <1>8 DEF Safe

(* A shorter list of transactions has fewer headers.                        *)
LEMMA SafeTail ==
  ASSUME NEW S, NEW list \in Seq(S), list # <<>>, NEW v, Safe(list, v)
  PROVE  Safe(Tail(list), v)
<1> DEFINE rest == Tail(list)
<1>1. rest \in Seq(S) /\ Len(rest) = Len(list) - 1 /\ \A i \in 1 .. Len(rest) : rest[i] = list[i + 1]
  BY HeadTailProperties
<1>2. DOMAIN rest = 1 .. Len(rest) /\ DOMAIN list = 1 .. Len(list) /\ Len(list) \in Nat
  BY <1>1, LenProperties
<1> HIDE DEF rest
<1>3. \A t, b : FromTxHOn(rest, t, b) => FromTxHOn(list, t, b)
  <2> TAKE t, b
  <2> HAVE FromTxHOn(rest, t, b)
  <2>1. PICK j \in 1 .. Len(rest), k \in 1 .. Len(rest) : rest[j] = t /\ rest[k] = b /\ j =< k
    BY <1>2 DEF FromTxHOn
  <2>2. j + 1 \in DOMAIN list /\ k + 1 \in DOMAIN list /\ j + 1 =< k + 1
    BY <1>1, <1>2, <2>1
  <2>3. list[j + 1] = t /\ list[k + 1] = b
    BY <1>1, <2>1
  <2> QED
    BY <2>2, <2>3 DEF FromTxHOn
<1>4. Safe(rest, v)
  BY <1>3 DEF Safe
<1> QED
  BY <1>4 DEF rest

\* what is known when the pair p of the transaction t is replayed before v
SafePair(list, t, p, v) ==
  /\ p.wandered \in Blocks /\ p.original \in Blocks
  /\ \A y \in ToSet(v) : y.blk \in Blocks
  /\ \A y \in ToSet(v) : y.type # "ORG" => y.blk # p.original
  /\ ~FromTxHOn(list, t, p.original)

(* The next two visits are those of a pair.                                 *)
LEMMA SafeFirst ==
  ASSUME NEW list, NEW t \in Nat, NEW p \in Pairs, NEW v \in Seq(VisitRecs),
         Safe(list, PairVisits(t, p) \o v)
  PROVE  SafePair(list, t, p, v)
<1> DEFINE a == Visit(t, p.wandered, "WAN")  e == Visit(t, p.original, "ORG")  x == <<a, e>>
           xv == x \o v  n == Len(v)
<1>1. a \in VisitRecs /\ e \in VisitRecs /\ a.blk = p.wandered /\ e.blk = p.original
      /\ e.type = "ORG" /\ e.tx = t
  BY DEF Visit, VisitRecs, Pairs
<1>2. x \in Seq(VisitRecs) /\ Len(x) = 2 /\ x[1] = a /\ x[2] = e
  <2> HIDE DEF a, e
  <2> QED
    BY <1>1
<1>3. Safe(list, xv)
  BY DEF PairVisits
<1> HIDE DEF a, e, x
<1>4. n \in Nat /\ Len(xv) = 2 + n /\ \A k \in 1 .. 2 + n : xv[k] = IF k <= 2 THEN x[k] ELSE v[k - 2]
  <2>1. n \in Nat
    BY LenProperties
  <2>2. /\ Len(xv) = Len(x) + n
        /\ \A k \in 1 .. Len(x) + n : xv[k] = IF k <= Len(x) THEN x[k] ELSE v[k - Len(x)]
    BY <1>2, ConcatProperties
  <2> HIDE DEF xv, n
  <2> QED
    BY <1>2, <2>1, <2>2
<1>5. xv[1] = a /\ xv[2] = e /\ \A k \in 1 .. n : xv[k + 2] = v[k]
  BY <1>2, <1>4
<1>6. 1 \in 1 .. Len(xv) /\ 2 \in 1 .. Len(xv) /\ \A k \in 1 .. n : k + 2 \in 1 .. Len(xv) /\ 2 < k + 2
  BY <1>4
<1> HIDE DEF xv, n
<1>7. a.blk \in Blocks /\ e.blk \in Blocks
  BY <1>3, <1>5, <1>6 DEF Safe
<1>8. ~FromTxHOn(list, t, p.original)
  BY <1>1, <1>3, <1>5, <1>6 DEF Safe
<1>9. \A k \in 1 .. n : v[k].blk \in Blocks
  BY <1>3, <1>5, <1>6 DEF Safe
<1>10. ASSUME NEW k \in 1 .. n, v[k].type # "ORG" PROVE v[k].blk # p.original
  <2>1. xv[2].type = "ORG" /\ xv[k + 2].type # "ORG" /\ 2 < k + 2
    BY <1>1, <1>5, <1>6, <1>10
  <2>2. xv[2].blk # xv[k + 2].blk
    BY <1>3, <1>6, <2>1 DEF Safe
  <2> QED
    BY <1>1, <1>5, <2>2
<1>11. \A y \in ToSet(v) : \E k \in 1 .. n : y = v[k]
  BY ElementsOf DEF n
<1> QED
  BY <1>1, <1>7, <1>8, <1>9, <1>10, <1>11 DEF SafePair

(* Nothing to come to.                                                      *)
LEMMA NothingLeft ==
  ASSUME NEW d, NEW t
  PROVE  /\ PairsVisits(t, <<>>) = <<>> /\ RecordsVisits(d, t, <<>>) = <<>> /\ Visits(d, <<>>) = <<>>
         /\ PairsIn(d, <<>>) = <<>> /\ AllPairs(d, <<>>) = <<>>
<1>1. \A f : FlattenSeq([k \in DOMAIN <<>> |-> f[k]]) = <<>>
  <2> TAKE f
  <2>1. [k \in DOMAIN <<>> |-> f[k]] = <<>>
    OBVIOUS
  <2> QED
    BY <2>1, FlatEmpty
<1>2. [i \in DOMAIN <<>> |-> PairVisits(t, <<>>[i])] = <<>>
  OBVIOUS
<1>3. [k \in DOMAIN <<>> |-> RecordVisits(d, t, <<>>[k])] = <<>>
  OBVIOUS
<1>4. [k \in DOMAIN <<>> |-> TransVisits(d, <<>>[k])] = <<>>
  OBVIOUS
<1>5. [k \in DOMAIN <<>> |-> Entries(d, <<>>[k])] = <<>>
  OBVIOUS
<1>6. [k \in DOMAIN <<>> |-> PairsIn(d, LogRecords(d, <<>>[k]).blks)] = <<>>
  OBVIOUS
<1> QED
  BY <1>2, <1>3, <1>4, <1>5, <1>6, FlatEmpty DEF PairsVisits, RecordsVisits, Visits, PairsIn, AllPairs

(* The visits of a pair come before those of the later pairs, ...           *)
LEMMA PairsVisitsCons ==
  ASSUME NEW t \in Nat, NEW ps \in Seq(Pairs), ps # <<>>
  PROVE  PairsVisits(t, ps) = PairVisits(t, ps[1]) \o PairsVisits(t, Tail(ps))
<1>1. ps[1] \in Pairs /\ Tail(ps) \in Seq(Pairs)
  BY ConsOf
<1>2. /\ PairPieces(t) \in [Pairs -> Seq(VisitRecs)]
      /\ PairsVisits(t, ps) = FlatMap(PairPieces(t), ps)
      /\ PairsVisits(t, Tail(ps)) = FlatMap(PairPieces(t), Tail(ps))
  BY <1>1, PairsVisitsAre
<1>3. FlatMap(PairPieces(t), ps) = PairPieces(t)[ps[1]] \o FlatMap(PairPieces(t), Tail(ps))
  BY <1>2, FlatMapCons
<1>4. PairPieces(t)[ps[1]] = PairVisits(t, ps[1])
  BY <1>1 DEF PairPieces
<1> QED
  BY <1>2, <1>3, <1>4

(* ... those of a record before those of the later records, ...             *)
LEMMA RecordsVisitsCons ==
  ASSUME NEW d \in Devices, NEW t \in Nat, NEW s \in Seq(Nat), s # <<>>
  PROVE  RecordsVisits(d, t, s) = RecordVisits(d, t, s[1]) \o RecordsVisits(d, t, Tail(s))
<1>1. s[1] \in Nat /\ Tail(s) \in Seq(Nat)
  BY ConsOf
<1>2. /\ RecordPieces(d, t) \in [Nat -> Seq(VisitRecs)]
      /\ RecordsVisits(d, t, s) = FlatMap(RecordPieces(d, t), s)
      /\ RecordsVisits(d, t, Tail(s)) = FlatMap(RecordPieces(d, t), Tail(s))
  BY <1>1, RecordsVisitsAre
<1>3. FlatMap(RecordPieces(d, t), s) = RecordPieces(d, t)[s[1]] \o FlatMap(RecordPieces(d, t), Tail(s))
  BY <1>2, FlatMapCons
<1>4. RecordPieces(d, t)[s[1]] = RecordVisits(d, t, s[1])
  BY <1>1 DEF RecordPieces
<1> QED
  BY <1>2, <1>3, <1>4

(* ... and those of a transaction before those of the later ones.           *)
LEMMA VisitsCons ==
  ASSUME NEW d \in Devices, NEW list \in Seq(Txs(d)), list # <<>>
  PROVE  Visits(d, list) = TransVisits(d, list[1]) \o Visits(d, Tail(list))
<1>1. list[1] \in Txs(d) /\ Tail(list) \in Seq(Txs(d))
  BY ConsOf
<1>2. /\ TransPieces(d) \in [Txs(d) -> Seq(VisitRecs)]
      /\ Visits(d, list) = FlatMap(TransPieces(d), list)
      /\ Visits(d, Tail(list)) = FlatMap(TransPieces(d), Tail(list))
  BY <1>1, VisitsAre
<1>3. FlatMap(TransPieces(d), list) = TransPieces(d)[list[1]] \o FlatMap(TransPieces(d), Tail(list))
  BY <1>2, FlatMapCons
<1>4. TransPieces(d)[list[1]] = TransVisits(d, list[1])
  BY <1>1 DEF TransPieces
<1> QED
  BY <1>2, <1>3, <1>4

(* The pairs come in the same order.                                        *)
LEMMA PairsInCons ==
  ASSUME NEW d \in Devices, NEW s \in Seq(Nat), s # <<>>
  PROVE  PairsIn(d, s) = Entries(d, s[1]) \o PairsIn(d, Tail(s))
<1>1. s[1] \in Nat /\ Tail(s) \in Seq(Nat)
  BY ConsOf
<1>2. /\ EntryPieces(d) \in [Nat -> Seq(Pairs)]
      /\ PairsIn(d, s) = FlatMap(EntryPieces(d), s)
      /\ PairsIn(d, Tail(s)) = FlatMap(EntryPieces(d), Tail(s))
  BY <1>1, PairsInAre
<1>3. FlatMap(EntryPieces(d), s) = EntryPieces(d)[s[1]] \o FlatMap(EntryPieces(d), Tail(s))
  BY <1>2, FlatMapCons
<1>4. EntryPieces(d)[s[1]] = Entries(d, s[1])
  BY <1>1 DEF EntryPieces
<1> QED
  BY <1>2, <1>3, <1>4

(* So do those of the transactions.                                         *)
LEMMA AllPairsCons ==
  ASSUME NEW d \in Devices, NEW list \in Seq(Txs(d)), list # <<>>
  PROVE  AllPairs(d, list) = PairsIn(d, LogRecords(d, list[1]).blks) \o AllPairs(d, Tail(list))
<1>1. list[1] \in Txs(d) /\ Tail(list) \in Seq(Txs(d))
  BY ConsOf
<1>2. /\ PairsPieces(d) \in [Txs(d) -> Seq(Pairs)]
      /\ AllPairs(d, list) = FlatMap(PairsPieces(d), list)
      /\ AllPairs(d, Tail(list)) = FlatMap(PairsPieces(d), Tail(list))
  BY <1>1, AllPairsAre
<1>3. FlatMap(PairsPieces(d), list) = PairsPieces(d)[list[1]] \o FlatMap(PairsPieces(d), Tail(list))
  BY <1>2, FlatMapCons
<1>4. PairsPieces(d)[list[1]] = PairsIn(d, LogRecords(d, list[1]).blks)
  BY <1>1 DEF PairsPieces
<1> QED
  BY <1>2, <1>3, <1>4

\* the parts of Todo and Left are sequences
LeftTyped(d, t, ps, s, rest) ==
  /\ PairsVisits(t, ps) \in Seq(VisitRecs) /\ RecordsVisits(d, t, s) \in Seq(VisitRecs)
  /\ Visits(d, rest) \in Seq(VisitRecs) /\ RecordsVisits(d, t, s) \o Visits(d, rest) \in Seq(VisitRecs)
  /\ Todo(d, t, ps, s, rest) \in Seq(VisitRecs)
  /\ PairsIn(d, s) \in Seq(Pairs) /\ AllPairs(d, rest) \in Seq(Pairs)
  /\ PairsIn(d, s) \o AllPairs(d, rest) \in Seq(Pairs) /\ Left(d, ps, s, rest) \in Seq(Pairs)

(* Sequences follow one another.                                            *)
LEMMA LeftType ==
  ASSUME NEW d \in Devices, NEW t \in Nat, NEW ps \in Seq(Pairs), NEW s \in Seq(Nat), NEW rest \in Seq(Txs(d))
  PROVE  LeftTyped(d, t, ps, s, rest)
<1>1. PairsVisits(t, ps) \in Seq(VisitRecs) /\ RecordsVisits(d, t, s) \in Seq(VisitRecs)
  BY PairsVisitsAre, RecordsVisitsAre
<1>2. Visits(d, rest) \in Seq(VisitRecs)
  BY VisitsAre
<1>3. PairsIn(d, s) \in Seq(Pairs) /\ AllPairs(d, rest) \in Seq(Pairs)
  BY PairsInAre, AllPairsAre
<1>4. \A S : \A x, z \in Seq(S) : x \o z \in Seq(S)
  OBVIOUS
<1>5. RecordsVisits(d, t, s) \o Visits(d, rest) \in Seq(VisitRecs) /\ PairsIn(d, s) \o AllPairs(d, rest) \in Seq(Pairs)
  BY <1>1, <1>2, <1>3, <1>4, Zenon
<1>6. Todo(d, t, ps, s, rest) \in Seq(VisitRecs) /\ Left(d, ps, s, rest) \in Seq(Pairs)
  BY <1>1, <1>4, <1>5, Zenon DEF Todo, Left
<1> QED
  BY <1>1, <1>2, <1>3, <1>5, <1>6, Zenon DEF LeftTyped

(* What is left when a pair has been replayed.                              *)
LEMMA PairDone ==
  ASSUME NEW d \in Devices, NEW t \in Nat, NEW ps \in Seq(Pairs), ps # <<>>, NEW s \in Seq(Nat),
         NEW rest \in Seq(Txs(d))
  PROVE  /\ Todo(d, t, ps, s, rest) = PairVisits(t, ps[1]) \o Todo(d, t, Tail(ps), s, rest)
         /\ Left(d, ps, s, rest) = <<ps[1]>> \o Left(d, Tail(ps), s, rest)
         /\ PairVisits(t, ps[1]) \in Seq(VisitRecs)
<1>1. ps = <<ps[1]>> \o Tail(ps) /\ ps[1] \in Pairs /\ Tail(ps) \in Seq(Pairs)
  BY ConsOf
<1>2. LeftTyped(d, t, Tail(ps), s, rest)
  BY <1>1, LeftType
<1>3. PairVisits(t, ps[1]) \in Seq(VisitRecs)
  <2>1. PairPieces(t)[ps[1]] \in Seq(VisitRecs)
    BY <1>1, PairsVisitsAre, Zenon
  <2> QED
    BY <1>1, <2>1 DEF PairPieces
<1>4. PairsVisits(t, ps) = PairVisits(t, ps[1]) \o PairsVisits(t, Tail(ps))
  BY PairsVisitsCons
<1>6. <<ps[1]>> \in Seq(Pairs)
  BY <1>1
<1>7. Todo(d, t, ps, s, rest) = PairVisits(t, ps[1]) \o Todo(d, t, Tail(ps), s, rest)
  <2> DEFINE a == PairVisits(t, ps[1])  u == PairsVisits(t, Tail(ps))  r == RecordsVisits(d, t, s) \o Visits(d, rest)
  <2>1. a \in Seq(VisitRecs) /\ u \in Seq(VisitRecs) /\ r \in Seq(VisitRecs)
    BY <1>2, <1>3, Zenon DEF LeftTyped
  <2>2. PairsVisits(t, ps) = a \o u
    BY <1>4
  <2> HIDE DEF a, u, r
  <2>3. (a \o u) \o r = a \o (u \o r)
    <3>1. SeqsAssociate(VisitRecs)
      BY SeqsJoin
    <3> QED
      BY <2>1, <3>1, Zenon DEF SeqsAssociate
  <2>4. PairsVisits(t, ps) \o r = a \o (u \o r)
    BY <2>2, <2>3
  <2> QED
    BY <2>4, Zenon DEF Todo, a, u, r
<1>8. Left(d, ps, s, rest) = <<ps[1]>> \o Left(d, Tail(ps), s, rest)
  <2> DEFINE h == <<ps[1]>>  u == Tail(ps)
  <2>1. h \in Seq(Pairs) /\ u \in Seq(Pairs)
    BY <1>1, <1>6
  <2>5. ps = h \o u
    BY <1>1
  <2> DEFINE r == PairsIn(d, s) \o AllPairs(d, rest)
  <2>2. r \in Seq(Pairs)
    BY <1>2 DEF LeftTyped
  <2> HIDE DEF h, u, r
  <2>3. (h \o u) \o r = h \o (u \o r)
    <3>1. SeqsAssociate(Pairs)
      BY SeqsJoin
    <3> QED
      BY <2>1, <2>2, <3>1, Zenon DEF SeqsAssociate
  <2>4. ps \o r = h \o (u \o r)
    BY <2>3, <2>5
  <2> QED
    BY <2>4, Zenon DEF Left, h, u, r
<1> QED
  BY <1>3, <1>7, <1>8

(* What is left when a log record has been loaded.                          *)
LEMMA RecordLoaded ==
  ASSUME NEW d \in Devices, NEW t \in Nat, NEW s \in Seq(Nat), s # <<>>, NEW rest \in Seq(Txs(d))
  PROVE  /\ Todo(d, t, <<>>, s, rest)
              = <<Visit(t, s[1], "LGR")>> \o Todo(d, t, Entries(d, s[1]), Tail(s), rest)
         /\ Left(d, <<>>, s, rest) = Left(d, Entries(d, s[1]), Tail(s), rest)
         /\ <<Visit(t, s[1], "LGR")>> \in Seq(VisitRecs)
<1> DEFINE e == Entries(d, s[1])  h == <<Visit(t, s[1], "LGR")>>
<1>1. s[1] \in Nat /\ Tail(s) \in Seq(Nat)
  BY ConsOf
<1>2. e \in Seq(Pairs)
  BY EntriesAre
<1>3. h \in Seq(VisitRecs)
  <2>1. Visit(t, s[1], "LGR") \in VisitRecs
    BY <1>1 DEF Visit, VisitRecs
  <2> QED
    BY <2>1
<1>4. LeftTyped(d, t, e, Tail(s), rest)
  BY <1>1, <1>2, LeftType
<1>5. RecordsVisits(d, t, s) = (h \o PairsVisits(t, e)) \o RecordsVisits(d, t, Tail(s))
  BY RecordsVisitsCons DEF RecordVisits
<1>6. PairsIn(d, s) = e \o PairsIn(d, Tail(s))
  BY PairsInCons
<1>7. Todo(d, t, <<>>, s, rest) = h \o Todo(d, t, e, Tail(s), rest)
  <2> DEFINE a == PairsVisits(t, e)  u == RecordsVisits(d, t, Tail(s))  r == Visits(d, rest)
  <2>1. a \in Seq(VisitRecs) /\ u \in Seq(VisitRecs) /\ r \in Seq(VisitRecs)
    BY <1>4, Zenon DEF LeftTyped
  <2>2. RecordsVisits(d, t, s) = (h \o a) \o u
    BY <1>5
  <2> HIDE DEF a, u, r, h, e
  <2>3. ((h \o a) \o u) \o r = h \o (a \o (u \o r))
    <3>1. FourJoined(h, a, u, r)
      BY <1>3, <2>1, JoinFour, Zenon
    <3> QED
      BY <3>1, Zenon DEF FourJoined
  <2>4. <<>> \o (RecordsVisits(d, t, s) \o r) = h \o (a \o (u \o r))
    <3>1. RecordsVisits(d, t, s) \o r \in Seq(VisitRecs)
      BY <2>1, RecordsVisitsAre
    <3>2. <<>> \o (RecordsVisits(d, t, s) \o r) = RecordsVisits(d, t, s) \o r
      BY <3>1, ConcatEmptySeq
    <3> QED
      BY <2>2, <2>3, <3>2
  <2>5. Todo(d, t, <<>>, s, rest) = <<>> \o (RecordsVisits(d, t, s) \o r)
    BY NothingLeft, Zenon DEF Todo, r
  <2>6. Todo(d, t, e, Tail(s), rest) = a \o (u \o r)
    BY Zenon DEF Todo, a, u, r
  <2> QED
    BY <2>4, <2>5, <2>6
<1>8. Left(d, <<>>, s, rest) = Left(d, e, Tail(s), rest)
  <2> DEFINE u == PairsIn(d, Tail(s))  r == AllPairs(d, rest)
  <2>1. u \in Seq(Pairs) /\ r \in Seq(Pairs)
    BY <1>4, Zenon DEF LeftTyped
  <2>2. PairsIn(d, s) = e \o u
    BY <1>6
  <2> HIDE DEF u, r, h, e
  <2>3. <<>> \o ((e \o u) \o r) = e \o (u \o r)
    <3>1. JoinsAfterNone(Pairs)
      BY JoinAfterNone
    <3>2. e \in Seq(Pairs)
      BY <1>2, Zenon
    <3> QED
      BY <2>1, <3>1, <3>2, Zenon DEF JoinsAfterNone
  <2>4. Left(d, <<>>, s, rest) = <<>> \o ((e \o u) \o r)
    BY <2>2, Zenon DEF Left, r
  <2>5. Left(d, e, Tail(s), rest) = e \o (u \o r)
    BY Zenon DEF Left, u, r
  <2> QED
    BY <2>3, <2>4, <2>5
<1> QED
  BY <1>3, <1>7, <1>8

(* What is left when a transaction has been replayed.                       *)
LEMMA TransactionDone ==
  ASSUME NEW d \in Devices, NEW t \in Nat, NEW rest \in Seq(Txs(d)), rest # <<>>
  PROVE  /\ Todo(d, t, <<>>, <<>>, rest)
              = Todo(d, rest[1], <<>>, LogRecords(d, rest[1]).blks, Tail(rest))
         /\ Left(d, <<>>, <<>>, rest) = Left(d, <<>>, LogRecords(d, rest[1]).blks, Tail(rest))
<1> DEFINE b == LogRecords(d, rest[1]).blks
<1>1. rest[1] \in Txs(d) /\ Tail(rest) \in Seq(Txs(d))
  BY ConsOf
<1>2. b \in Seq(Nat) /\ rest[1] \in Nat
  BY <1>1, RecordBlocks, TxsNat DEF Txs
<1>3. <<>> \in Seq(Pairs) /\ <<>> \in Seq(Nat)
  OBVIOUS
<1>4. LeftTyped(d, t, <<>>, <<>>, rest)
  BY <1>3, LeftType
<1>5. LeftTyped(d, rest[1], <<>>, b, Tail(rest))
  BY <1>1, <1>2, <1>3, LeftType
<1>7. Visits(d, rest) = RecordsVisits(d, rest[1], b) \o Visits(d, Tail(rest))
  BY VisitsCons DEF TransVisits
<1>8. AllPairs(d, rest) = PairsIn(d, b) \o AllPairs(d, Tail(rest))
  BY AllPairsCons
<1>9. Todo(d, t, <<>>, <<>>, rest) = Todo(d, rest[1], <<>>, b, Tail(rest))
  <2> DEFINE x == RecordsVisits(d, rest[1], b) \o Visits(d, Tail(rest))
  <2>1. x \in Seq(VisitRecs)
    BY <1>5, Zenon DEF LeftTyped
  <2>2. Visits(d, rest) = x
    BY <1>7
  <2> HIDE DEF x, b
  <2>3. <<>> \o x = x
    BY <2>1, ConcatEmptySeq
  <2>4. Todo(d, t, <<>>, <<>>, rest) = <<>> \o (<<>> \o x)
    BY <2>2, NothingLeft, Zenon DEF Todo
  <2>5. Todo(d, rest[1], <<>>, b, Tail(rest)) = <<>> \o x
    BY NothingLeft, Zenon DEF Todo, x
  <2> QED
    BY <2>3, <2>4, <2>5
<1>10. Left(d, <<>>, <<>>, rest) = Left(d, <<>>, b, Tail(rest))
  <2> DEFINE x == PairsIn(d, b) \o AllPairs(d, Tail(rest))
  <2>1. x \in Seq(Pairs)
    BY <1>5, Zenon DEF LeftTyped
  <2>2. AllPairs(d, rest) = x
    BY <1>8
  <2> HIDE DEF x, b
  <2>3. <<>> \o x = x
    BY <2>1, ConcatEmptySeq
  <2>4. Left(d, <<>>, <<>>, rest) = <<>> \o (<<>> \o x)
    BY <2>2, NothingLeft, Zenon DEF Left
  <2>5. Left(d, <<>>, b, Tail(rest)) = <<>> \o x
    BY Zenon DEF Left, x
  <2> QED
    BY <2>3, <2>4, <2>5
<1> QED
  BY <1>9, <1>10

(* The wandered block of every pair left is still to be visited.            *)
LEMMA LeftWandered ==
  ASSUME NEW d \in Devices, NEW t \in Nat, NEW ps \in Seq(Pairs), NEW s \in Seq(Nat), NEW rest \in Seq(Txs(d)),
         NEW q \in ToSet(Left(d, ps, s, rest))
  PROVE  \E y \in ToSet(Todo(d, t, ps, s, rest)) : y.type = "WAN" /\ y.blk = q.wandered
<1> DEFINE w(t_) == Visit(t_, q.wandered, "WAN")
<1>1. \A t_ : w(t_).type = "WAN" /\ w(t_).blk = q.wandered
  BY DEF Visit
<1>2. LeftTyped(d, t, ps, s, rest)
  BY LeftType
<1>3. \/ q \in ToSet(ps) \/ q \in ToSet(PairsIn(d, s)) \/ q \in ToSet(AllPairs(d, rest))
  <2> DEFINE x == PairsIn(d, s)  z == AllPairs(d, rest)
  <2>1. x \in Seq(Pairs) /\ z \in Seq(Pairs) /\ x \o z \in Seq(Pairs)
    BY <1>2, Zenon DEF LeftTyped
  <2>2. q \in ToSet(ps \o (x \o z))
    BY Zenon DEF Left
  <2> HIDE DEF x, z
  <2>3. q \in ToSet(ps) \/ q \in ToSet(x \o z)
    BY <2>1, <2>2, ConcatElements
  <2>4. q \in ToSet(x \o z) => q \in ToSet(x) \/ q \in ToSet(z)
    BY <2>1, ConcatElements
  <2> QED
    BY <2>3, <2>4 DEF x, z
<1>4. \A y : y \in ToSet(Todo(d, t, ps, s, rest)) <=>
        \/ y \in ToSet(PairsVisits(t, ps)) \/ y \in ToSet(RecordsVisits(d, t, s)) \/ y \in ToSet(Visits(d, rest))
  <2> DEFINE a == PairsVisits(t, ps)  u == RecordsVisits(d, t, s)  r == Visits(d, rest)
  <2>1. a \in Seq(VisitRecs) /\ u \in Seq(VisitRecs) /\ r \in Seq(VisitRecs) /\ u \o r \in Seq(VisitRecs)
    BY <1>2, Zenon DEF LeftTyped
  <2>2. Todo(d, t, ps, s, rest) = a \o (u \o r)
    BY Zenon DEF Todo
  <2> HIDE DEF a, u, r
  <2>3. \A x_, z_ \in Seq(VisitRecs) : \A y : y \in ToSet(x_ \o z_) <=> y \in ToSet(x_) \/ y \in ToSet(z_)
    BY ConcatElements
  <2>4. \A y : y \in ToSet(a \o (u \o r)) <=> y \in ToSet(a) \/ y \in ToSet(u) \/ y \in ToSet(r)
    BY <2>1, <2>3, Zenon
  <2> QED
    BY <2>2, <2>4, Zenon DEF a, u, r
<1>5. \A s_ \in Seq(Nat) : q \in ToSet(PairsIn(d, s_)) => \E k \in 1 .. Len(s_) : q \in ToSet(Entries(d, s_[k]))
  <2> TAKE s_ \in Seq(Nat)
  <2> HAVE q \in ToSet(PairsIn(d, s_))
  <2>1. EntryPieces(d) \in [Nat -> Seq(Pairs)] /\ PairsIn(d, s_) = FlatMap(EntryPieces(d), s_)
    BY PairsInAre
  <2>2. PICK k \in 1 .. Len(s_) : q \in ToSet(EntryPieces(d)[s_[k]])
    BY <2>1, FlatMapElements
  <2>3. s_[k] \in Nat
    OBVIOUS
  <2> QED
    BY <2>2, <2>3 DEF EntryPieces
<1> HIDE DEF w
<1>6. \A t_, s_ : (\E k \in 1 .. Len(s_) : q \in ToSet(Entries(d, s_[k]))) => RecordVisitOf(d, w(t_), t_, s_)
  BY DEF RecordVisitOf, PairVisitOf, w
<1>7. CASE q \in ToSet(ps)
  <2>1. w(t) \in ToSet(PairsVisits(t, ps))
    BY <1>7, PairsVisitsHave DEF PairVisitOf, w
  <2> QED
    BY <1>1, <1>4, <2>1
<1>8. CASE q \in ToSet(PairsIn(d, s))
  <2>1. w(t) \in ToSet(RecordsVisits(d, t, s))
    BY <1>5, <1>6, <1>8, RecordsVisitsHave
  <2> QED
    BY <1>1, <1>4, <2>1
<1>9. CASE q \in ToSet(AllPairs(d, rest))
  <2>1. PairsPieces(d) \in [Txs(d) -> Seq(Pairs)] /\ AllPairs(d, rest) = FlatMap(PairsPieces(d), rest)
    BY AllPairsAre
  <2>2. PICK k \in 1 .. Len(rest) : q \in ToSet(PairsPieces(d)[rest[k]])
    BY <1>9, <2>1, FlatMapElements
  <2> DEFINE b == LogRecords(d, rest[k]).blks
  <2>3. rest[k] \in Txs(d)
    OBVIOUS
  <2>4. b \in Seq(Nat)
    BY <2>3, RecordBlocks DEF Txs
  <2>5. q \in ToSet(PairsIn(d, b))
    BY <2>2, <2>3 DEF PairsPieces
  <2>6. RecordVisitOf(d, w(rest[k]), rest[k], b)
    <3> HIDE DEF b
    <3> QED
      BY <1>5, <1>6, <2>4, <2>5
  <2>7. w(rest[k]) \in ToSet(Visits(d, rest))
    BY <2>6, VisitsHave
  <2> QED
    BY <1>1, <1>4, <2>7
<1> QED
  BY <1>3, <1>7, <1>8, <1>9

-----------------------------------------------------------------------------
(* How the replay goes on *)

\* the list of transactions as journal40_traverse() keeps it
Heads(d, list) == [k \in DOMAIN list |-> [nr |-> list[k], next |-> d[list[k]].next]]

\* d still has the transaction headers of list and the log records of the
\* visits v as they were in d0
Same(d, d0, list, v) ==
  /\ \A k \in 1 .. Len(list) : d[list[k]] = d0[list[k]]
  /\ \A y \in ToSet(v) : y.type = "LGR" => d[y.blk] = d0[y.blk]

\* The device was d0 when the replay began and is d now; to be replayed are
\* the pairs ps and the log records s, from b on, of the first transaction of
\* list, and the others of list.  That makes g of the device.
InReplay(d0, d, list, b, ps, s, g) ==
  /\ d0 \in Devices /\ d \in Devices
  /\ list \in Seq(Txs(d0)) /\ list # <<>> /\ ps \in Seq(Pairs)
  /\ \A k \in 1 .. Len(list) : LogRecords(d0, list[k]).end = "good"
  /\ Circle(d0, list[1], b, s)
  /\ Safe(list, Todo(d0, list[1], ps, s, Tail(list)))
  /\ Same(d, d0, list, Todo(d0, list[1], ps, s, Tail(list)))
  /\ g = Put(d, Left(d0, ps, s, Tail(list)))

\* types of what InReplay speaks of
ReplayTypes(d0, list, s) ==
  /\ list[1] \in Txs(d0) /\ list[1] \in Nat /\ IsTxH(d0, list[1]) /\ Tail(list) \in Seq(Txs(d0))
  /\ s \in Seq(Nat) /\ Len(list) \in Nat \ {0}

(* They are.                                                                *)
LEMMA InReplayTypes ==
  ASSUME NEW d0, NEW list \in Seq(Txs(d0)), list # <<>>, NEW t, NEW b, NEW s, Circle(d0, t, b, s)
  PROVE  ReplayTypes(d0, list, s)
<1>1. list[1] \in Txs(d0) /\ Tail(list) \in Seq(Txs(d0)) /\ Len(list) \in Nat \ {0}
  BY ConsOf
<1>2. list[1] \in Nat /\ IsTxH(d0, list[1])
  BY <1>1, TxsNat DEF Txs
<1>3. s \in Seq(Blocks)
  BY DEF Circle
<1>4. \A X, Y : X \in SUBSET Y => \A x \in Seq(X) : x \in Seq(Y)
  OBVIOUS
<1>5. s \in Seq(Nat)
  BY <1>3, <1>4, BlockNumbers
<1> QED
  BY <1>1, <1>2, <1>5 DEF ReplayTypes

(* What is the same stays so for fewer visits.                              *)
LEMMA SameDrop ==
  ASSUME NEW d, NEW d0, NEW list, NEW x \in Seq(VisitRecs), NEW v \in Seq(VisitRecs), Same(d, d0, list, x \o v)
  PROVE  Same(d, d0, list, v)
<1>1. \A y \in ToSet(v) : y \in ToSet(x \o v)
  BY ConcatElements
<1> QED
  BY <1>1 DEF Same

(* The replay of a right journal begins.                                    *)
LEMMA StartReplay ==
  ASSUME NEW d \in Devices, NEW list \in Seq(Txs(d)), list # <<>>, SoundList(d, list)
  PROVE  InReplay(d, d, list, d[list[1]].next, <<>>, LogRecords(d, list[1]).blks, Replayed(d, list))
<1> DEFINE s == LogRecords(d, list[1]).blks
<1>1. list[1] \in Txs(d) /\ list[1] \in Nat /\ Len(list) \in Nat \ {0} /\ IsTxH(d, list[1])
  <2>1. list[1] \in Txs(d) /\ Len(list) \in Nat \ {0}
    BY ConsOf
  <2> QED
    BY <2>1, TxsNat DEF Txs
<1>2. \A k \in 1 .. Len(list) : LogRecords(d, list[k]).end = "good"
  BY LenProperties DEF SoundList
<1>3. GoodRecords(d, list[1], s)
  BY <1>1, <1>2, GoodRecordsAre
<1>4. Safe(list, Visits(d, list))
  BY SoundIsSafe
<1>5. /\ Todo(d, 0, <<>>, <<>>, list) = Todo(d, list[1], <<>>, s, Tail(list))
      /\ Left(d, <<>>, <<>>, list) = Left(d, <<>>, s, Tail(list))
  <2>1. 0 \in Nat
    OBVIOUS
  <2> QED
    BY <2>1, TransactionDone
<1>6. /\ Visits(d, list) \in Seq(VisitRecs) /\ AllPairs(d, list) \in Seq(Pairs)
      /\ PairsVisits(0, <<>>) = <<>> /\ RecordsVisits(d, 0, <<>>) = <<>> /\ PairsIn(d, <<>>) = <<>>
  BY VisitsAre, AllPairsAre, NothingLeft
<1>7. Todo(d, 0, <<>>, <<>>, list) = Visits(d, list)
  <2> DEFINE v == Visits(d, list)
  <2>1. <<>> \o v = v
    BY <1>6, ConcatEmptySeq
  <2>2. Todo(d, 0, <<>>, <<>>, list) = <<>> \o (<<>> \o v)
    BY <1>6, Zenon DEF Todo
  <2> HIDE DEF v
  <2>3. Todo(d, 0, <<>>, <<>>, list) = v
    BY <2>1, <2>2
  <2> QED
    BY <2>3 DEF v
<1>8. Left(d, <<>>, <<>>, list) = AllPairs(d, list)
  <2> DEFINE v == AllPairs(d, list)
  <2>1. <<>> \o v = v
    BY <1>6, ConcatEmptySeq
  <2>2. Left(d, <<>>, <<>>, list) = <<>> \o (<<>> \o v)
    BY <1>6, Zenon DEF Left
  <2> HIDE DEF v
  <2>3. Left(d, <<>>, <<>>, list) = v
    BY <2>1, <2>2
  <2> QED
    BY <2>3 DEF v
<1>9. Replayed(d, list) = Put(d, Left(d, <<>>, s, Tail(list)))
  BY <1>5, <1>8, ReplayedIs
<1>10. Safe(list, Todo(d, list[1], <<>>, s, Tail(list)))
  BY <1>4, <1>5, <1>7
<1>11. Circle(d, list[1], d[list[1]].next, s)
  BY <1>3 DEF GoodRecords
<1>12. Same(d, d, list, Todo(d, list[1], <<>>, s, Tail(list)))
  BY DEF Same
<1>13. <<>> \in Seq(Pairs)
  OBVIOUS
<1> HIDE DEF s
<1>14. InReplay(d, d, list, d[list[1]].next, <<>>, s, Replayed(d, list))
  BY <1>2, <1>9, <1>10, <1>11, <1>12, <1>13, Zenon DEF InReplay
<1> QED
  BY <1>14 DEF s

(* The next log record is loaded.                                           *)
LEMMA LoadStep ==
  ASSUME NEW d0, NEW d, NEW list, NEW b, NEW s, NEW g, InReplay(d0, d, list, b, <<>>, s, g), b # list[1]
  PROVE  IsLGR(d, b) /\ InReplay(d0, d, list, d[b].next, Entries(d, b), Tail(s), g)
<1> DEFINE t == list[1]  rest == Tail(list)  e == Entries(d0, b)  new == Todo(d0, t, e, Tail(s), rest)
           l == Visit(t, b, "LGR")
<1>1. /\ d0 \in Devices /\ d \in Devices /\ list \in Seq(Txs(d0)) /\ list # <<>>
      /\ \A k \in 1 .. Len(list) : LogRecords(d0, list[k]).end = "good"
      /\ Circle(d0, t, b, s) /\ Safe(list, Todo(d0, t, <<>>, s, rest)) /\ Same(d, d0, list, Todo(d0, t, <<>>, s, rest))
      /\ g = Put(d, Left(d0, <<>>, s, rest))
  BY Zenon DEF InReplay
<1>2. ReplayTypes(d0, list, s)
  BY <1>1, InReplayTypes
<1>3. Len(s) # 0
  BY <1>1 DEF Circle
<1>4. FirstRecord(d0, t, b, s)
  BY <1>1, <1>3, CircleTail
<1>5. s # <<>> /\ b = s[1] /\ IsLGR(d0, b) /\ Circle(d0, t, d0[b].next, Tail(s))
  BY <1>3, <1>4 DEF FirstRecord
<1>6. t \in Nat /\ rest \in Seq(Txs(d0)) /\ s \in Seq(Nat) /\ Tail(s) \in Seq(Nat)
  BY <1>2, <1>5, ConsOf DEF ReplayTypes
<1>7. e \in Seq(Pairs)
  BY <1>1, EntriesAre
<1>8. /\ Todo(d0, t, <<>>, s, rest) = <<l>> \o new
      /\ Left(d0, <<>>, s, rest) = Left(d0, e, Tail(s), rest)
      /\ <<l>> \in Seq(VisitRecs)
  <2> HIDE DEF t, rest
  <2> QED
    BY <1>1, <1>5, <1>6, RecordLoaded
<1>9. LeftTyped(d0, t, e, Tail(s), rest)
  <2> HIDE DEF t, rest, e
  <2> QED
    BY <1>1, <1>6, <1>7, LeftType
<1>10. new \in Seq(VisitRecs)
  BY <1>9 DEF LeftTyped
<1>11. d[b] = d0[b]
  <2> HIDE DEF new, t, rest
  <2>1. l \in ToSet(<<l>>)
    BY DEF ToSet
  <2>2. l \in ToSet(<<l>> \o new)
    BY <1>8, <1>10, <2>1, ConcatElements
  <2>3. l.type = "LGR" /\ l.blk = b
    BY DEF Visit
  <2> HIDE DEF l
  <2> QED
    BY <1>1, <1>8, <2>2, <2>3 DEF Same
<1>12. IsLGR(d, b) /\ Entries(d, b) = e /\ d[b].next = d0[b].next
  BY <1>5, <1>11 DEF IsLGR, Entries
<1>13. Safe(list, new) /\ Same(d, d0, list, new)
  <2> HIDE DEF new, l, t, rest
  <2> QED
    BY <1>1, <1>8, <1>10, SafeDrop, SameDrop
<1>14. g = Put(d, Left(d0, e, Tail(s), rest))
  BY <1>1, <1>8
<1>15. InReplay(d0, d, list, d0[b].next, e, Tail(s), g)
  <2> HIDE DEF e
  <2> QED
    BY <1>1, <1>5, <1>7, <1>13, <1>14, Zenon DEF InReplay
<1> QED
  BY <1>12, <1>15

(* Moving a block leaves the others.                                        *)
LEMMA MovedIs ==
  ASSUME NEW d \in Devices, NEW p, p.wandered \in Blocks, p.original \in Blocks
  PROVE  /\ Moved(d, p) \in Devices
         /\ \A b \in Blocks : b # p.original => Moved(d, p)[b] = d[b]
BY DEF Moved, Devices

(* The next pair is replayed.                                               *)
LEMMA PairStep ==
  ASSUME NEW d0, NEW d, NEW list, NEW b, NEW ps, NEW s, NEW g, InReplay(d0, d, list, b, ps, s, g), ps # <<>>
  PROVE  /\ ps[1].wandered \in Blocks /\ ps[1].original \in Blocks
         /\ InReplay(d0, Moved(d, ps[1]), list, b, Tail(ps), s, g)
<1> DEFINE t == list[1]  rest == Tail(list)  p == ps[1]  new == Todo(d0, t, Tail(ps), s, rest)
           q == Left(d0, Tail(ps), s, rest)  m == Moved(d, p)
<1>1. /\ d0 \in Devices /\ d \in Devices /\ list \in Seq(Txs(d0)) /\ list # <<>> /\ ps \in Seq(Pairs)
      /\ \A k \in 1 .. Len(list) : LogRecords(d0, list[k]).end = "good"
      /\ Circle(d0, t, b, s) /\ Safe(list, Todo(d0, t, ps, s, rest)) /\ Same(d, d0, list, Todo(d0, t, ps, s, rest))
      /\ g = Put(d, Left(d0, ps, s, rest))
  BY Zenon DEF InReplay
<1>2. ReplayTypes(d0, list, s)
  BY <1>1, InReplayTypes
<1>3. t \in Nat /\ rest \in Seq(Txs(d0)) /\ s \in Seq(Nat) /\ p \in Pairs /\ Tail(ps) \in Seq(Pairs)
  BY <1>1, <1>2, ConsOf DEF ReplayTypes
<1>4. /\ Todo(d0, t, ps, s, rest) = PairVisits(t, p) \o new
      /\ Left(d0, ps, s, rest) = <<p>> \o q
      /\ PairVisits(t, p) \in Seq(VisitRecs)
  <2> HIDE DEF t, rest
  <2>1. d0 \in Devices /\ t \in Nat /\ s \in Seq(Nat) /\ rest \in Seq(Txs(d0)) /\ ps \in Seq(Pairs) /\ ps # <<>>
    BY <1>1, <1>3, Zenon
  <2>2. /\ Todo(d0, t, ps, s, rest) = PairVisits(t, ps[1]) \o Todo(d0, t, Tail(ps), s, rest)
        /\ Left(d0, ps, s, rest) = <<ps[1]>> \o Left(d0, Tail(ps), s, rest)
        /\ PairVisits(t, ps[1]) \in Seq(VisitRecs)
    BY <2>1, PairDone
  <2> QED
    BY <2>2, Zenon DEF p, q, new
<1>5. new \in Seq(VisitRecs) /\ q \in Seq(Pairs)
  <2>1. LeftTyped(d0, t, Tail(ps), s, rest)
    <3> HIDE DEF t, rest
    <3>1. d0 \in Devices /\ t \in Nat /\ s \in Seq(Nat) /\ rest \in Seq(Txs(d0)) /\ Tail(ps) \in Seq(Pairs)
      BY <1>1, <1>3, Zenon
    <3>2. \A u \in Seq(Pairs) : LeftTyped(d0, t, u, s, rest)
      BY <3>1, LeftType
    <3> QED
      BY <3>1, <3>2, Zenon
  <2> QED
    BY <2>1 DEF LeftTyped
<1>6. \A w \in ToSet(q) : \E y \in ToSet(new) : y.type = "WAN" /\ y.blk = w.wandered
  <2> HIDE DEF t, rest
  <2>1. d0 \in Devices /\ t \in Nat /\ s \in Seq(Nat) /\ rest \in Seq(Txs(d0)) /\ Tail(ps) \in Seq(Pairs)
    BY <1>1, <1>3, Zenon
  <2>2. \A u \in Seq(Pairs) : \A w \in ToSet(Left(d0, u, s, rest)) :
          \E y \in ToSet(Todo(d0, t, u, s, rest)) : y.type = "WAN" /\ y.blk = w.wandered
    BY <2>1, LeftWandered
  <2> QED
    BY <2>1, <2>2, Zenon DEF q, new
<1>7. FromTxHOn(list, t, p.original) \/ \A k \in 1 .. Len(list) : list[k] # p.original
  <2>1. DOMAIN list = 1 .. Len(list) /\ 1 \in 1 .. Len(list) /\ \A k \in 1 .. Len(list) : 1 =< k
    BY <1>1, <1>2, LenProperties DEF ReplayTypes
  <2> QED
    BY <2>1 DEF FromTxHOn
<1>8. \A k \in 1 .. Len(list) : list[k] \in Blocks
  BY <1>1 DEF Txs
<1> HIDE DEF t, rest, p, new, q
<1>9. SafePair(list, t, p, new)
  BY <1>1, <1>3, <1>4, <1>5, SafeFirst
<1>10. p.wandered \in Blocks /\ p.original \in Blocks
  BY <1>9 DEF SafePair
<1>11. m \in Devices /\ \A y \in Blocks : y # p.original => m[y] = d[y]
  BY <1>1, <1>10, MovedIs
<1> HIDE DEF m
<1>12. Safe(list, new) /\ Same(d, d0, list, new)
  BY <1>1, <1>4, <1>5, SafeDrop, SameDrop
<1>13. Same(m, d0, list, new)
  <2>1. \A k \in 1 .. Len(list) : m[list[k]] = d0[list[k]]
    BY <1>7, <1>8, <1>9, <1>11, <1>12 DEF Same, SafePair
  <2>2. \A y \in ToSet(new) : y.type = "LGR" => m[y.blk] = d0[y.blk]
    BY <1>9, <1>11, <1>12 DEF Same, SafePair
  <2> QED
    BY <2>1, <2>2 DEF Same
<1>14. \A k \in 1 .. Len(q) : q[k].wandered \in Blocks /\ q[k].wandered # p.original
  <2> TAKE k \in 1 .. Len(q)
  <2>1. q[k] \in ToSet(q)
    BY <1>5, ElementsOf
  <2> QED
    BY <1>6, <1>9, <2>1 DEF SafePair
<1>15. g = Put(m, q)
  BY <1>1, <1>3, <1>4, <1>5, <1>10, <1>14, PutFirst DEF m
<1>16. InReplay(d0, m, list, b, Tail(ps), s, g)
  BY <1>1, <1>3, <1>11, <1>12, <1>13, <1>15, Zenon DEF InReplay, t, rest, new, q
<1> QED
  BY <1>10, <1>16 DEF p, m

(* The next transaction is replayed.                                        *)
LEMMA NextStep ==
  ASSUME NEW d0, NEW d, NEW list, NEW s, NEW g, InReplay(d0, d, list, list[1], <<>>, s, g), Len(list) # 1
  PROVE  /\ Tail(list) \in Seq(Txs(d0)) /\ Tail(list) # <<>>
         /\ InReplay(d0, d, Tail(list), d0[Tail(list)[1]].next, <<>>, LogRecords(d0, Tail(list)[1]).blks, g)
<1> DEFINE t == list[1]  rest == Tail(list)  u == rest[1]  r == LogRecords(d0, u).blks
<1>1. /\ d0 \in Devices /\ d \in Devices /\ list \in Seq(Txs(d0)) /\ list # <<>>
      /\ \A k \in 1 .. Len(list) : LogRecords(d0, list[k]).end = "good"
      /\ Circle(d0, t, t, s) /\ Safe(list, Todo(d0, t, <<>>, s, rest)) /\ Same(d, d0, list, Todo(d0, t, <<>>, s, rest))
      /\ g = Put(d, Left(d0, <<>>, s, rest))
  BY Zenon DEF InReplay
<1>2. ReplayTypes(d0, list, s)
  BY <1>1, InReplayTypes
<1>3. s = <<>>
  <2>1. s \in Seq(Nat) /\ Len(s) \in Nat
    BY <1>2, LenProperties DEF ReplayTypes
  <2>2. Len(s) # 0 => 1 \in 1 .. Len(s) /\ s[1] = t
    BY <1>1, <2>1 DEF Circle
  <2>3. Len(s) = 0
    BY <1>1, <2>2 DEF Circle
  <2> QED
    BY <2>1, <2>3
<1>4. /\ rest \in Seq(Txs(d0)) /\ Len(rest) = Len(list) - 1 /\ Len(list) \in Nat \ {0}
      /\ \A i \in 1 .. Len(rest) : rest[i] = list[i + 1]
  BY <1>1, <1>2, HeadTailProperties DEF ReplayTypes
<1>5. rest # <<>>
  <2>1. Len(rest) # 0
    BY <1>4
  <2> HIDE DEF rest
  <2> QED
    BY <2>1, EmptySeq
<1>6. u \in Txs(d0) /\ u \in Nat /\ IsTxH(d0, u)
  <2>1. u \in Txs(d0)
    BY <1>4, <1>5, ConsOf
  <2> QED
    BY <2>1, TxsNat DEF Txs
<1> HIDE DEF rest
<1>7. /\ Todo(d0, t, <<>>, <<>>, rest) = Todo(d0, u, <<>>, r, Tail(rest))
      /\ Left(d0, <<>>, <<>>, rest) = Left(d0, <<>>, r, Tail(rest))
  <2>1. t \in Nat
    BY <1>2 DEF ReplayTypes
  <2> HIDE DEF t
  <2> QED
    BY <1>1, <1>4, <1>5, <2>1, TransactionDone
<1>8. \A k \in 1 .. Len(rest) : LogRecords(d0, rest[k]).end = "good" /\ d[rest[k]] = d0[rest[k]]
  <2> TAKE k \in 1 .. Len(rest)
  <2>1. k + 1 \in 1 .. Len(list) /\ rest[k] = list[k + 1]
    BY <1>4
  <2> QED
    BY <1>1, <2>1 DEF Same
<1>9. Circle(d0, u, d0[u].next, r)
  <2>1. u = rest[1] /\ 1 \in 1 .. Len(rest)
    BY <1>4, <1>5, EmptySeq
  <2>2. GoodRecords(d0, u, r)
    BY <1>1, <1>6, <1>8, <2>1, GoodRecordsAre
  <2> QED
    BY <2>2 DEF GoodRecords
<1>10. Safe(rest, Todo(d0, u, <<>>, r, Tail(rest)))
  BY <1>1, <1>3, <1>7, SafeTail DEF rest
<1>11. Same(d, d0, rest, Todo(d0, u, <<>>, r, Tail(rest)))
  BY <1>1, <1>3, <1>7, <1>8 DEF Same
<1>12. g = Put(d, Left(d0, <<>>, r, Tail(rest)))
  BY <1>1, <1>3, <1>7
<1>13. <<>> \in Seq(Pairs)
  OBVIOUS
<1>14. \A k \in 1 .. Len(rest) : LogRecords(d0, rest[k]).end = "good"
  BY <1>8
<1> HIDE DEF r
<1>15. InReplay(d0, d, rest, d0[u].next, <<>>, r, g)
  BY <1>1, <1>4, <1>5, <1>9, <1>10, <1>11, <1>12, <1>13, <1>14, Zenon DEF InReplay
<1> QED
  BY <1>4, <1>5, <1>15 DEF rest, r

(* The last transaction has been replayed.                                  *)
LEMMA LastStep ==
  ASSUME NEW d0, NEW d, NEW list, NEW s, NEW g, InReplay(d0, d, list, list[1], <<>>, s, g), Len(list) = 1
  PROVE  g = d /\ IsTxH(d, list[1])
<1> DEFINE t == list[1]  rest == Tail(list)
<1>1. /\ d0 \in Devices /\ d \in Devices /\ list \in Seq(Txs(d0)) /\ list # <<>>
      /\ Circle(d0, t, t, s) /\ Same(d, d0, list, Todo(d0, t, <<>>, s, rest))
      /\ g = Put(d, Left(d0, <<>>, s, rest))
  BY Zenon DEF InReplay
<1>2. ReplayTypes(d0, list, s)
  BY <1>1, InReplayTypes
<1>3. s = <<>>
  <2>1. s \in Seq(Nat) /\ Len(s) \in Nat
    BY <1>2, LenProperties DEF ReplayTypes
  <2>2. Len(s) # 0 => 1 \in 1 .. Len(s) /\ s[1] = t
    BY <1>1, <2>1 DEF Circle
  <2>3. Len(s) = 0
    BY <1>1, <2>2 DEF Circle
  <2> QED
    BY <2>1, <2>3
<1>4. rest = <<>>
  <2>1. rest \in Seq(Txs(d0)) /\ Len(rest) = Len(list) - 1
    BY <1>1, HeadTailProperties
  <2>2. Len(rest) = 0
    BY <2>1
  <2> HIDE DEF rest
  <2> QED
    BY <2>1, <2>2, EmptySeq
<1>5. Left(d0, <<>>, <<>>, <<>>) = <<>>
  <2>1. <<>> \o (<<>> \o <<>>) = <<>>
    OBVIOUS
  <2> QED
    BY <2>1, NothingLeft, Zenon DEF Left
<1>6. g = d
  BY <1>1, <1>3, <1>4, <1>5, PutNone
<1>7. 1 \in 1 .. Len(list)
  OBVIOUS
<1>8. d[t] = d0[t]
  BY <1>1, <1>7 DEF Same
<1>9. IsTxH(d, t)
  BY <1>2, <1>8 DEF ReplayTypes, IsTxH
<1> QED
  BY <1>6, <1>9

-----------------------------------------------------------------------------
(* Free blocks for a transaction *)

\* each set of n numbers has a k-th smallest one, for every k
HasRanks(n) ==
  \A S \in SUBSET Blocks : Cardinality(S) = n =>
    \A k \in 1 .. n : \E x \in S : Cardinality({y \in S : y < x}) = k - 1

(* So it is, by taking the largest one away.                                *)
LEMMA RanksExist ==
  ASSUME NEW S \in SUBSET Blocks
  PROVE  /\ IsFiniteSet(S) /\ Cardinality(S) \in Nat /\ Cardinality(S) =< AreaLen
         /\ HasRanks(Cardinality(S))
<1>1. \A R \in SUBSET Blocks : IsFiniteSet(R) /\ Cardinality(R) \in Nat /\ Cardinality(R) =< AreaLen
  <2>1. AreaLen \in Nat /\ 0 \in Int /\ AreaLen - 1 \in Int
    BY BlockNumbers
  <2>2. IsFiniteSet(Blocks) /\ Cardinality(Blocks) = AreaLen
    <3>1. IsFiniteSet(0 .. AreaLen - 1) /\ Cardinality(0 .. AreaLen - 1) = IF 0 > AreaLen - 1 THEN 0 ELSE (AreaLen - 1) - 0 + 1
      BY <2>1, FS_Interval
    <3> QED
      BY <2>1, <3>1 DEF Blocks
  <2> QED
    BY <2>2, FS_Subset, FS_CardinalityType
<1> DEFINE G == {n \in 0 .. AreaLen : HasRanks(n)}
<1>2. 0 \in G
  BY BlockNumbers DEF HasRanks
<1>3. ASSUME NEW n \in 1 .. AreaLen, n - 1 \in G
      PROVE  n \in G
  <2> SUFFICES ASSUME NEW R \in SUBSET Blocks, Cardinality(R) = n, NEW k \in 1 .. n
               PROVE  \E x \in R : Cardinality({y \in R : y < x}) = k - 1
    <3>1. n \in 0 .. AreaLen
      BY BlockNumbers
    <3> QED
      BY <3>1, Zenon DEF HasRanks
  <2> DEFINE m == Max(R)  T == R \ {m}
  <2>1. R # {} /\ R \in SUBSET Nat /\ AreaLen \in Nat /\ \A y \in R : y =< AreaLen
    <3>1. R # {}
      BY FS_EmptySet
    <3> QED
      BY <3>1, BlockNumbers DEF Blocks
  <2>2. m \in R /\ \A y \in R : y =< m
    BY <2>1, MaxExists
  <2> HIDE DEF m
  <2>3. T \in SUBSET Blocks /\ Cardinality(T) = n - 1
    <3>1. IsFiniteSet(R)
      BY <1>1
    <3> QED
      BY <2>2, <3>1, FS_RemoveElement
  <2>4. CASE k = n
    <3>1. {y \in R : y < m} = T
      <4>1. m \in Nat /\ \A y \in R : y \in Nat /\ (y < m <=> y # m)
        BY <2>1, <2>2
      <4> QED
        BY <4>1
    <3> QED
      BY <2>2, <2>3, <2>4, <3>1
  <2>5. CASE k # n
    <3>1. k \in 1 .. n - 1
      BY <2>5
    <3>2. PICK x \in T : Cardinality({y \in T : y < x}) = k - 1
      BY <1>3, <2>3, <3>1 DEF HasRanks
    <3>3. {y \in R : y < x} = {y \in T : y < x}
      BY <2>1, <2>2, <3>2
    <3> QED
      BY <3>2, <3>3
  <2> QED
    BY <2>4, <2>5
<1>4. \A n \in 0 .. AreaLen : n \in G
  <2> HIDE DEF G
  <2> QED
    BY <1>2, <1>3, Climb, BlockNumbers
<1> QED
  BY <1>1, <1>4, BlockNumbers

\* f is blocks of S, one for each
Lists(f, S) == f \in Seq(S) /\ Len(f) = Cardinality(S) /\ Len(f) \in Nat

(* The blocks of a set in order.                                            *)
LEMMA AscendingIs ==
  ASSUME NEW S \in SUBSET Blocks
  PROVE  Lists(Ascending(S), S)
<1> DEFINE c == Cardinality(S)  f == Ascending(S)
<1>1. c \in Nat /\ HasRanks(c)
  BY RanksExist
<1>2. \A k \in 1 .. c : (CHOOSE x \in S : Cardinality({y \in S : y < x}) = k - 1) \in S
  BY <1>1 DEF HasRanks
<1>3. f = [k \in 1 .. c |-> CHOOSE x \in S : Cardinality({y \in S : y < x}) = k - 1]
  BY DEF Ascending
<1> HIDE DEF c, f
<1>4. f \in [1 .. c -> S]
  BY <1>2, <1>3
<1>5. f \in Seq(S) /\ Len(f) = c
  BY <1>1, <1>4
<1> QED
  BY <1>1, <1>5 DEF Lists, c, f

-----------------------------------------------------------------------------
(* Types *)

LogPairs == [wandered : LogArea, original : Originals0]

\* what the kernel writes: pairs of a block of the log area and one that
\* transactions are about
Clean(c) == c \in Content /\ (c.type = "lgr" => c.entries \in Seq(LogPairs))

\* what nothing but a damage changes
Undamaged(d) ==
  /\ d[HeaderBlk].type = "header" /\ d[FooterBlk].type = "footer"
  /\ \A b \in Blocks : Clean(d[b])

(* The four blocks are different ones, and others than those of             *)
(* transactions.                                                            *)
LEMMA BlocksDiffer ==
  /\ HeaderBlk # FooterBlk /\ FormatBlk \notin {HeaderBlk, FooterBlk} /\ AllocBlk \notin {HeaderBlk, FooterBlk}
  /\ HeaderBlk \notin Originals0 \cup LogArea /\ FooterBlk \notin Originals0 \cup LogArea
  /\ Originals0 \in SUBSET Blocks /\ LogArea \in SUBSET Blocks
  /\ Originals0 \in SUBSET Nat /\ LogArea \in SUBSET Nat
<1>1. \A a, b, c : IsFiniteSet({a, b, c}) /\ Cardinality({a, b, c}) \in 0 .. 3
  <2> TAKE a, b, c
  <2>1. IsFiniteSet({a}) /\ Cardinality({a}) = 1
    BY FS_Singleton
  <2>2. IsFiniteSet({a} \cup {b}) /\ Cardinality({a} \cup {b}) \in 0 .. 2
    BY <2>1, FS_AddElement
  <2>3. {a, b} = {a} \cup {b} /\ {a, b, c} = {a, b} \cup {c}
    OBVIOUS
  <2>4. IsFiniteSet({a, b} \cup {c}) /\ Cardinality({a, b} \cup {c}) \in 0 .. 3
    BY <2>2, <2>3, FS_AddElement
  <2> QED
    BY <2>3, <2>4
<1>2. Cardinality({FormatBlk, HeaderBlk, FooterBlk, AllocBlk}) = 4
  BY JournalConstants
<1>3. \A a, b, c : {FormatBlk, HeaderBlk, FooterBlk, AllocBlk} # {a, b, c}
  <2> TAKE a, b, c
  <2> DEFINE n == Cardinality({a, b, c})
  <2>1. n # 4
    <3>1. n \in 0 .. 3
      BY <1>1
    <3> HIDE DEF n
    <3> QED
      BY <3>1
  <2> QED
    BY <1>2, <2>1
<1>4. HeaderBlk # FooterBlk
  <2>1. HeaderBlk = FooterBlk => {FormatBlk, HeaderBlk, FooterBlk, AllocBlk} = {FormatBlk, HeaderBlk, AllocBlk}
    OBVIOUS
  <2> QED
    BY <1>3, <2>1
<1>5. FormatBlk # HeaderBlk /\ FormatBlk # FooterBlk
  <2>1. FormatBlk = HeaderBlk => {FormatBlk, HeaderBlk, FooterBlk, AllocBlk} = {HeaderBlk, FooterBlk, AllocBlk}
    OBVIOUS
  <2>2. FormatBlk = FooterBlk => {FormatBlk, HeaderBlk, FooterBlk, AllocBlk} = {HeaderBlk, FooterBlk, AllocBlk}
    OBVIOUS
  <2> QED
    BY <1>3, <2>1, <2>2
<1>6. AllocBlk # HeaderBlk /\ AllocBlk # FooterBlk
  <2>1. AllocBlk = HeaderBlk => {FormatBlk, HeaderBlk, FooterBlk, AllocBlk} = {FormatBlk, HeaderBlk, FooterBlk}
    OBVIOUS
  <2>2. AllocBlk = FooterBlk => {FormatBlk, HeaderBlk, FooterBlk, AllocBlk} = {FormatBlk, HeaderBlk, FooterBlk}
    OBVIOUS
  <2> QED
    BY <1>3, <2>1, <2>2
<1>7. HeaderBlk \notin Originals0 \cup LogArea /\ FooterBlk \notin Originals0 \cup LogArea
  BY Journal40Assumption DEF FormatArea
<1>8. Originals0 \in SUBSET Blocks /\ LogArea \in SUBSET Blocks
  BY Journal40Assumption, JournalConstants DEF Blocks
<1> QED
  BY <1>4, <1>5, <1>6, <1>7, <1>8, BlockNumbers

(* What is written is content.                                              *)
LEMMA Contents ==
  /\ \A x \in Nat : Data(x) \in Datas /\ Header(x) \in Headers
  /\ \A x, y \in Nat : Super(x, y) \in Supers /\ Footer(x, y) \in Footers
  /\ \A x, y, z \in Nat : TxH(x, y, z) \in TxHs
  /\ \A x \in Nat, e \in Seq(LogPairs) : LGR(x, e) \in LGRs
  /\ \A e \in Seq(LogPairs) : e \in Seq(Pairs)
<1>1. \A A, B : A \in SUBSET B => \A e \in Seq(A) : e \in Seq(B)
  OBVIOUS
<1>2. LogPairs \in SUBSET Pairs
  BY BlocksDiffer DEF LogPairs, Pairs
<1>3. \A e \in Seq(LogPairs) : e \in Seq(Pairs)
  BY <1>1, <1>2
<1>4. \A x \in Nat, e \in Seq(LogPairs) : LGR(x, e) \in LGRs
  BY <1>3 DEF LGR, LGRs
<1>5. /\ \A x \in Nat : Data(x) \in Datas /\ Header(x) \in Headers
      /\ \A x, y \in Nat : Super(x, y) \in Supers /\ Footer(x, y) \in Footers
      /\ \A x, y, z \in Nat : TxH(x, y, z) \in TxHs
  BY DEF Data, Datas, Header, Headers, Super, Supers, Footer, Footers, TxH, TxHs
<1> QED
  BY <1>3, <1>4, <1>5

(* What the kernel writes is clean.                                         *)
LEMMA Cleans ==
  /\ \A x \in Nat : Clean(Data(x)) /\ Clean(Header(x))
  /\ \A x, y \in Nat : Clean(Super(x, y)) /\ Clean(Footer(x, y))
  /\ \A x, y, z \in Nat : Clean(TxH(x, y, z))
  /\ \A x \in Nat, e \in Seq(LogPairs) : Clean(LGR(x, e))
<1>1. \A x \in Nat : Clean(Data(x)) /\ Clean(Header(x))
  BY Contents DEF Clean, Content, Data, Header
<1>2. \A x, y \in Nat : Clean(Super(x, y)) /\ Clean(Footer(x, y))
  BY Contents DEF Clean, Content, Super, Footer
<1>3. \A x, y, z \in Nat : Clean(TxH(x, y, z))
  BY Contents DEF Clean, Content, TxH
<1>4. \A x \in Nat, e \in Seq(LogPairs) : Clean(LGR(x, e))
  BY Contents DEF Clean, Content, LGR
<1> QED
  BY <1>1, <1>2, <1>3, <1>4

(* Each type of block has its fields.                                       *)
LEMMA TypedFields ==
  ASSUME NEW c \in Content
  PROVE  /\ c.type = "data" => c \in Datas
         /\ c.type = "super" => c \in Supers
         /\ c.type = "header" => c \in Headers
         /\ c.type = "footer" => c \in Footers
         /\ c.type = "txh" => c \in TxHs
         /\ c.type = "lgr" => c \in LGRs
BY DEF Content, Datas, Supers, Headers, Footers, TxHs, LGRs

-----------------------------------------------------------------------------
(* The kernel's steps *)

\* S is the blocks of a transaction with n log records, f the blocks it is
\* written to.
MayCommit(S, f, n) ==
  /\ S \in Seq(Originals0) /\ f \in Seq(LogArea) /\ n \in 1 .. 2
  /\ Len(S) \in Nat /\ Len(f) \in Nat /\ n =< Len(S) /\ 1 + n + Len(S) =< Len(f)

(* A log record of it.                                                      *)
LEMMA RecordIs ==
  ASSUME NEW S, NEW f, NEW n, MayCommit(S, f, n), NEW k \in 1 .. n
  PROVE  Clean(Record(S, f, n, k))
<1>1. /\ \A i \in 1 .. Len(S) : S[i] \in Originals0
      /\ \A i \in 1 .. Len(f) : f[i] \in LogArea
      /\ Len(S) \in Nat /\ Len(f) \in Nat /\ n \in 1 .. 2 /\ n =< Len(S) /\ 1 + n + Len(S) =< Len(f)
  BY DEF MayCommit
<1>2. \A i \in 1 .. Len(S) : Pair(S, f, n, i) \in LogPairs
  <2> TAKE i \in 1 .. Len(S)
  <2>1. 1 + n + i \in 1 .. Len(f)
    BY <1>1
  <2> QED
    BY <1>1, <2>1 DEF Pair, LogPairs
<1> HIDE DEF LogPairs
<1>3. CASE k < n
  <2>1. f[2 + k] \in Nat /\ k \in 1 .. Len(S)
    <3>1. 2 + k \in 1 .. Len(f) /\ k \in 1 .. Len(S)
      BY <1>1, <1>3
    <3> QED
      BY <1>1, <3>1, BlocksDiffer
  <2> DEFINE e == <<Pair(S, f, n, k)>>
  <2>2. e \in Seq(LogPairs)
    BY <1>2, <2>1
  <2>3. Record(S, f, n, k) = LGR(f[2 + k], e)
    BY <1>3 DEF Record
  <2> HIDE DEF e
  <2> QED
    BY <2>1, <2>2, <2>3, Cleans
<1>4. CASE ~(k < n)
  <2>1. f[1] \in Nat
    <3>1. 1 \in 1 .. Len(f)
      BY <1>1
    <3> QED
      BY <1>1, <3>1, BlocksDiffer
  <2> DEFINE m == Len(S) - n + 1  e == [i \in 1 .. m |-> Pair(S, f, n, n - 1 + i)]
  <2>2. m \in Nat /\ \A i \in 1 .. m : n - 1 + i \in 1 .. Len(S)
    BY <1>1
  <2>3. Record(S, f, n, k) = LGR(f[1], e)
    BY <1>4 DEF Record
  <2> HIDE DEF m
  <2>4. e \in [1 .. m -> LogPairs]
    BY <1>2, <2>2
  <2> HIDE DEF e
  <2>5. e \in Seq(LogPairs)
    BY <2>2, <2>4
  <2> QED
    BY <2>1, <2>3, <2>5, Cleans
<1> QED
  BY <1>3, <1>4

(* Each block of it.                                                        *)
LEMMA TransBlockIs ==
  ASSUME NEW last \in Nat, NEW S, NEW f, NEW n, MayCommit(S, f, n), NEW v \in Nat, NEW k \in 1 .. Len(f)
  PROVE  Clean(TransBlock(last, S, f, n, v, k))
<1>1. n \in 1 .. 2 /\ Len(f) \in Nat /\ k \in Nat /\ Len(S) \in Nat /\ n =< Len(S) /\ 1 + n + Len(S) =< Len(f)
  BY DEF MayCommit
<1>2. CASE k = 1
  <2>1. 2 \in 1 .. Len(f)
    BY <1>1
  <2>2. f[2] \in Nat
    <3>1. \A i \in 1 .. Len(f) : f[i] \in LogArea
      BY DEF MayCommit
    <3> QED
      BY <2>1, <3>1, BlocksDiffer
  <2>3. TransBlock(last, S, f, n, v, k) = TxH(last, f[2], v)
    BY <1>2 DEF TransBlock
  <2> QED
    BY <2>2, <2>3, Cleans
<1>3. CASE k # 1 /\ k =< n + 1
  <2>1. k - 1 \in 1 .. n
    BY <1>1, <1>3
  <2>2. TransBlock(last, S, f, n, v, k) = Record(S, f, n, k - 1)
    BY <1>3 DEF TransBlock
  <2> QED
    BY <2>1, <2>2, RecordIs
<1>4. CASE k # 1 /\ ~(k =< n + 1)
  <2>1. TransBlock(last, S, f, n, v, k) = Image(S[k - n - 1], v)
    BY <1>4 DEF TransBlock
  <2> QED
    BY <2>1, Cleans DEF Image
<1> QED
  BY <1>2, <1>3, <1>4

(* A commit leaves a device that is not damaged.                            *)
LEMMA CommitTyped ==
  ASSUME NEW d \in Devices, Undamaged(d), NEW S, NEW f, NEW n, MayCommit(S, f, n), NEW v \in Nat
  PROVE  WithTransaction(d, S, f, n, v) \in Devices /\ Undamaged(WithTransaction(d, S, f, n, v))
<1> DEFINE last == d[HeaderBlk].last
           In(b) == \E k \in 1 .. 1 + n + Len(S) : f[k] = b
           at(b) == CHOOSE k \in DOMAIN f : f[k] = b
           new(b) == IF b = HeaderBlk THEN Header(f[1])
                     ELSE IF In(b) THEN TransBlock(last, S, f, n, v, at(b)) ELSE d[b]
           w == WithTransaction(d, S, f, n, v)
<1>1. last \in Nat
  BY TypedFields, BlockNumbers DEF Undamaged, Devices, Headers
<1>2. /\ n \in 1 .. 2 /\ Len(f) \in Nat /\ Len(S) \in Nat /\ 1 + n + Len(S) =< Len(f)
      /\ DOMAIN f = 1 .. Len(f) /\ f \in Seq(LogArea)
  BY LenProperties DEF MayCommit
<1>3. f[1] \in Nat
  <2>1. 1 \in 1 .. Len(f)
    BY <1>2
  <2>2. \A i \in 1 .. Len(f) : f[i] \in LogArea
    BY <1>2
  <2> QED
    BY <2>1, <2>2, BlocksDiffer
<1>4. \A b : In(b) => at(b) \in 1 .. Len(f) /\ b \in LogArea
  <2> TAKE b
  <2> HAVE In(b)
  <2>1. PICK k \in 1 .. 1 + n + Len(S) : f[k] = b
    OBVIOUS
  <2>2. k \in DOMAIN f
    BY <1>2
  <2>3. at(b) \in DOMAIN f
    BY <2>1, <2>2
  <2> QED
    BY <1>2, <2>1, <2>2, <2>3
<1>5. w = [b \in Blocks |-> new(b)]
  BY DEF WithTransaction
<1> HIDE DEF w, last, In, at
<1>6. ASSUME NEW b \in Blocks PROVE Clean(new(b))
  <2>1. CASE b = HeaderBlk
    BY <1>3, <2>1, Cleans
  <2>2. CASE b # HeaderBlk /\ In(b)
    BY <1>1, <1>4, <2>2, TransBlockIs
  <2>3. CASE b # HeaderBlk /\ ~In(b)
    BY <2>3 DEF Undamaged
  <2> QED
    BY <2>1, <2>2, <2>3
<1>7. new(HeaderBlk).type = "header"
  BY DEF Header
<1>8. new(FooterBlk).type = "footer"
  BY <1>4, BlocksDiffer DEF Undamaged
<1> HIDE DEF new
<1>9. \A b \in Blocks : w[b] = new(b)
  BY <1>5
<1>10. w \in Devices
  BY <1>5, <1>6 DEF Clean, Devices
<1>11. Undamaged(w)
  BY <1>6, <1>7, <1>8, <1>9, BlockNumbers DEF Undamaged
<1> QED
  BY <1>10, <1>11 DEF w

(* The pairs of a device that is not damaged.                               *)
LEMMA CleanEntries ==
  ASSUME NEW d \in Devices, Undamaged(d), NEW l
  PROVE  Entries(d, l) \in Seq(LogPairs)
<1>1. CASE IsLGR(d, l)
  <2> DEFINE e == d[l].entries  n == Cardinality(Used(e))
  <2>1. e \in Seq(LogPairs)
    BY <1>1 DEF IsLGR, Undamaged, Clean
  <2>2. n \in Nat /\ n =< Len(e)
    <3>1. Used(e) \in SUBSET (1 .. Len(e)) /\ Len(e) \in Nat /\ 1 \in Int /\ Len(e) \in Int
      BY <2>1, LenProperties DEF Used
    <3>2. IsFiniteSet(1 .. Len(e)) /\ Cardinality(1 .. Len(e)) = Len(e)
      BY <3>1, FS_Interval, SMTT(30)
    <3> QED
      BY <3>1, <3>2, FS_Subset, FS_CardinalityType, SMTT(30)
  <2>3. Entries(d, l) = SubSeq(e, 1, n)
    BY <1>1 DEF Entries
  <2> HIDE DEF e, n
  <2>4. \A i \in 1 .. n : e[i] \in LogPairs
    BY <2>1, <2>2
  <2> HIDE DEF LogPairs
  <2> QED
    BY <2>1, <2>2, <2>3, <2>4
<1>2. CASE ~IsLGR(d, l)
  <2>1. Entries(d, l) = <<>>
    BY <1>2 DEF Entries
  <2> QED
    BY <2>1
<1> QED
  BY <1>1, <1>2

(* All of them.                                                             *)
LEMMA CleanPairs ==
  ASSUME NEW d \in Devices, Undamaged(d), NEW list \in Seq(Txs(d)), NEW k \in 1 .. Len(AllPairs(d, list))
  PROVE  AllPairs(d, list)[k] \in LogPairs
<1> DEFINE p == AllPairs(d, list)[k]
<1>1. /\ PairsPieces(d) \in [Txs(d) -> Seq(Pairs)]
      /\ AllPairs(d, list) = FlatMap(PairsPieces(d), list)
      /\ AllPairs(d, list) \in Seq(Pairs)
  BY AllPairsAre
<1>2. p \in ToSet(AllPairs(d, list))
  BY <1>1, ElementsOf
<1> HIDE DEF p
<1>3. PICK i \in 1 .. Len(list) : p \in ToSet(PairsPieces(d)[list[i]])
  BY <1>1, <1>2, FlatMapElements
<1> DEFINE s == LogRecords(d, list[i]).blks
<1>4. list[i] \in Txs(d)
  OBVIOUS
<1>5. s \in Seq(Nat)
  BY <1>4, RecordBlocks DEF Txs
<1>6. p \in ToSet(PairsIn(d, s))
  BY <1>3, <1>4 DEF PairsPieces
<1> HIDE DEF s
<1>7. EntryPieces(d) \in [Nat -> Seq(Pairs)] /\ PairsIn(d, s) = FlatMap(EntryPieces(d), s)
  BY <1>5, PairsInAre
<1>8. PICK j \in 1 .. Len(s) : p \in ToSet(EntryPieces(d)[s[j]])
  BY <1>5, <1>6, <1>7, FlatMapElements
<1>9. s[j] \in Nat
  BY <1>5
<1>10. p \in ToSet(Entries(d, s[j]))
  BY <1>8, <1>9 DEF EntryPieces
<1>11. Entries(d, s[j]) \in Seq(LogPairs)
  BY CleanEntries
<1>12. p \in LogPairs
  <2> HIDE DEF LogPairs
  <2> QED
    BY <1>10, <1>11, ElementsOf
<1> QED
  BY <1>12 DEF p

(* Putting blocks in their places does no damage.                           *)
LEMMA PutTyped ==
  ASSUME NEW d \in Devices, Undamaged(d), NEW ps \in Seq(Pairs), \A k \in 1 .. Len(ps) : ps[k] \in LogPairs
  PROVE  Put(d, ps) \in Devices /\ Undamaged(Put(d, ps))
<1> DEFINE e == Put(d, ps)
           new(b) == IF About(ps, b) = {} THEN d[b] ELSE d[ps[Max(About(ps, b))].wandered]
<1>1. e = [b \in Blocks |-> new(b)]
  BY DEF Put
<1>2. DOMAIN ps = 1 .. Len(ps) /\ Len(ps) \in Nat
  BY LenProperties
<1>3. \A b : About(ps, b) # {} => Max(About(ps, b)) \in 1 .. Len(ps) /\ b \in Originals0
  <2> TAKE b
  <2> HAVE About(ps, b) # {}
  <2> DEFINE A == About(ps, b)
  <2>1. A \in SUBSET (1 .. Len(ps)) /\ \A k \in A : ps[k].original = b
    BY <1>2 DEF About
  <2> HIDE DEF A
  <2>2. A \in SUBSET Nat /\ A # {} /\ \A y \in A : y =< Len(ps)
    BY <1>2, <2>1 DEF A
  <2>3. Max(A) \in A
    BY <1>2, <2>2, MaxExists
  <2>4. ps[Max(A)] \in LogPairs /\ ps[Max(A)].original = b
    BY <2>1, <2>3
  <2> QED
    BY <2>1, <2>3, <2>4 DEF A, LogPairs
<1>4. \A b \in Blocks : Clean(new(b))
  <2> TAKE b \in Blocks
  <2>1. CASE About(ps, b) = {}
    BY <2>1 DEF Undamaged
  <2>2. CASE About(ps, b) # {}
    <3>1. ps[Max(About(ps, b))].wandered \in Blocks
      BY <1>3, <2>2, BlocksDiffer DEF LogPairs
    <3> QED
      BY <2>2, <3>1 DEF Undamaged
  <2> QED
    BY <2>1, <2>2
<1>5. new(HeaderBlk) = d[HeaderBlk] /\ new(FooterBlk) = d[FooterBlk]
  BY <1>3, BlocksDiffer
<1> HIDE DEF new, e
<1>6. \A b \in Blocks : e[b] = new(b)
  BY <1>1
<1>7. e \in Devices
  BY <1>1, <1>4 DEF Clean, Devices
<1>8. Undamaged(e)
  BY <1>4, <1>5, <1>6, BlockNumbers DEF Undamaged
<1> QED
  BY <1>7, <1>8 DEF e

\* another content c of block b
Written(d, b, c) == [d EXCEPT ![b] = c]

(* Writing does no damage unless it is of something else over the header or *)
(* the footer of the journal.                                               *)
LEMMA WrittenTyped ==
  ASSUME NEW d \in Devices, NEW b \in Blocks, NEW c \in Content
  PROVE  /\ Written(d, b, c) \in Devices
         /\ /\ Undamaged(d) /\ Clean(c)
            /\ b = HeaderBlk => c.type = "header"
            /\ b = FooterBlk => c.type = "footer"
            => Undamaged(Written(d, b, c))
<1>1. \A x \in Blocks : Written(d, b, c)[x] = IF x = b THEN c ELSE d[x]
  BY DEF Written, Devices
<1>2. Written(d, b, c) \in Devices
  BY DEF Written, Devices
<1> QED
  BY <1>1, <1>2, BlockNumbers DEF Undamaged

(* The kernel writes a transaction in place.                                *)
LEMMA FlushTyped ==
  ASSUME NEW d \in Devices, Undamaged(d), NEW list \in Pending(d), list # <<>>
  PROVE  Flushed(d, list[1]) \in Devices /\ Undamaged(Flushed(d, list[1]))
<1> DEFINE t == list[1]  h == d[HeaderBlk].last  f == d[FooterBlk].flushed
           e == Replayed(d, <<t>>)  c == Footer(t, d[t].ctr)
<1>1. h \in Nat /\ f \in Nat
  BY TypedFields, BlockNumbers DEF Undamaged, Devices, Headers, Footers
<1>2. AreChains(TxLists(d, h, f), d, h, f, AreaLen)
  BY <1>1, ListsAreChains
<1>3. list \in Seq(Txs(d))
  <2>1. Chain(d, list, h, f)
    BY <1>2 DEF AreChains, Pending
  <2> HIDE DEF h, f
  <2> QED
    BY <2>1, ChainOfTxs
<1>4. t \in Txs(d) /\ t \in Nat
  BY <1>3, ConsOf, TxsNat
<1>5. d[t].ctr \in Nat
  BY <1>4, TypedFields DEF Txs, IsTxH, Devices, TxHs
<1> HIDE DEF t
<1>6. <<t>> \in Seq(Txs(d))
  BY <1>4
<1> DEFINE one == <<t>>
<1> HIDE DEF one
<1>7. e \in Devices /\ Undamaged(e)
  <2>1. one \in Seq(Txs(d))
    BY <1>6 DEF one
  <2>2. AllPairs(d, one) \in Seq(Pairs)
    BY <2>1, AllPairsAre
  <2>3. \A k \in 1 .. Len(AllPairs(d, one)) : AllPairs(d, one)[k] \in LogPairs
    BY <2>1, CleanPairs
  <2>4. Replayed(d, one) = Put(d, AllPairs(d, one))
    BY ReplayedIs
  <2> HIDE DEF LogPairs
  <2> QED
    BY <2>2, <2>3, <2>4, PutTyped DEF one
<1>8. Clean(c) /\ c \in Content /\ c.type = "footer"
  BY <1>4, <1>5, Cleans DEF Clean, Footer
<1>9. Flushed(d, t) = Written(e, FooterBlk, c)
  BY DEF Flushed, Written
<1> HIDE DEF e, c
<1> QED
  BY <1>7, <1>8, <1>9, WrittenTyped, BlockNumbers, BlocksDiffer DEF t

(* A damaged block still holds numbers.                                     *)
LEMMA DamagedTyped ==
  ASSUME NEW c \in Content, NEW n \in Nat, NEW e \in Damaged(c, n)
  PROVE  e \in Content
<1>1. CASE c.type = "header"
  <2>1. c \in Headers
    BY <1>1, TypedFields
  <2>2. e = [c EXCEPT !.last = n]
    BY <1>1 DEF Damaged
  <2> QED
    BY <2>1, <2>2 DEF Content, Headers
<1>2. CASE c.type = "footer"
  <2>1. c \in Footers
    BY <1>2, TypedFields
  <2>2. e = [c EXCEPT !.flushed = n]
    BY <1>2 DEF Damaged
  <2> QED
    BY <2>1, <2>2 DEF Content, Footers
<1>3. CASE c.type = "txh"
  <2>1. c \in TxHs
    BY <1>3, TypedFields
  <2>2. e = [c EXCEPT !.prev = n] \/ e = [c EXCEPT !.next = n] \/ e = Data(0)
    BY <1>3 DEF Damaged
  <2>3. Data(0) \in Content
    BY Cleans DEF Clean
  <2>4. [c EXCEPT !.prev = n] \in TxHs /\ [c EXCEPT !.next = n] \in TxHs
    BY <2>1 DEF TxHs
  <2> QED
    BY <2>2, <2>3, <2>4 DEF Content
<1>4. CASE c.type = "lgr"
  <2>1. c \in LGRs /\ c.entries \in Seq(Pairs)
    BY <1>4, TypedFields DEF LGRs
  <2> DEFINE es == c.entries
             wan(i) == [es EXCEPT ![i] = [es[i] EXCEPT !.wandered = n]]
             org(i) == [es EXCEPT ![i] = [es[i] EXCEPT !.original = n]]
             set(x) == [c EXCEPT !.entries = x]
  <2>2. \/ e = [c EXCEPT !.next = n] \/ e = Data(0)
        \/ \E i \in DOMAIN es : e = set(wan(i)) \/ e = set(org(i))
    BY <1>4 DEF Damaged
  <2>3. \A i \in DOMAIN es : wan(i) \in Seq(Pairs) /\ org(i) \in Seq(Pairs)
    <3>1. es \in Seq(Pairs) /\ DOMAIN es = 1 .. Len(es)
      BY <2>1, LenProperties
    <3> HIDE DEF es
    <3> TAKE i \in DOMAIN es
    <3>2. es[i] \in Pairs
      BY <3>1
    <3>3. [es[i] EXCEPT !.wandered = n] \in Pairs /\ [es[i] EXCEPT !.original = n] \in Pairs
      BY <3>2 DEF Pairs
    <3> HIDE DEF Pairs
    <3> QED
      BY <3>1, <3>3, ExceptSeq
  <2>4. \A x \in Seq(Pairs) : set(x) \in LGRs
    BY <2>1 DEF LGRs
  <2>5. [c EXCEPT !.next = n] \in LGRs
    BY <2>1 DEF LGRs
  <2>6. Data(0) \in Content
    BY Cleans DEF Clean
  <2> HIDE DEF es, wan, org, set
  <2> QED
    BY <2>2, <2>3, <2>4, <2>5, <2>6 DEF Content
<1>5. c.type \notin {"header", "footer", "txh", "lgr"} => Damaged(c, n) = {}
  BY DEF Damaged
<1> QED
  BY <1>1, <1>2, <1>3, <1>4, <1>5

-----------------------------------------------------------------------------
(* Types of the variables *)

Phases == {"off", "opened", "ready", "hung", "replay", "header", "footer", "alloc", "format", "closed"}

TxHeads == [nr : Nat, next : Nat]

Formats == [root : Nat, ctr : Nat]

EntitiesTyped ==
  /\ header \in Headers /\ footer \in Footers /\ format \in Formats /\ alloc \in Datas
  /\ dirty \in BOOLEAN /\ fdirty \in BOOLEAN /\ adirty \in BOOLEAN

TraversalTyped == txs \in Seq(TxHeads) /\ logblk \in Nat /\ pairs \in Seq(Pairs)

\* what holds of the device while no field of the journal is lost
NotDamaged == damage = 0 => Undamaged(disk) /\ \A k \in 1 .. Len(pairs) : pairs[k] \in LogPairs

(* The types of the variables.  What goal holds is said by ReplayInv.       *)
TypeOK ==
  /\ disk \in Devices /\ phase \in Phases
  /\ EntitiesTyped /\ TraversalTyped
  /\ commits \in Nat /\ crashes \in Nat /\ damage \in Nat /\ refused \in BOOLEAN
  /\ NotDamaged

(* They are right at first.                                                 *)
LEMMA TypeInit ==
  ASSUME Init
  PROVE  TypeOK
<1>1. \A b : FreshBlock(b) = Super(0, 0) \/ FreshBlock(b) = NoHeader \/ FreshBlock(b) = NoFooter \/ FreshBlock(b) = Data(0)
  BY DEF FreshBlock
<1>2. Clean(Super(0, 0)) /\ Clean(NoHeader) /\ Clean(NoFooter) /\ Clean(Data(0))
  BY Cleans DEF NoHeader, NoFooter
<1>3. \A b : Clean(FreshBlock(b))
  BY <1>1, <1>2
<1>4. disk = [b \in Blocks |-> FreshBlock(b)]
  BY DEF Init
<1>5. disk \in Devices
  BY <1>3, <1>4 DEF Devices, Clean
<1>6. FreshBlock(HeaderBlk).type = "header" /\ FreshBlock(FooterBlk).type = "footer"
  BY BlocksDiffer DEF FreshBlock, NoHeader, NoFooter, Header, Footer
<1>7. \A b \in Blocks : disk[b] = FreshBlock(b)
  BY <1>4
<1>8. Undamaged(disk)
  BY <1>3, <1>6, <1>7, BlockNumbers DEF Undamaged
<1>9. EntitiesTyped
  BY Contents DEF Init, EntitiesTyped, NoHeader, NoFooter, NoFormat, Formats
<1>10. TraversalTyped /\ pairs = <<>>
  BY DEF Init, TraversalTyped
<1>11. NotDamaged
  BY <1>8, <1>10 DEF NotDamaged
<1> QED
  BY <1>5, <1>9, <1>10, <1>11 DEF Init, TypeOK, Phases

(* An entity that is closed.                                                *)
LEMMA ClosedTyped ==
  ASSUME Closed
  PROVE  EntitiesTyped' /\ TraversalTyped' /\ pairs' = <<>>
<1>1. 0 \in Nat /\ Header(0) \in Headers /\ Footer(0, 0) \in Footers /\ Data(0) \in Datas
  BY Contents
<1>2. EntitiesTyped'
  BY <1>1 DEF Closed, EntitiesTyped, NoHeader, NoFooter, NoFormat, Formats
<1>3. TraversalTyped' /\ pairs' = <<>>
  BY DEF Closed, TraversalTyped
<1> QED
  BY <1>2, <1>3

(* What is saved next is a phase.                                           *)
LEMMA SavingIs ==
  ASSUME NEW j, NEW a, NEW f
  PROVE  Saving(j, a, f) \in {"header", "alloc", "format", "closed"} /\ Saving(j, a, f) \in Phases
BY DEF Saving, Phases

(* The kernel and the media leave the types right.                          *)
LEMMA EnvironmentTyped ==
  ASSUME TypeOK, (\E S \in SUBSET Originals0 \ {{}}, n \in 1 .. 2 : Commit(S, n)) \/ Flush \/ Damage
  PROVE  TypeOK'
<1>1. CASE \E S \in SUBSET Originals0 \ {{}}, n \in 1 .. 2 : Commit(S, n)
  <2>1. PICK S \in SUBSET Originals0 \ {{}}, n \in 1 .. 2 : Commit(S, n)
    BY <1>1
  <2> DEFINE s == Ascending(S)  f == FreeLog(disk)
  <2>2. Lists(s, S) /\ Lists(f, LogArea \ InUse(disk))
    <3>1. S \in SUBSET Blocks /\ LogArea \ InUse(disk) \in SUBSET Blocks
      BY BlocksDiffer
    <3> QED
      BY <3>1, AscendingIs DEF FreeLog
  <2>3. MayCommit(s, f, n)
    <3>1. n =< Cardinality(S) /\ 1 + n + Cardinality(S) =< Len(f)
      BY <2>1 DEF Commit
    <3> HIDE DEF s, f
    <3>2. s \in Seq(Originals0) /\ f \in Seq(LogArea)
      BY <2>2 DEF Lists
    <3> QED
      BY <2>2, <3>1, <3>2 DEF MayCommit, Lists
  <2>4. damage = 0 /\ disk \in Devices /\ Undamaged(disk) /\ commits + 1 \in Nat
    BY <2>1 DEF Commit, TypeOK, NotDamaged
  <2>5. disk' = WithTransaction(disk, s, f, n, commits + 1)
    BY <2>1 DEF Commit
  <2> HIDE DEF s, f
  <2>6. disk' \in Devices /\ Undamaged(disk')
    BY <2>3, <2>4, <2>5, CommitTyped
  <2>7. UNCHANGED <<phase, toolVars, crashes, damage>> /\ commits' \in Nat
    BY <2>1, <2>4 DEF Commit
  <2> QED
    BY <2>6, <2>7 DEF TypeOK, EntitiesTyped, TraversalTyped, NotDamaged, toolVars
<1>2. CASE Flush
  <2>1. damage = 0 /\ disk \in Devices /\ Undamaged(disk)
    BY <1>2 DEF Flush, TypeOK, NotDamaged
  <2>2. PICK list \in Pending(disk) : list # <<>> /\ disk' = Flushed(disk, list[1])
    BY <1>2 DEF Flush
  <2>3. disk' \in Devices /\ Undamaged(disk')
    BY <2>1, <2>2, FlushTyped
  <2>4. UNCHANGED <<phase, toolVars, envVars>>
    BY <1>2 DEF Flush
  <2> QED
    BY <2>3, <2>4 DEF TypeOK, EntitiesTyped, TraversalTyped, NotDamaged, toolVars, envVars
<1>3. CASE Damage
  <2>1. PICK b \in Blocks, n \in Junk : \E c \in Damaged(disk[b], n) : disk' = [disk EXCEPT ![b] = c]
    BY <1>3 DEF Damage
  <2>2. PICK c \in Damaged(disk[b], n) : disk' = [disk EXCEPT ![b] = c]
    BY <2>1
  <2>3. disk[b] \in Content /\ n \in Nat
    BY Journal40Assumption DEF TypeOK, Devices
  <2>4. c \in Content
    BY <2>3, DamagedTyped
  <2>5. disk' \in Devices
    BY <2>2, <2>4 DEF TypeOK, Devices
  <2>6. damage' \in Nat /\ damage' # 0 /\ UNCHANGED <<phase, toolVars, commits, crashes>>
    BY <1>3 DEF Damage, TypeOK
  <2> QED
    BY <2>5, <2>6 DEF TypeOK, EntitiesTyped, TraversalTyped, NotDamaged, toolVars
<1> QED
  BY <1>1, <1>2, <1>3

(* So do opening and checking, ...                                          *)
LEMMA OpeningTyped ==
  ASSUME TypeOK, journal40_open \/ repair_journal_check_struct
  PROVE  TypeOK'
<1>1. CASE journal40_open
  <2>1. /\ \A b \in Blocks : disk[b] \in Content
        /\ Junk \in SUBSET Nat /\ FixAlloc \in BOOLEAN
    BY Journal40Assumption DEF TypeOK, Devices
  <2>2. header' \in Headers
    <3>1. (header' = disk[HeaderBlk] /\ disk[HeaderBlk].type = "header") \/ \E n \in Junk : header' = Header(n)
      BY <1>1 DEF journal40_open, HeadersRead
    <3> QED
      BY <2>1, <3>1, TypedFields, BlockNumbers, Contents
  <2>3. footer' \in Footers
    <3>1. (footer' = disk[FooterBlk] /\ disk[FooterBlk].type = "footer") \/ \E n \in Junk : footer' = Footer(n, 0)
      BY <1>1 DEF journal40_open, FootersRead
    <3>2. 0 \in Nat
      OBVIOUS
    <3> QED
      BY <2>1, <3>1, <3>2, TypedFields, BlockNumbers, Contents
  <2>4. format' \in Formats
    <3>1. disk[FormatBlk] \in Supers
      BY <1>1, <2>1, TypedFields, BlockNumbers DEF journal40_open
    <3> QED
      BY <1>1, <3>1 DEF journal40_open, Supers, Formats
  <2>5. alloc' \in Datas
    BY <1>1, <2>1, TypedFields, BlockNumbers DEF journal40_open
  <2>6. adirty' \in BOOLEAN /\ phase' \in Phases
    BY <1>1, <2>1 DEF journal40_open, Phases
  <2>7. UNCHANGED <<disk, dirty, fdirty, txs, logblk, pairs, refused, envVars>>
    BY <1>1 DEF journal40_open
  <2> QED
    BY <2>2, <2>3, <2>4, <2>5, <2>6, <2>7 DEF TypeOK, EntitiesTyped, TraversalTyped, NotDamaged, envVars
<1>2. CASE repair_journal_check_struct
  <2>1. header.last \in Nat /\ footer.flushed \in Nat /\ disk \in Devices
    BY DEF TypeOK, EntitiesTyped, Headers, Footers
  <2>2. PICK r \in journal40_check_struct(disk, header.last, footer.flushed) : Checked(r)
    BY <1>2 DEF repair_journal_check_struct
  <2>3. ChecksOut(disk, r, footer.flushed)
    BY <2>1, <2>2, CheckMakesSound
  <2>4. header' \in Headers /\ dirty' \in BOOLEAN /\ phase' \in Phases
    BY <2>2, <2>3, Contents DEF Checked, ChecksOut, Phases
  <2>5. UNCHANGED <<disk, footer, format, fdirty, alloc, adirty, txs, logblk, pairs, refused, envVars>>
    BY <1>2 DEF repair_journal_check_struct
  <2> QED
    BY <2>4, <2>5 DEF TypeOK, EntitiesTyped, TraversalTyped, NotDamaged, envVars
<1> QED
  BY <1>1, <1>2

(* ... finding the transactions, ...                                        *)
LEMMA FindingTyped ==
  ASSUME TypeOK, FindTransactions
  PROVE  TypeOK'
<1>1. header.last \in Nat /\ footer.flushed \in Nat /\ disk \in Devices
  BY DEF TypeOK, EntitiesTyped, Headers, Footers
<1>2. UNCHANGED <<disk, header, footer, dirty, format, fdirty, alloc, adirty, pairs, envVars>>
  BY DEF FindTransactions
<1>3. txs' \in Seq(TxHeads) /\ logblk' \in Nat /\ phase' \in Phases /\ refused' \in BOOLEAN
  <2>1. CASE GiveUp /\ UNCHANGED <<txs, logblk, goal>>
    BY <2>1, SavingIs DEF GiveUp, TypeOK, TraversalTyped
  <2>2. CASE \E list \in TxLists(disk, header.last, footer.flushed) : Loaded(list)
    <3>1. PICK list \in TxLists(disk, header.last, footer.flushed) : Loaded(list)
      BY <2>2
    <3>2. list \in Seq(Txs(disk)) /\ Len(list) \in Nat /\ DOMAIN list = 1 .. Len(list)
      <4>1. AreChains(TxLists(disk, header.last, footer.flushed), disk, header.last, footer.flushed, AreaLen)
        BY <1>1, ListsAreChains
      <4>2. Chain(disk, list, header.last, footer.flushed)
        BY <3>1, <4>1 DEF AreChains
      <4> QED
        BY <4>2, ChainOfTxs, LenProperties
    <3>3. \A k \in 1 .. Len(list) : list[k] \in Nat /\ disk[list[k]].next \in Nat
      <4> TAKE k \in 1 .. Len(list)
      <4>1. IsTxH(disk, list[k])
        BY <3>2 DEF Txs
      <4> QED
        BY <1>1, <4>1, TxHHas
    <3> DEFINE h(k) == [nr |-> list[k], next |-> disk[list[k]].next]
    <3>4. txs' = [k \in 1 .. Len(list) |-> h(k)] /\ \A k \in 1 .. Len(list) : h(k) \in TxHeads
      BY <3>1, <3>2, <3>3 DEF Loaded, TxHeads
    <3> HIDE DEF h
    <3>5. txs' \in Seq(TxHeads)
      BY <3>2, <3>4
    <3>6. logblk' \in Nat
      <4>1. list # <<>> => 1 \in 1 .. Len(list)
        BY <3>2, EmptySeq
      <4> QED
        BY <3>1, <3>3, <4>1 DEF Loaded
    <3>7. phase' \in Phases /\ refused' = refused
      BY <3>1 DEF Loaded, Phases
    <3> QED
      BY <3>5, <3>6, <3>7 DEF TypeOK
  <2> QED
    BY <2>1, <2>2 DEF FindTransactions
<1> QED
  BY <1>2, <1>3 DEF TypeOK, EntitiesTyped, TraversalTyped, NotDamaged, envVars

(* ... replaying them, ...                                                  *)
LEMMA ReplayingTyped ==
  ASSUME TypeOK, LoadRecord \/ cb_replay \/ ReplayFails \/ NextTransaction \/ ReplayDone
  PROVE  TypeOK'
<1>1. CASE LoadRecord
  <2>1. UNCHANGED <<disk, header, footer, dirty, format, fdirty, alloc, adirty, txs, goal, envVars>>
    BY <1>1 DEF LoadRecord
  <2>2. CASE IsLGR(disk, logblk)
    <3>1. pairs' = Entries(disk, logblk) /\ logblk' = disk[logblk].next /\ UNCHANGED <<phase, refused>>
      BY <1>1, <2>2 DEF LoadRecord
    <3>2. pairs' \in Seq(Pairs) /\ logblk' \in Nat
      BY <2>2, <3>1, EntriesAre, LGRHas DEF TypeOK
    <3>3. damage = 0 => \A k \in 1 .. Len(pairs') : pairs'[k] \in LogPairs
      <4> HAVE damage = 0
      <4>1. pairs' \in Seq(LogPairs)
        BY <3>1, CleanEntries DEF TypeOK, NotDamaged
      <4> HIDE DEF LogPairs
      <4> QED
        BY <4>1
    <3> QED
      BY <2>1, <3>1, <3>2, <3>3 DEF TypeOK, EntitiesTyped, TraversalTyped, NotDamaged, envVars
  <2>3. CASE ~IsLGR(disk, logblk)
    <3>1. GiveUp /\ UNCHANGED <<pairs, logblk>>
      BY <1>1, <2>3 DEF LoadRecord
    <3> QED
      BY <2>1, <3>1, SavingIs DEF GiveUp, TypeOK, EntitiesTyped, TraversalTyped, NotDamaged, envVars
  <2> QED
    BY <2>2, <2>3
<1>2. CASE cb_replay
  <2> DEFINE p == pairs[1]
  <2>1. UNCHANGED <<header, footer, dirty, format, fdirty, alloc, adirty, txs, logblk, goal, envVars>> /\ pairs # <<>>
    BY <1>2 DEF cb_replay
  <2>2. CASE {p.wandered, p.original} \subseteq Blocks
    <3>1. disk' = Moved(disk, p) /\ pairs' = Tail(pairs) /\ UNCHANGED <<phase, refused>>
      BY <1>2, <2>2 DEF cb_replay, Moved
    <3>2. /\ Tail(pairs) \in Seq(Pairs) /\ Len(Tail(pairs)) = Len(pairs) - 1
          /\ \A k \in 1 .. Len(Tail(pairs)) : Tail(pairs)[k] = pairs[k + 1]
          /\ Len(pairs) \in Nat \ {0}
      BY <2>1, HeadTailProperties, EmptySeq DEF TypeOK, TraversalTyped
    <3>3. disk' \in Devices
      BY <2>2, <3>1, MovedIs DEF TypeOK
    <3>4. damage = 0 => Undamaged(disk')
      <4> HAVE damage = 0
      <4>1. Undamaged(disk) /\ p \in LogPairs
        <5>1. 1 \in 1 .. Len(pairs)
          BY <3>2
        <5> QED
          BY <5>1 DEF TypeOK, NotDamaged
      <4>2. p.original \notin {HeaderBlk, FooterBlk} /\ p.original \in Blocks /\ p.wandered \in Blocks
        BY <4>1, BlocksDiffer DEF LogPairs
      <4>3. disk' = Written(disk, p.original, disk[p.wandered])
        BY <3>1 DEF Moved, Written
      <4>4. Clean(disk[p.wandered]) /\ disk[p.wandered] \in Content
        BY <4>1, <4>2 DEF Undamaged, Clean
      <4> QED
        BY <4>1, <4>2, <4>3, <4>4, WrittenTyped DEF TypeOK
    <3>5. damage = 0 => \A k \in 1 .. Len(pairs') : pairs'[k] \in LogPairs
      <4> HAVE damage = 0
      <4> TAKE k \in 1 .. Len(pairs')
      <4>1. k + 1 \in 1 .. Len(pairs) /\ pairs'[k] = pairs[k + 1]
        BY <3>1, <3>2
      <4> QED
        BY <4>1 DEF TypeOK, NotDamaged
    <3> HIDE DEF p
    <3> QED
      BY <2>1, <3>1, <3>2, <3>3, <3>4, <3>5 DEF TypeOK, EntitiesTyped, TraversalTyped, NotDamaged, envVars
  <2>3. CASE ~({p.wandered, p.original} \subseteq Blocks)
    <3>1. GiveUp /\ UNCHANGED <<disk, pairs>>
      BY <1>2, <2>3 DEF cb_replay
    <3> QED
      BY <2>1, <3>1, SavingIs DEF GiveUp, TypeOK, EntitiesTyped, TraversalTyped, NotDamaged, envVars
  <2> QED
    BY <2>2, <2>3
<1>3. CASE ReplayFails
  <2>1. phase' \in Phases /\ crashes' \in Nat /\ UNCHANGED <<disk, toolVars, commits, damage>>
    BY <1>3, SavingIs DEF ReplayFails, TypeOK
  <2> QED
    BY <2>1 DEF TypeOK, EntitiesTyped, TraversalTyped, NotDamaged, toolVars
<1>4. CASE NextTransaction
  <2>1. txs # <<>> /\ txs' = Tail(txs) /\ logblk' = IF Len(txs) > 1 THEN txs[2].next ELSE 0
    BY <1>4 DEF NextTransaction
  <2>2. UNCHANGED <<disk, phase, header, footer, dirty, format, fdirty, alloc, adirty, pairs, refused, goal, envVars>>
    BY <1>4 DEF NextTransaction
  <2>3. txs' \in Seq(TxHeads)
    BY <2>1, HeadTailProperties DEF TypeOK, TraversalTyped
  <2>4. logblk' \in Nat
    <3>1. \A k \in 1 .. Len(txs) : txs[k].next \in Nat
      <4>1. txs \in Seq(TxHeads)
        BY DEF TypeOK, TraversalTyped
      <4>2. \A k \in 1 .. Len(txs) : txs[k] \in TxHeads
        BY <4>1, ElementOfSeq
      <4> QED
        BY <4>2 DEF TxHeads
    <3>2. Len(txs) \in Nat
      BY LenProperties DEF TypeOK, TraversalTyped
    <3> QED
      BY <2>1, <3>1, <3>2
  <2> QED
    BY <2>2, <2>3, <2>4 DEF TypeOK, EntitiesTyped, TraversalTyped, NotDamaged, envVars
<1>5. CASE ReplayDone
  <2>1. UNCHANGED <<disk, alloc, adirty, txs, logblk, pairs, goal, envVars>>
    BY <1>5 DEF ReplayDone
  <2>2. UpdatedFormat \in Formats
    BY DEF UpdatedFormat, TypeOK, EntitiesTyped, Formats, Footers
  <2>3. CASE UpdateAccepts
    <3>1. /\ header' = NoHeader /\ footer' = NoFooter /\ dirty' = TRUE
          /\ format' = format40_update(UpdatedFormat, disk[FormatBlk]) /\ fdirty' = TRUE
          /\ phase' = "header" /\ UNCHANGED refused
      BY <1>5, <2>3 DEF ReplayDone
    <3>2. NoHeader \in Headers /\ NoFooter \in Footers
      BY Contents DEF NoHeader, NoFooter
    <3>3. format' \in Formats
      <4>1. disk[FormatBlk].type = "super" => disk[FormatBlk].root \in Nat
        BY TypedFields, BlockNumbers DEF TypeOK, Devices, Supers
      <4> DEFINE fm == UpdatedFormat
      <4> HIDE DEF fm
      <4> QED
        BY <2>2, <3>1, <4>1 DEF format40_update, Formats, fm
    <3> QED
      BY <2>1, <3>1, <3>2, <3>3 DEF TypeOK, EntitiesTyped, TraversalTyped, NotDamaged, envVars, Phases
  <2>4. CASE ~UpdateAccepts
    <3>1. /\ format' = UpdatedFormat /\ fdirty' = (fdirty \/ footer.flushed # 0)
          /\ refused' = TRUE /\ phase' = Saving(dirty, adirty, fdirty')
          /\ UNCHANGED <<header, footer, dirty>>
      BY <1>5, <2>4 DEF ReplayDone
    <3>2. phase' \in Phases /\ fdirty' \in BOOLEAN
      BY <3>1, SavingIs
    <3> QED
      BY <2>1, <2>2, <3>1, <3>2 DEF TypeOK, EntitiesTyped, TraversalTyped, NotDamaged, envVars
  <2> QED
    BY <2>3, <2>4
<1> QED
  BY <1>1, <1>2, <1>3, <1>4, <1>5

(* ... saving, closing and crashing.                                        *)
LEMMA SavingTyped ==
  ASSUME TypeOK, SyncHeader \/ SyncFooter \/ SyncAlloc \/ SyncFormat \/ Close \/ Crash
  PROVE  TypeOK'
<1>1. disk \in Devices /\ header \in Headers /\ footer \in Footers /\ format \in Formats /\ alloc \in Datas
  BY DEF TypeOK, EntitiesTyped
<1>2. ASSUME NEW b \in Blocks, NEW c \in Content, Clean(c), disk' = [disk EXCEPT ![b] = c],
             b = HeaderBlk => c.type = "header", b = FooterBlk => c.type = "footer",
             phase' \in Phases, dirty' \in BOOLEAN, adirty' \in BOOLEAN, fdirty' \in BOOLEAN,
             UNCHANGED <<header, footer, format, alloc, txs, logblk, pairs, refused, envVars>>
      PROVE  TypeOK'
  <2>1. disk' = Written(disk, b, c)
    BY <1>2 DEF Written
  <2>2. disk' \in Devices /\ (Undamaged(disk) => Undamaged(disk'))
    BY <1>1, <1>2, <2>1, WrittenTyped
  <2> QED
    BY <1>2, <2>2 DEF TypeOK, EntitiesTyped, TraversalTyped, NotDamaged, envVars
<1>3. CASE SyncHeader
  <2>1. header \in Content /\ Clean(header) /\ header.type = "header"
    BY <1>1 DEF Headers, Content, Clean
  <2>2. /\ disk' = [disk EXCEPT ![HeaderBlk] = header] /\ phase' \in Phases
        /\ UNCHANGED <<header, footer, dirty, format, fdirty, alloc, adirty, txs, logblk, pairs, refused, envVars>>
    BY <1>3 DEF SyncHeader, toolVars, Phases
  <2> QED
    BY <1>2, <2>1, <2>2, BlockNumbers, BlocksDiffer DEF TypeOK, EntitiesTyped
<1>4. CASE SyncFooter
  <2>1. footer \in Content /\ Clean(footer) /\ footer.type = "footer"
    BY <1>1 DEF Footers, Content, Clean
  <2>2. /\ disk' = [disk EXCEPT ![FooterBlk] = footer] /\ phase' \in Phases /\ dirty' = FALSE
        /\ UNCHANGED <<header, footer, format, fdirty, alloc, adirty, txs, logblk, pairs, refused, envVars>>
    BY <1>4, SavingIs DEF SyncFooter
  <2> QED
    BY <1>2, <2>1, <2>2, BlockNumbers, BlocksDiffer DEF TypeOK, EntitiesTyped
<1>5. CASE SyncAlloc
  <2>1. alloc \in Content /\ Clean(alloc)
    BY <1>1 DEF Datas, Content, Clean
  <2>2. /\ disk' = [disk EXCEPT ![AllocBlk] = alloc] /\ phase' \in Phases /\ adirty' = FALSE
        /\ UNCHANGED <<header, footer, dirty, format, fdirty, alloc, txs, logblk, pairs, refused, envVars>>
    BY <1>5, SavingIs DEF SyncAlloc
  <2> QED
    BY <1>2, <2>1, <2>2, BlockNumbers, BlocksDiffer DEF TypeOK, EntitiesTyped
<1>6. CASE SyncFormat
  <2> DEFINE c == Super(format.root, format.ctr)
  <2>1. c \in Content /\ Clean(c)
    <3>1. format.root \in Nat /\ format.ctr \in Nat
      BY <1>1 DEF Formats
    <3>2. Clean(c)
      BY <3>1, Cleans
    <3> QED
      BY <3>2 DEF Clean
  <2>2. /\ disk' = [disk EXCEPT ![FormatBlk] = c] /\ phase' \in Phases /\ fdirty' = FALSE
        /\ UNCHANGED <<header, footer, dirty, format, alloc, adirty, txs, logblk, pairs, refused, envVars>>
    BY <1>6 DEF SyncFormat, Phases
  <2> HIDE DEF c
  <2> QED
    BY <1>2, <2>1, <2>2, BlockNumbers, BlocksDiffer DEF TypeOK, EntitiesTyped
<1>7. CASE Close \/ Crash
  <2>1. Closed /\ phase' \in Phases /\ crashes' \in Nat /\ UNCHANGED <<disk, refused, commits, damage>>
    BY <1>7 DEF Close, Crash, TypeOK, Phases, envVars
  <2>2. EntitiesTyped' /\ TraversalTyped' /\ pairs' = <<>>
    BY <2>1, ClosedTyped
  <2> QED
    BY <2>1, <2>2 DEF TypeOK, NotDamaged
<1> QED
  BY <1>3, <1>4, <1>5, <1>6, <1>7

(* Every step leaves the types right.                                       *)
LEMMA TypeStep ==
  ASSUME TypeOK, [Next]_vars
  PROVE  TypeOK'
<1>1. CASE UNCHANGED vars
  BY <1>1 DEF vars, toolVars, envVars, TypeOK, EntitiesTyped, TraversalTyped, NotDamaged
<1> QED
  BY <1>1, EnvironmentTyped, OpeningTyped, FindingTyped, ReplayingTyped, SavingTyped DEF Next, Tool

(* Every reachable state is made of what the program's variables can hold,  *)
(* and as long as no medium has damaged it, the device has a journal header *)
(* and footer and its log records only pairs that the kernel may write.     *)
THEOREM TypeCorrect == Spec => []TypeOK
<1>1. Init => TypeOK
  BY TypeInit
<1>2. TypeOK /\ [Next]_vars => TypeOK'
  BY TypeStep
<1> QED
  BY <1>1, <1>2, PTL DEF Spec

-----------------------------------------------------------------------------
(* The inductive invariant *)

\* An opened journal has the header that is on the device.
Opened == phase = "opened" /\ disk[HeaderBlk].type = "header" => header = disk[HeaderBlk]

\* No replay is half way through.
Quiet == phase \in {"off", "opened", "ready"} => pairs = <<>>

\* All has been replayed and can be accepted, ...
AllReplayed == txs = <<>> /\ pairs = <<>> /\ goal = disk /\ UpdateAccepts

\* ... or what is left of the device d0 can be.
ReplayLeft(d0, list, s) ==
  /\ txs = Heads(d0, list) /\ InReplay(d0, disk, list, logblk, pairs, s, goal)
  /\ header.last = list[Len(list)]

Replaying == phase = "replay" => AllReplayed \/ \E d0, list, s : ReplayLeft(d0, list, s)

IInv == TypeOK /\ Opened /\ Quiet /\ CheckedIsSound /\ SoundIsKept /\ Replaying /\ NeverRefused

(* It holds at first.                                                       *)
LEMMA InitIInv ==
  ASSUME Init
  PROVE  IInv
<1>1. phase = "off" /\ pairs = <<>> /\ refused = FALSE
  BY DEF Init
<1> QED
  BY <1>1, TypeInit DEF IInv, Opened, Quiet, CheckedIsSound, SoundIsKept, Replaying, NeverRefused

(* Where the traversal is.                                                  *)
LEMMA HeadsHave ==
  ASSUME NEW d, NEW S, NEW list \in Seq(S), list # <<>>
  PROVE  /\ Heads(d, list) # <<>> /\ Heads(d, list)[1].nr = list[1] /\ Len(Heads(d, list)) = Len(list)
         /\ Len(list) \in Nat \ {0}
         /\ Tail(Heads(d, list)) = Heads(d, Tail(list))
         /\ Len(list) > 1 => Heads(d, list)[2].next = d[Tail(list)[1]].next
<1> DEFINE h(x) == [nr |-> x, next |-> d[x].next]  n == Len(list)  hs == Heads(d, list)  H == {h(x) : x \in S}
           rest == Tail(list)
<1>1. n \in Nat \ {0} /\ DOMAIN list = 1 .. n /\ \A k \in 1 .. n : list[k] \in S
  BY EmptySeq, LenProperties, ElementOfSeq
<1>2. hs = [k \in 1 .. n |-> h(list[k])]
  BY <1>1 DEF Heads
<1>3. rest \in Seq(S) /\ Len(rest) = n - 1 /\ \A i \in 1 .. Len(rest) : rest[i] = list[i + 1]
  BY HeadTailProperties
<1>4. Heads(d, rest) = [k \in 1 .. n - 1 |-> h(rest[k])]
  <2>1. DOMAIN rest = 1 .. n - 1
    BY <1>3, LenProperties
  <2> QED
    BY <2>1 DEF Heads
<1>5. h(list[1]).nr = list[1]
  OBVIOUS
<1>6. \A x : h(x).next = d[x].next
  OBVIOUS
<1>7. \A k \in 1 .. n : h(list[k]) \in H
  BY <1>1
<1> HIDE DEF h, n, hs, H, rest
<1>8. hs \in Seq(H) /\ Len(hs) = n /\ hs # <<>> /\ hs[1] = h(list[1])
  <2>1. hs \in [1 .. n -> H]
    BY <1>2, <1>7
  <2>2. hs \in Seq(H) /\ Len(hs) = n
    BY <1>1, <2>1
  <2>3. 1 \in 1 .. n
    BY <1>1
  <2> QED
    BY <1>1, <1>2, <2>2, <2>3, EmptySeq
<1>9. Tail(hs) \in Seq(H) /\ Len(Tail(hs)) = n - 1 /\ \A i \in 1 .. n - 1 : Tail(hs)[i] = hs[i + 1]
  BY <1>8, HeadTailProperties
<1>10. \A i \in 1 .. n - 1 : Tail(hs)[i] = h(rest[i])
  <2> TAKE i \in 1 .. n - 1
  <2>1. i + 1 \in 1 .. n /\ i \in 1 .. Len(rest)
    BY <1>1, <1>3
  <2> QED
    BY <1>2, <1>3, <1>9, <2>1
<1>11. Tail(hs) = Heads(d, rest)
  <2> DEFINE u == Tail(hs)
  <2>1. DOMAIN u = 1 .. n - 1
    BY <1>9, LenProperties
  <2>2. u = [i \in 1 .. n - 1 |-> u[i]]
    <3>1. u \in [DOMAIN u -> H]
      BY <1>9, LenProperties
    <3> HIDE DEF u
    <3> QED
      BY <2>1, <3>1
  <2> QED
    BY <1>4, <1>10, <2>2
<1>12. n > 1 => hs[2].next = d[rest[1]].next
  <2> HAVE n > 1
  <2>1. 2 \in 1 .. n /\ 1 \in 1 .. Len(rest) /\ 1 + 1 = 2
    BY <1>1, <1>3
  <2>2. hs[2] = h(list[2]) /\ rest[1] = list[2]
    BY <1>2, <1>3, <2>1
  <2> QED
    BY <1>6, <2>2
<1>13. hs # <<>> /\ hs[1].nr = list[1] /\ Len(hs) = n
  BY <1>5, <1>8
<1> QED
  BY <1>1, <1>11, <1>12, <1>13 DEF hs, rest, n

\* the invariant without the types
Parts == Opened /\ Quiet /\ CheckedIsSound /\ SoundIsKept /\ Replaying /\ NeverRefused

(* In the other phases nothing is claimed.                                  *)
LEMMA Elsewhere ==
  ASSUME NeverRefused, refused' = refused,
         phase' \notin {"opened", "ready", "replay"}, phase' = "off" => pairs' = <<>>
  PROVE  Parts'
BY DEF Parts, Opened, Quiet, CheckedIsSound, SoundIsKept, Replaying, NeverRefused

(* The journal is opened and checked.                                       *)
LEMMA CheckStep ==
  ASSUME IInv, journal40_open \/ repair_journal_check_struct
  PROVE  Parts'
<1>1. CASE journal40_open
  <2>1. disk[HeaderBlk].type = "header" => header' = disk[HeaderBlk]
    BY <1>1 DEF journal40_open, HeadersRead
  <2>2. phase = "off" /\ phase' = "opened" /\ UNCHANGED <<disk, pairs, refused>>
    BY <1>1 DEF journal40_open
  <2> QED
    BY <2>1, <2>2 DEF IInv, Parts, Opened, Quiet, CheckedIsSound, SoundIsKept, Replaying, NeverRefused
<1>2. CASE repair_journal_check_struct
  <2>1. header.last \in Nat /\ footer.flushed \in Nat /\ disk \in Devices
    BY DEF IInv, TypeOK, EntitiesTyped, Headers, Footers
  <2>2. PICK r \in journal40_check_struct(disk, header.last, footer.flushed) : Checked(r)
    BY <1>2 DEF repair_journal_check_struct
  <2>3. ChecksOut(disk, r, footer.flushed)
    BY <2>1, <2>2, CheckMakesSound
  <2>4. phase = "opened" /\ UNCHANGED <<disk, footer, pairs, refused>>
    BY <1>2 DEF repair_journal_check_struct
  <2>5. header'.last = r.last /\ dirty' = (r.res = "cut")
        /\ phase' = CASE r.res = "eio" -> "closed" [] r.res = "never" -> "hung" [] OTHER -> "ready"
    BY <2>2 DEF Checked, Header
  <2>6. phase' \in {"closed", "hung"} \/ (phase' = "ready" /\ r.res \in {"fine", "cut"})
    BY <2>3, <2>5 DEF ChecksOut
  <2>7. r.res \in {"fine", "cut"} => Sound(disk, header'.last, footer.flushed)
    BY <2>3, <2>5 DEF ChecksOut
  <2>8. r.res = "cut" /\ disk[HeaderBlk].type = "header" => ~Sound(disk, disk[HeaderBlk].last, footer.flushed)
    <3> SUFFICES ASSUME r.res = "cut", disk[HeaderBlk].type = "header",
                        Sound(disk, disk[HeaderBlk].last, footer.flushed)
                 PROVE  FALSE
      OBVIOUS
    <3>1. Sound(disk, header.last, footer.flushed)
      BY <2>4 DEF IInv, Opened
    <3>2. r.res = "fine"
      BY <2>1, <2>2, <3>1, SoundStays
    <3> QED
      BY <3>2
  <2>9. CheckedIsSound'
    BY <2>4, <2>6, <2>7 DEF CheckedIsSound
  <2>10. SoundIsKept'
    BY <2>4, <2>5, <2>8 DEF SoundIsKept
  <2> QED
    BY <2>4, <2>6, <2>9, <2>10 DEF IInv, Parts, Opened, Quiet, Replaying, NeverRefused
<1> QED
  BY <1>1, <1>2

(* The transactions are found.                                              *)
LEMMA FindStep ==
  ASSUME IInv, FindTransactions
  PROVE  Parts'
<1>1. header.last \in Nat /\ footer.flushed \in Nat /\ disk \in Devices
  BY DEF IInv, TypeOK, EntitiesTyped, Headers, Footers
<1> DEFINE last == header.last  flushed == footer.flushed
<1>2. phase = "ready" /\ pairs = <<>> /\ UNCHANGED <<disk, header, footer, pairs>>
  BY DEF FindTransactions, IInv, Quiet
<1>3. PICK list \in TxLists(disk, last, flushed) : SoundList(disk, list)
  BY <1>2 DEF IInv, CheckedIsSound, Sound
<1>4. AreChains(TxLists(disk, last, flushed), disk, last, flushed, AreaLen)
  BY <1>1, ListsAreChains
<1>5. Loaded(list)
  <2>1. PICK x \in TxLists(disk, last, flushed) : Loaded(x)
    BY <1>3 DEF FindTransactions
  <2>2. x = list
    BY <1>3, <1>4, <2>1 DEF AreChains
  <2> QED
    BY <2>1, <2>2
<1>6. Chain(disk, list, last, flushed)
  BY <1>3, <1>4 DEF AreChains
<1>7. list \in Seq(Txs(disk)) /\ Len(list) \in Nat
  BY <1>6, ChainOfTxs
<1>8. /\ txs' = Heads(disk, list)
      /\ logblk' = IF list = <<>> THEN 0 ELSE disk[list[1]].next
      /\ goal' = Replayed(disk, list) /\ phase' = "replay" /\ UNCHANGED refused
  BY <1>5 DEF Loaded, Heads
<1>9. CASE list = <<>>
  <2>1. txs' = <<>>
    <3>1. [k \in DOMAIN <<>> |-> [nr |-> <<>>[k], next |-> disk[<<>>[k]].next]] = <<>>
      OBVIOUS
    <3> QED
      BY <1>8, <1>9, <3>1 DEF Heads
  <2>2. goal' = disk
    BY <1>1, <1>8, <1>9, ReplayedIs, NothingLeft, PutNone
  <2>3. UpdateAccepts'
    <3>1. last = flushed
      BY <1>6, <1>9 DEF Chain
    <3> QED
      BY <1>2, <3>1 DEF UpdateAccepts
  <2>4. AllReplayed'
    BY <1>2, <2>1, <2>2, <2>3 DEF AllReplayed
  <2> QED
    BY <1>8, <2>4 DEF IInv, Parts, Opened, Quiet, CheckedIsSound, SoundIsKept, Replaying, NeverRefused
<1>10. CASE list # <<>>
  <2> DEFINE s == LogRecords(disk, list[1]).blks
  <2>1. InReplay(disk, disk, list, disk[list[1]].next, <<>>, s, Replayed(disk, list))
    BY <1>1, <1>3, <1>7, <1>10, StartReplay
  <2>2. last = list[Len(list)]
    <3>1. Len(list) # 0
      BY <1>7, <1>10, EmptySeq
    <3> QED
      BY <1>6, <3>1 DEF Chain
  <2> HIDE DEF s
  <2>4. \E d0, list_, s_ : ReplayLeft(d0, list_, s_)'
    BY <1>2, <1>8, <1>10, <2>1, <2>2 DEF ReplayLeft
  <2> QED
    BY <1>8, <2>4 DEF IInv, Parts, Opened, Quiet, CheckedIsSound, SoundIsKept, Replaying, NeverRefused
<1> QED
  BY <1>9, <1>10

(* A log record is loaded, a pair is replayed, a transaction has been.      *)
LEMMA ReplayStep ==
  ASSUME IInv, LoadRecord \/ cb_replay \/ NextTransaction
  PROVE  Parts'
<1>1. phase = "replay" /\ UNCHANGED <<header, footer, goal>>
      /\ ~AllReplayed
  BY DEF LoadRecord, AtRecord, cb_replay, NextTransaction, AllReplayed
<1>2. PICK d0, list, s : ReplayLeft(d0, list, s)
  BY <1>1 DEF IInv, Replaying
<1>3. /\ txs = Heads(d0, list) /\ header.last = list[Len(list)]
      /\ InReplay(d0, disk, list, logblk, pairs, s, goal)
  BY <1>2 DEF ReplayLeft
<1>4. d0 \in Devices /\ list \in Seq(Txs(d0)) /\ list # <<>>
  BY <1>3 DEF InReplay
<1>5. /\ txs # <<>> /\ txs[1].nr = list[1] /\ Len(txs) = Len(list) /\ Len(list) \in Nat \ {0}
      /\ Tail(txs) = Heads(d0, Tail(list))
      /\ Len(list) > 1 => txs[2].next = d0[Tail(list)[1]].next
  BY <1>3, <1>4, HeadsHave
<1>6. CASE LoadRecord
  <2>1. pairs = <<>> /\ logblk # list[1]
    BY <1>5, <1>6 DEF LoadRecord, AtRecord
  <2>2. IsLGR(disk, logblk) /\ InReplay(d0, disk, list, disk[logblk].next, Entries(disk, logblk), Tail(s), goal)
    BY <1>3, <2>1, LoadStep
  <2>3. /\ pairs' = Entries(disk, logblk) /\ logblk' = disk[logblk].next
        /\ UNCHANGED <<phase, refused, disk, txs, header, goal>>
    BY <1>6, <2>2 DEF LoadRecord
  <2>4. \E d0_, list_, s_ : ReplayLeft(d0_, list_, s_)'
    BY <1>3, <2>2, <2>3 DEF ReplayLeft
  <2> QED
    BY <1>1, <2>3, <2>4 DEF IInv, Parts, Opened, Quiet, CheckedIsSound, SoundIsKept, Replaying, NeverRefused
<1>7. CASE cb_replay
  <2>1. pairs # <<>>
    BY <1>7 DEF cb_replay
  <2>2. /\ pairs[1].wandered \in Blocks /\ pairs[1].original \in Blocks
        /\ InReplay(d0, Moved(disk, pairs[1]), list, logblk, Tail(pairs), s, goal)
    BY <1>3, <2>1, PairStep
  <2>3. /\ disk' = Moved(disk, pairs[1]) /\ pairs' = Tail(pairs)
        /\ UNCHANGED <<phase, refused, txs, logblk, header, goal>>
    BY <1>7, <2>2 DEF cb_replay, Moved
  <2>4. \E d0_, list_, s_ : ReplayLeft(d0_, list_, s_)'
    BY <1>3, <2>2, <2>3 DEF ReplayLeft
  <2> QED
    BY <1>1, <2>3, <2>4 DEF IInv, Parts, Opened, Quiet, CheckedIsSound, SoundIsKept, Replaying, NeverRefused
<1>8. CASE NextTransaction
  <2>1. /\ pairs = <<>> /\ logblk = list[1] /\ txs' = Tail(txs)
        /\ logblk' = IF Len(txs) > 1 THEN txs[2].next ELSE 0
        /\ UNCHANGED <<disk, phase, header, footer, pairs, refused, goal>>
    BY <1>5, <1>8 DEF NextTransaction
  <2>2. CASE Len(list) = 1
    <3>1. goal = disk /\ IsTxH(disk, list[1])
      BY <1>3, <2>1, <2>2, LastStep
    <3>2. txs' = <<>>
      <4>1. Tail(list) = <<>>
        <5>1. Tail(list) \in Seq(Txs(d0)) /\ Len(Tail(list)) = 0
          BY <1>4, <2>2, HeadTailProperties
        <5> QED
          BY <5>1, EmptySeq
      <4>2. [k \in DOMAIN <<>> |-> [nr |-> <<>>[k], next |-> d0[<<>>[k]].next]] = <<>>
        OBVIOUS
      <4> QED
        BY <1>5, <2>1, <4>1, <4>2 DEF Heads
    <3>3. AllReplayed'
      BY <1>3, <2>1, <2>2, <3>1, <3>2 DEF AllReplayed, UpdateAccepts
    <3> QED
      BY <1>1, <2>1, <3>3 DEF IInv, Parts, Opened, Quiet, CheckedIsSound, SoundIsKept, Replaying, NeverRefused
  <2>3. CASE Len(list) # 1
    <3> DEFINE rest == Tail(list)  r == LogRecords(d0, rest[1]).blks
    <3>1. /\ rest \in Seq(Txs(d0)) /\ rest # <<>>
          /\ InReplay(d0, disk, rest, d0[rest[1]].next, <<>>, r, goal)
      BY <1>3, <2>1, <2>3, NextStep
    <3>2. Len(list) > 1
      BY <1>5, <2>3
    <3>3. logblk' = d0[rest[1]].next /\ txs' = Heads(d0, rest)
      BY <1>5, <2>1, <3>2
    <3>4. header.last = rest[Len(rest)]
      <4>1. Len(rest) = Len(list) - 1 /\ \A i \in 1 .. Len(rest) : rest[i] = list[i + 1]
        BY <1>4, HeadTailProperties
      <4>2. Len(rest) \in 1 .. Len(rest) /\ Len(rest) + 1 = Len(list)
        BY <1>5, <3>2, <4>1
      <4> QED
        BY <1>3, <4>1, <4>2
    <3> HIDE DEF rest, r
    <3>5. \E d0_, list_, s_ : ReplayLeft(d0_, list_, s_)'
      BY <2>1, <3>1, <3>3, <3>4 DEF ReplayLeft
    <3> QED
      BY <1>1, <2>1, <3>5 DEF IInv, Parts, Opened, Quiet, CheckedIsSound, SoundIsKept, Replaying, NeverRefused
  <2> QED
    BY <2>2, <2>3
<1> QED
  BY <1>6, <1>7, <1>8

(* When the replay is done, all has been replayed.                          *)
LEMMA DoneIsAll ==
  ASSUME IInv, ReplayDone
  PROVE  AllReplayed
<1>1. phase = "replay" /\ txs = <<>>
  BY DEF ReplayDone
<1>2. ASSUME NEW d0, NEW list, NEW s, ReplayLeft(d0, list, s) PROVE FALSE
  <2>1. txs = Heads(d0, list) /\ list \in Seq(Txs(d0)) /\ list # <<>>
    BY <1>2 DEF ReplayLeft, InReplay
  <2>2. Heads(d0, list) # <<>>
    BY <2>1, HeadsHave
  <2> QED
    BY <1>1, <2>1, <2>2
<1> QED
  BY <1>1, <1>2 DEF IInv, Replaying

(* Every step leaves the invariant right.                                   *)
LEMMA NextIInv ==
  ASSUME IInv, [Next]_vars
  PROVE  IInv'
<1>1. TypeOK'
  BY TypeStep DEF IInv
<1>2. CASE UNCHANGED vars
  <2>1. UNCHANGED <<disk, phase, header, footer, dirty, txs, logblk, pairs, refused, goal>>
    BY <1>2 DEF vars, toolVars
  <2>2. Opened' /\ Quiet' /\ CheckedIsSound' /\ SoundIsKept' /\ NeverRefused'
    BY <2>1 DEF IInv, Opened, Quiet, CheckedIsSound, SoundIsKept, NeverRefused
  <2>3. Replaying'
    BY <2>1 DEF IInv, Replaying, AllReplayed, UpdateAccepts, ReplayLeft
  <2> QED
    BY <1>1, <2>2, <2>3 DEF IInv
<1>3. CASE (\E S \in SUBSET Originals0 \ {{}}, n \in 1 .. 2 : Commit(S, n)) \/ Flush \/ Damage
  <2>1. phase = "off" /\ UNCHANGED <<phase, pairs, refused>>
    BY <1>3 DEF Commit, Flush, Damage, toolVars
  <2> QED
    BY <1>1, <2>1, Elsewhere DEF IInv, Parts, Quiet
<1>4. CASE journal40_open \/ repair_journal_check_struct
  BY <1>1, <1>4, CheckStep DEF IInv, Parts
<1>5. CASE FindTransactions
  BY <1>1, <1>5, FindStep DEF IInv, Parts
<1>6. CASE LoadRecord \/ cb_replay \/ NextTransaction
  BY <1>1, <1>6, ReplayStep DEF IInv, Parts
<1>7. CASE ReplayDone
  <2>1. UpdateAccepts
    BY <1>7, DoneIsAll DEF AllReplayed
  <2>2. phase' = "header" /\ UNCHANGED refused
    BY <1>7, <2>1 DEF ReplayDone
  <2> QED
    BY <1>1, <2>2, Elsewhere DEF IInv, Parts
<1>8. CASE ReplayFails
  <2>1. phase' \in {"header", "alloc", "format", "closed"} /\ UNCHANGED refused
    BY <1>8, SavingIs DEF ReplayFails, toolVars
  <2> QED
    BY <1>1, <2>1, Elsewhere DEF IInv, Parts
<1>9. CASE SyncHeader \/ SyncFooter \/ SyncAlloc \/ SyncFormat
  <2>1. phase' \in {"header", "footer", "alloc", "format", "closed"} /\ UNCHANGED refused
    BY <1>9, SavingIs DEF SyncHeader, SyncFooter, SyncAlloc, SyncFormat, toolVars
  <2> QED
    BY <1>1, <2>1, Elsewhere DEF IInv, Parts
<1>10. CASE Close \/ Crash
  <2>1. phase' = "off" /\ UNCHANGED refused /\ Closed
    BY <1>10 DEF Close, Crash
  <2>2. pairs' = <<>>
    BY <2>1 DEF Closed
  <2> QED
    BY <1>1, <2>1, <2>2, Elsewhere DEF IInv, Parts
<1> QED
  BY <1>2, <1>3, <1>4, <1>5, <1>6, <1>7, <1>8, <1>9, <1>10 DEF Next, Tool

(* The invariant holds in every reachable state.                            *)
THEOREM IInvHolds == Spec => []IInv
<1>1. Init => IInv
  BY InitIInv
<1>2. IInv /\ [Next]_vars => IInv'
  BY NextIInv
<1> QED
  BY <1>1, <1>2, PTL DEF Spec

(* After journal40_check_struct() the journal is right, whatever fields of  *)
(* it were damaged and however often fsck was interrupted before.           *)
THEOREM CheckedIsRight == Spec => []CheckedIsSound
<1>1. IInv => CheckedIsSound
  BY DEF IInv
<1> QED
  BY <1>1, IInvHolds, PTL

(* The check of a journal that was right cuts nothing from it.              *)
THEOREM RightIsKept == Spec => []SoundIsKept
<1>1. IInv => SoundIsKept
  BY DEF IInv
<1> QED
  BY <1>1, IInvHolds, PTL

(* A replay finds every transaction header and log record it goes on to,    *)
(* although it writes blocks all the time: none of those it still has to    *)
(* read is one it has written.                                              *)
THEOREM ReplayIsNeverRefused == Spec => []NeverRefused
<1>1. IInv => NeverRefused
  BY DEF IInv
<1> QED
  BY <1>1, IInvHolds, PTL

(* When journal40_replay() is done, the device has in the place of every    *)
(* original block what its last wandered block held before the replay       *)
(* began, and all other blocks as they were.                                *)
THEOREM ReplayDoesApply == Spec => ReplayApplies
<1>1. IInv /\ [Next]_vars => [ReplayDone => disk = goal]_vars
  <2> SUFFICES ASSUME IInv, ReplayDone PROVE disk = goal
    OBVIOUS
  <2> QED
    BY DoneIsAll DEF AllReplayed
<1> QED
  BY <1>1, IInvHolds, PTL DEF Spec, ReplayApplies
=============================================================================
