-------------------------- MODULE FilesystemProofs --------------------------
(***************************************************************************)
(* After an mkfs that was cut off or that failed the device only opens     *)
(* when all of the new file system is there, for devices and bitmap        *)
(* blocks of every size and for every number of crashes and damages.       *)
(***************************************************************************)
EXTENDS Filesystem, Basics

-----------------------------------------------------------------------------
(* The values of the state *)

\* The ids there are: no block was damaged to one that is yet to come.
Ids == {x \in Int : x < 100 + damages}

Masters == [magic : BOOLEAN, blksize : Int, pid : Int, uuid : Ids, label : Int]

Formats == [magic : BOOLEAN, len : Int, mkid : Ids, policy : Int, flags : Int,
            version : Int, upd : BOOLEAN, root : Int, counts : BOOLEAN]

Backups == [magic : {TRUE}, blksize : Int, pid : Int, uuid : Ids, label : Int,
            len : Int, mkid : Ids, policy : Int, flags : Int, version : Int,
            pset : Int]

States   == {"ok", "corrupted", "damaged"}
Statuses == [magic : BOOLEAN, state : States]
Allocs   == [gen : Int, crc : BOOLEAN]
Trees    == [gen : 0..MaxTrouble + 1, rootdir : BOOLEAN, pset : Int]

Parts == {"tree", "journal", "alloc", "backup", "format", "status", "master"}

Devices == [master : Masters \cup {None}, format : Formats, status : Statuses,
            alloc : Allocs, tree : Trees, journal : Formats \cup {None},
            copy : [Places -> Backups \cup {None}]]

Handles == [magic : {TRUE}, master : {m \in Masters : m.magic},
            format : {f \in Formats : f.magic /\ f.len \in MinLen..DevLen},
            status : Statuses, alloc : Allocs, tree : Trees,
            backup : Backups \cup {None}, dirty : SUBSET Parts]

\* What is written by name, and what is written of copies
Names  == {"tree", "journal", "alloc", "format", "status", "master"}
CopiesOf(len) == {CopyPlaces(len)[i] : i \in DOMAIN CopyPlaces(len)}
Copies == UNION {CopiesOf(len) : len \in MinLen..DevLen}
Writes == {Part(name) : name \in Names} \cup Copies

FsckSteps == {"replay", "passes", "fini", "close"}

TypeOK ==
  /\ dev \in Devices
  /\ pc \in {"idle", "mkfs", "made", "failed"} \cup FsckSteps
  /\ pc # "idle" => fs \in Handles
  /\ todo \in Seq(Writes)
  /\ gen \in 1..MaxTrouble + 1
  /\ damages \in Nat /\ crashes \in Nat

-----------------------------------------------------------------------------
(* What mkfs leaves behind when it stops *)

Occurs(t, name) == \E i \in 1..Len(t) : t[i].part = name
Pending(name) == Occurs(todo, name)

\* The tree has not got its root, or its root directory, or all is the new one's;
\* the ids of the new one are in both super blocks unless no copy has them.
Whole(d) ==
  \/ d.format.root = InvalBlk \/ d.format.root >= 100
  \/ ~d.tree.rootdir
  \/ /\ d.tree.gen = gen /\ d.alloc.gen = gen /\ d.format.len >= MinLen
     /\ \/ d.format.mkid = gen
        \/ \A p \in Places : d.copy[p].magic => d.copy[p].mkid # d.format.mkid
     /\ \/ d.master.uuid = gen
        \/ \A p \in Places : d.copy[p].magic => d.copy[p].uuid # d.master.uuid

\* What the blocks that are still to be written will make of the device
NoRoot ==
  fs.format.root = InvalBlk /\ (Pending("format") \/ dev.format.root = InvalBlk)

NoRootDir ==
  ~fs.tree.rootdir /\ (Pending("tree") \/ ~dev.tree.rootdir)

AllNew ==
  /\ fs.tree.gen = gen /\ (Pending("tree") \/ dev.tree.gen = gen)
  /\ fs.alloc.gen = gen /\ (Pending("alloc") \/ dev.alloc.gen = gen)
  /\ fs.format.mkid = gen
  /\ Pending("format") \/ (dev.format.mkid = gen /\ dev.format.len >= MinLen)
  /\ fs.master.uuid = gen

\* The master is the last block that is written.
MasterLast(t) ==
  /\ t # <<>> /\ t[Len(t)].part = "master"
  /\ \A i \in 1..Len(t) - 1 : t[i].part # "master"

Stopped == job.sb = "mkfs" /\ pc = "idle" /\ dev.master.magic => Whole(dev)

Building ==
  pc = "mkfs" =>
    /\ dev.master = None
    /\ fs.format.root = InvalBlk /\ fs.format.mkid = gen
    /\ fs.master.uuid = gen /\ fs.alloc.gen = gen
    /\ {"alloc", "format", "master"} \subseteq fs.dirty

Writing ==
  pc \in {"made", "failed"} =>
    IF todo = <<>> THEN Whole(dev)
    ELSE ~dev.master.magic /\ MasterLast(todo) /\ (NoRoot \/ NoRootDir \/ AllNew)

IInv ==
  /\ TypeOK
  /\ Stopped /\ Building /\ Writing
  /\ pc \in {"idle", "mkfs"} => todo = <<>>
  /\ pc \in FsckSteps => job.sb # "mkfs"
  /\ pc \in {"mkfs", "made", "failed"} => job.sb = "mkfs"

-----------------------------------------------------------------------------
(* Where the copies are *)

\* The exponents one by one, and as the equation of a function
AreExps(e) ==
  /\ e[0] = 2
  /\ \A i \in 1..DevLen : e[i] = (e[i - 1] * 3) \div 2

ExpFunction(e) == e = [i \in 0..DevLen |-> IF i = 0 THEN 2 ELSE (e[i - 1] * 3) \div 2]

(* The equation of BACKUP_EXP_LAYOUT, and its values one by one.            *)
LEMMA ExpUnfold ==
  ASSUME NEW e
  PROVE  ExpFunction(e) <=> AreExps(e) /\ e = [i \in 0..DevLen |-> e[i]]
<1>0. DevLen \in Nat
  BY ParameterAssumption
<1>1. ASSUME ExpFunction(e) PROVE AreExps(e) /\ e = [i \in 0..DevLen |-> e[i]]
  BY <1>0, <1>1 DEF ExpFunction, AreExps
<1>2. AreExps(e) => \A i \in 0..DevLen : e[i] = IF i = 0 THEN 2 ELSE (e[i - 1] * 3) \div 2
  BY <1>0 DEF AreExps
<1>3. ASSUME AreExps(e), e = [i \in 0..DevLen |-> e[i]] PROVE ExpFunction(e)
  BY <1>2, <1>3 DEF ExpFunction
<1> QED
  BY <1>1, <1>3

(* The layout starts behind block 2, with 3 (cb_region() of libreiser4/backup.c). *)
LEMMA FirstExp ==
  ExpLayout[1] = 3 /\ \A i \in 0..DevLen : ExpLayout[i] \in Nat
<1>0. DevLen \in Nat /\ DevLen > 2
  BY ParameterAssumption
<1>1. PICK G \in [1..DevLen -> [Nat -> Nat]] : \A n \in 1..DevLen : \A x \in Nat : G[n][x] = (x * 3) \div 2
  <2> DEFINE H == [n \in 1..DevLen |-> [x \in Nat |-> (x * 3) \div 2]]
  <2>0. \A x \in Nat : x * 3 \in Nat /\ (x * 3) \div 2 \in Nat
    OBVIOUS
  <2>1. H \in [1..DevLen -> [Nat -> Nat]]
    BY <2>0
  <2>2. \A n \in 1..DevLen : \A x \in Nat : H[n][x] = (x * 3) \div 2
    OBVIOUS
  <2> HIDE DEF H
  <2> QED
    BY <2>1, <2>2
<1>2. PICK f : IsIterate(f, DevLen, Nat, 2, G)
  BY <1>0, Iterates
<1>3. AreExps(f) /\ f = [i \in 0..DevLen |-> f[i]]
  <2>1. f \in [0..DevLen -> Nat] /\ f[0] = 2
    BY <1>2 DEF IsIterate
  <2>2. \A n \in 1..DevLen : f[n] = (f[n - 1] * 3) \div 2
    <3> SUFFICES ASSUME NEW n \in 1..DevLen PROVE f[n] = (f[n - 1] * 3) \div 2
      OBVIOUS
    <3>1. f[n] = G[n][f[n - 1]]
      BY <1>2 DEF IsIterate
    <3>2. n - 1 \in 0..DevLen
      BY <1>0
    <3>3. f[n - 1] \in Nat
      BY <2>1, <3>2
    <3> QED
      BY <1>1, <3>1, <3>3
  <2> QED
    BY <2>1, <2>2 DEF AreExps
<1>4. ExpFunction(f)
  BY <1>3, ExpUnfold
<1>5. ExpLayout = CHOOSE g : ExpFunction(g)
  BY Zenon DEF ExpLayout, ExpFunction
<1>6. ExpFunction(ExpLayout)
  BY <1>4, <1>5, Zenon
<1>7. AreExps(ExpLayout)
  BY <1>6, ExpUnfold
<1>8. ExpLayout[0] = 2 /\ ExpLayout[1] = (ExpLayout[1 - 1] * 3) \div 2
  <2>1. 1 \in 1..DevLen
    BY <1>0
  <2> QED
    BY <1>7, <2>1 DEF AreExps
<1>9. ExpLayout[1] = 3
  BY <1>8
<1>10. \A i \in 0..DevLen : ExpLayout[i] = f[i]
  <2>1. StepAlike(ExpLayout, f, DevLen)
    BY <1>3, <1>7 DEF AreExps, StepAlike
  <2> QED
    BY <1>0, <2>1, SameIterates
<1>11. f \in [0..DevLen -> Nat]
  BY <1>2 DEF IsIterate
<1> QED
  BY <1>9, <1>10, <1>11

(* Whatever the length, the first copy is the first block a copy may use;  *)
(* there are finitely many.                                                *)
LEMMA LayoutStarts ==
  ASSUME NEW len \in MinLen..DevLen, NEW total \in MinLen..DevLen
  PROVE  BackupStart \in LayoutBody[len][total] /\ IsFiniteSet(LayoutBody[len][total])
<1> DEFINE J == {j \in 1..DevLen : ExpLayout[j] <= len}
           C == {RegionCopy(ExpLayout[i], total) : i \in J}
<1>0. /\ DevLen \in Nat /\ RegionLen \in Nat /\ BackupStart \in Nat /\ MinLen \in Nat
      /\ 2 < BackupStart /\ BackupStart < RegionLen /\ BackupStart < MinLen /\ MinLen <= DevLen
  BY ParameterAssumption
<1>1. LayoutBody[len][total] = {c \in C : c <= len}
  BY DEF LayoutBody
<1>2. 1 \in J
  BY <1>0, FirstExp
<1>3. RegionCopy(3, total) = BackupStart
  <2> DEFINE q == 3 \div RegionLen
  <2>1. q \in Nat /\ q * RegionLen =< 3
    BY <1>0, DivBounds
  <2> HIDE DEF q
  <2>2. q = 0
    <3>1. q >= 1 => q * RegionLen >= RegionLen
      BY <1>0, <2>1
    <3> QED
      BY <1>0, <2>1, <3>1
  <2>3. q * RegionLen = 0
    BY <1>0, <2>2
  <2>4. (3 \div RegionLen) * RegionLen = 0
    BY <2>3 DEF q
  <2> QED
    BY <1>0, <2>4 DEF RegionCopy
<1>4. BackupStart \in C
  BY <1>2, <1>3, FirstExp
<1>5. ASSUME NEW blk \in Nat PROVE RegionCopy(blk, total) \in Nat
  <2> DEFINE start == (blk \div RegionLen) * RegionLen
  <2>1. start \in Nat
    <3>1. blk \div RegionLen \in Nat
      BY <1>0, DivBounds
    <3> QED
      BY <1>0, <3>1
  <2> HIDE DEF start
  <2>2. LET size  == IF start + RegionLen > total THEN total - start ELSE RegionLen
            copy  == IF size = 1 THEN 0 ELSE start + 1
        IN  (IF copy < BackupStart THEN BackupStart ELSE copy) \in Nat
    BY <1>0, <2>1
  <2> QED
    BY <2>2 DEF RegionCopy, start
<1>6. C \subseteq Nat
  BY <1>5, FirstExp
<1> HIDE DEF C
<1>7. {c \in C : c <= len} \subseteq 0..len
  <2> SUFFICES ASSUME NEW c \in C, c <= len PROVE c \in 0..len
    OBVIOUS
  <2>1. c \in Nat /\ len \in Int
    BY <1>0, <1>6
  <2> QED
    BY <2>1
<1>8. IsFiniteSet(0..len)
  BY <1>0, FS_Interval
<1> QED
  BY <1>0, <1>1, <1>4, <1>7, <1>8, FS_Subset

(* The places of copies, which every file system shares the first of.       *)
LEMMA PlacesFinite ==
  /\ IsFiniteSet(Places)
  /\ \A len \in MinLen..DevLen : BackupStart \in Places \cap BackupLayout(len)
<1>1. DevLen \in MinLen..DevLen
  BY ParameterAssumption
<1>2. \A len \in MinLen..DevLen : BackupStart \in BackupLayout(len)
  BY LayoutStarts DEF BackupLayout
<1>3. IsFiniteSet(BackupLayout(DevLen))
  BY <1>1, LayoutStarts DEF BackupLayout
<1> QED
  BY <1>1, <1>2, <1>3 DEF Places

-----------------------------------------------------------------------------
(* Which backup is believed *)

\* The turns of the loop of repair_backup_open(), and the equation of its function
AreTurns(s, d, ondisk, order, n) ==
  /\ s[0] = [max |-> 0, app |-> None, found |-> 0]
  /\ \A i \in 1..n : s[i] = Weighed(d, ondisk, s[i - 1], order[i])

TurnsFunction(s, d, ondisk, order, n) ==
  s = [i \in 0..n |-> IF i = 0 THEN [max |-> 0, app |-> None, found |-> 0]
                               ELSE Weighed(d, ondisk, s[i - 1], order[i])]

(* The function of Weigh, and its values one by one.                        *)
LEMMA TurnsUnfold ==
  ASSUME NEW s, NEW d, NEW ondisk, NEW order, NEW n \in Nat
  PROVE  TurnsFunction(s, d, ondisk, order, n)
           <=> AreTurns(s, d, ondisk, order, n) /\ s = [i \in 0..n |-> s[i]]
<1>1. ASSUME TurnsFunction(s, d, ondisk, order, n)
      PROVE  AreTurns(s, d, ondisk, order, n) /\ s = [i \in 0..n |-> s[i]]
  BY <1>1 DEF TurnsFunction, AreTurns
<1>2. AreTurns(s, d, ondisk, order, n) =>
        \A i \in 0..n : s[i] = IF i = 0 THEN [max |-> 0, app |-> None, found |-> 0]
                               ELSE Weighed(d, ondisk, s[i - 1], order[i])
  BY DEF AreTurns
<1>3. ASSUME AreTurns(s, d, ondisk, order, n), s = [i \in 0..n |-> s[i]]
      PROVE  TurnsFunction(s, d, ondisk, order, n)
  BY <1>2, <1>3 DEF TurnsFunction
<1> QED
  BY <1>1, <1>3

(* The loop over the hints leaves one of them or none.                      *)
LEMMA WeighFinds ==
  ASSUME NEW d, NEW ondisk, NEW H, NEW n \in Nat, NEW order \in [1..n -> H]
  PROVE  Weigh(d, ondisk, order).app \in H \cup {None}
<1> DEFINE W(h) == (HintCount(d, h) * 66) \div HintTotal(h)
                     + (IF Matched(h, ondisk) THEN 33 ELSE 0)
           S == [max : {0} \cup {W(h) : h \in H}, app : H \cup {None}, found : {0, 1, 2}]
           a == [max |-> 0, app |-> None, found |-> 0]
<1>1. a \in S
  OBVIOUS
<1>2. \A s \in S : \A h \in H : Weighed(d, ondisk, s, h) \in S
  <2> SUFFICES ASSUME NEW s \in S, NEW h \in H PROVE Weighed(d, ondisk, s, h) \in S
    OBVIOUS
  <2> DEFINE w == W(h)
             matched == Matched(h, ondisk)
             found == IF s.found = 0 /\ matched THEN 1 ELSE s.found
             best == [max |-> w, app |-> h, found |-> IF found # 0 /\ ~matched THEN 2 ELSE found]
             same == [s EXCEPT !.found = found]
  <2>1. Weighed(d, ondisk, s, h) = IF w > s.max \/ (w = s.max /\ matched) THEN best ELSE same
    BY Zenon DEF Weighed
  <2>2. w \in {W(x) : x \in H}
    OBVIOUS
  <2> HIDE DEF w, W
  <2>3. found \in {0, 1, 2}
    OBVIOUS
  <2> HIDE DEF matched, found
  <2>4. best \in S /\ same \in S
    BY <2>2, <2>3
  <2> HIDE DEF best, same
  <2> QED
    BY <2>1, <2>4
<1> HIDE DEF S
<1>3. PICK G \in [1..n -> [S -> S]] :
        \A i \in 1..n : \A s \in S : G[i][s] = Weighed(d, ondisk, s, order[i])
  <2> DEFINE K == [i \in 1..n |-> [s \in S |-> Weighed(d, ondisk, s, order[i])]]
  <2>0. \A i \in 1..n : order[i] \in H
    OBVIOUS
  <2>1. K \in [1..n -> [S -> S]]
    BY <1>2, <2>0
  <2>2. \A i \in 1..n : \A s \in S : K[i][s] = Weighed(d, ondisk, s, order[i])
    OBVIOUS
  <2> HIDE DEF K
  <2> QED
    BY <2>1, <2>2
<1>4. PICK f : IsIterate(f, n, S, a, G)
  BY <1>1, Iterates
<1>5. f \in [0..n -> S]
  BY <1>4 DEF IsIterate
<1>6. AreTurns(f, d, ondisk, order, n) /\ f = [i \in 0..n |-> f[i]]
  <2>1. \A i \in 1..n : f[i] = Weighed(d, ondisk, f[i - 1], order[i])
    <3> SUFFICES ASSUME NEW i \in 1..n PROVE f[i] = Weighed(d, ondisk, f[i - 1], order[i])
      OBVIOUS
    <3>1. f[i] = G[i][f[i - 1]] /\ i - 1 \in 0..n
      BY <1>4 DEF IsIterate
    <3>2. f[i - 1] \in S
      BY <1>5, <3>1
    <3> QED
      BY <1>3, <3>1, <3>2
  <2>2. f[0] = a
    BY <1>4 DEF IsIterate
  <2> QED
    BY <1>5, <2>1, <2>2 DEF AreTurns
<1>7. Len(order) = n
  OBVIOUS
<1> DEFINE best == CHOOSE g : TurnsFunction(g, d, ondisk, order, n)
<1>8. Weigh(d, ondisk, order) = best[n]
  BY <1>7, Zenon DEF Weigh, TurnsFunction
<1>9. TurnsFunction(best, d, ondisk, order, n)
  <2>1. TurnsFunction(f, d, ondisk, order, n)
    BY <1>6, TurnsUnfold
  <2> QED
    BY <2>1, Zenon
<1> HIDE DEF best
<1>10. AreTurns(best, d, ondisk, order, n)
  BY <1>9, TurnsUnfold
<1>11. StepAlike(best, f, n)
  BY <1>6, <1>10 DEF AreTurns, StepAlike
<1>12. best[n] = f[n]
  <2>1. n \in 0..n
    OBVIOUS
  <2> QED
    BY <1>11, <2>1, SameIterates
<1>13. f[n] \in S
  BY <1>5
<1> QED
  BY <1>8, <1>12, <1>13 DEF S

(* The backup fsck goes by is a copy of the device, of a possible length.   *)
LEMMA HeaviestKnown ==
  ASSUME TypeOK, NEW m, NEW f, NEW s \in Heaviest(dev, m, f)
  PROVE  s.app = None \/ (s.app \in Backups /\ s.app.len \in MinLen..DevLen)
<1> DEFINE H == Hints(dev)
           P == {q \in Places : BackupOk(dev.copy[q], q)}
<1>0. dev.copy \in [Places -> Backups \cup {None}]
  BY DEF TypeOK, Devices
<1>1. H = {dev.copy[p] : p \in P}
  BY <1>0 DEF Hints
<1>2. \A b \in H : b \in Backups /\ b.len \in MinLen..DevLen
  <2> SUFFICES ASSUME NEW q \in Places, BackupOk(dev.copy[q], q)
               PROVE  dev.copy[q] \in Backups /\ dev.copy[q].len \in MinLen..DevLen
    BY <1>1
  <2>1. dev.copy[q].magic /\ dev.copy[q].len \in MinLen..DevLen
    BY DEF BackupOk, repair_master_check_backup, repair_format_check_backup
  <2> QED
    BY <1>0, <2>1 DEF None
<1>3. IsFiniteSet(H)
  <2> DEFINE g == [p \in P |-> dev.copy[p]]
  <2>1. IsFiniteSet(P)
    BY PlacesFinite, FS_Subset
  <2>2. g \in Surjection(P, H)
    BY <1>1 DEF Surjection
  <2> HIDE DEF P, H, g
  <2> QED
    BY <2>1, <2>2, FS_Surjection
<1> HIDE DEF H
<1>4. Cardinality(H) \in Nat
  BY <1>3, FS_CardinalityType
<1>5. PICK order \in SetToSeqs(H) : s.app = Weigh(dev, Ondisk(m, f), order).app
  BY DEF Heaviest, H
<1>6. order \in [1..Cardinality(H) -> H]
  BY <1>5 DEF SetToSeqs
<1>7. s.app \in H \cup {None}
  BY <1>4, <1>5, <1>6, WeighFinds
<1> QED
  BY <1>2, <1>7

-----------------------------------------------------------------------------
(* What fsck makes of the super blocks *)

(* What has a magic is a block of its kind.                                 *)
LEMMA Present ==
  /\ ~None.magic
  /\ \A m \in Masters \cup {None} : m.magic \in BOOLEAN /\ (m.magic => m \in Masters)
  /\ \A f \in Formats \cup {None} : f.magic \in BOOLEAN /\ (f.magic => f \in Formats)
  /\ \A b \in Backups \cup {None} : b.magic \in BOOLEAN /\ (b.magic => b \in Backups)
<1>1. None.magic = FALSE
  BY DEF None
<1>2. \A m \in Masters : m.magic \in BOOLEAN
  BY DEF Masters
<1>3. \A f \in Formats : f.magic \in BOOLEAN
  BY DEF Formats
<1>4. \A b \in Backups : b.magic \in BOOLEAN
  <2> SUFFICES ASSUME NEW b \in Backups PROVE b.magic = TRUE
    OBVIOUS
  <2> QED
    BY DEF Backups
<1> QED
  BY <1>1, <1>2, <1>3, <1>4, Zenon

(* repair_master_check_struct() goes on with a master, whose id is not new. *)
LEMMA MasterChecked ==
  ASSUME damages \in Nat, NEW m \in Masters \cup {None}, NEW b \in Backups \cup {None},
         NEW opened \in BOOLEAN, NEW mode \in {CHECK, FIX, BUILD},
         "fatal" \notin RepairMasterCheck(m, b, opened, mode).err
  PROVE  /\ RepairMasterCheck(m, b, opened, mode).sb \in Masters
         /\ RepairMasterCheck(m, b, opened, mode).sb.magic
<1>1. 0 \in Ids
  BY DEF Ids
<1>2. ASSUME b \in Backups PROVE MasterOf(b) \in Masters /\ MasterOf(b).magic
  BY <1>2 DEF MasterOf, Backups, Masters
<1>3. NewMaster \in Masters /\ NewMaster.magic
  BY <1>1 DEF NewMaster, Masters, Fmt40
<1>4. ASSUME m \in Masters PROVE MasterAlone(m, opened) \in Masters /\ MasterAlone(m, opened).magic = m.magic
  <2> DEFINE size == IF m.blksize = 0 THEN 1 ELSE m.blksize
             pid  == IF opened THEN m.pid ELSE Fmt40
  <2>1. MasterAlone(m, opened) = [m EXCEPT !.blksize = size, !.pid = pid]
    BY Zenon DEF MasterAlone
  <2>2. size \in Int /\ pid \in Int
    BY <1>4 DEF Masters, Fmt40
  <2> HIDE DEF size, pid
  <2> QED
    BY <1>4, <2>1, <2>2 DEF Masters
<1>5. m.magic \in BOOLEAN /\ b.magic \in BOOLEAN /\ (m.magic => m \in Masters) /\ (b.magic => b \in Backups)
  BY Present
<1> HIDE DEF NewMaster
<1>6. CASE ~m.magic
  BY <1>2, <1>3, <1>5, <1>6 DEF RepairMasterCheck
<1>7. CASE m.magic /\ b.magic
  BY <1>2, <1>4, <1>5, <1>7 DEF RepairMasterCheck
<1>8. CASE m.magic /\ ~b.magic
  BY <1>4, <1>5, <1>8 DEF RepairMasterCheck
<1> QED
  BY <1>5, <1>6, <1>7, <1>8

\* A format super block of a possible length
Sound(f) == f \in Formats /\ f.magic /\ f.len \in MinLen..DevLen

(* So does format40_check_struct(), with a possible length.                 *)
LEMMA FormatChecked ==
  ASSUME damages \in Nat, NEW f \in Formats \cup {None},
         NEW b \in Backups \cup {None}, b.magic => b.len \in MinLen..DevLen,
         NEW mode \in {CHECK, FIX, BUILD}, 
         "fatal" \notin RepairFormatCheck(f, b, mode, 50).err
  PROVE  Sound(RepairFormatCheck(f, b, mode, 50).sb)
<1>0. 50 \in Ids /\ Release \in Int /\ DevLen \in Int /\ DevLen \in MinLen..DevLen /\ MinLen \in Int
  BY ParameterAssumption DEF Ids
<1>1. f.magic \in BOOLEAN /\ b.magic \in BOOLEAN /\ (f.magic => f \in Formats) /\ (b.magic => b \in Backups)
  BY Present
<1>2. CASE f.magic /\ b.magic
  <2>1. "fatal" \notin FormatByBackup(f, b, mode).err
    BY <1>1, <1>2 DEF RepairFormatCheck
  <2>2. Sound(FormatByBackup(f, b, mode).sb)
    BY <1>1, <1>2, <2>1 DEF FormatByBackup, Sound, Formats, Backups, CHECK, FIX, BUILD
  <2> QED
    BY <1>1, <1>2, <2>2 DEF RepairFormatCheck
<1>3. CASE f.magic /\ ~b.magic
  <2>1. Sound(FormatAlone(f))
    <3> DEFINE version == IF f.version > Release THEN Release ELSE f.version
               policy  == IF PolicyKnown(f.policy) THEN f.policy ELSE 0
               len     == IF f.len \in MinLen..DevLen THEN f.len ELSE DevLen
               flags   == 0
               half    == [f EXCEPT !.version = version, !.policy = policy]
               r       == [half EXCEPT !.flags = flags, !.len = len]
    <3>1. FormatAlone(f) = r
      BY Zenon DEF FormatAlone
    <3>2. f \in Formats
      BY <1>1, <1>3
    <3>3. version \in Int /\ policy \in Int /\ len \in MinLen..DevLen /\ len \in Int /\ flags \in Int
      BY <1>0, <3>2 DEF Formats
    <3> HIDE DEF version, policy, len, flags
    <3>5. half \in Formats /\ half.magic = f.magic
      BY <3>2, <3>3 DEF Formats
    <3> HIDE DEF half
    <3>6. r \in Formats /\ r.magic = half.magic /\ r.len = len
      BY <3>3, <3>5 DEF Formats
    <3> HIDE DEF r
    <3> QED
      BY <1>3, <3>1, <3>3, <3>5, <3>6 DEF Sound
  <2> QED
    BY <1>1, <1>3, <2>1 DEF RepairFormatCheck
<1>4. CASE ~f.magic
  <2>1. b.magic => Sound(Regenerated(b))
    BY <1>0, <1>1 DEF Regenerated, Sound, Formats, Backups, InvalBlk
  <2>2. Sound(NewFormat(50, DevLen))
    BY <1>0 DEF NewFormat, Sound, Formats, InvalBlk
  <2> HIDE DEF Sound
  <2> QED
    BY <1>1, <1>4, <2>1, <2>2 DEF RepairFormatCheck
<1> QED
  BY <1>1, <1>2, <1>3, <1>4

-----------------------------------------------------------------------------
(* What reiser4_fs_sync() writes *)

(* What is written of the copies is named so.                               *)
LEMMA CopiesNamed ==
  /\ \A w \in Copies : w.part = "copy"
  /\ \A len \in MinLen..DevLen :
       /\ CopyPlaces(len) \in Seq(Copies)
       /\ \A i \in 1..Len(CopyPlaces(len)) : CopyPlaces(len)[i].part = "copy"
<1>1. ASSUME NEW len \in MinLen..DevLen
      PROVE  /\ CopyPlaces(len) \in Seq(Copies)
             /\ \A i \in DOMAIN CopyPlaces(len) : CopyPlaces(len)[i].part = "copy"
  <2> DEFINE n == Cardinality(BackupLayout(len))
             e(i) == CHOOSE p \in BackupLayout(len) :
                       Cardinality({q \in BackupLayout(len) : q < p}) = i - 1
  <2>1. n \in Nat
    BY LayoutStarts, FS_CardinalityType DEF BackupLayout
  <2>2. CopyPlaces(len) = [i \in 1..n |-> CopyAt(e(i))]
    BY Zenon DEF CopyPlaces
  <2> HIDE DEF n, e
  <2>3. DOMAIN CopyPlaces(len) = 1..n /\ \A i \in 1..n : CopyPlaces(len)[i] = CopyAt(e(i))
    BY <2>2
  <2>4. \A i \in 1..n : CopyPlaces(len)[i] \in Copies
    <3>1. \A i \in 1..n : CopyPlaces(len)[i] \in CopiesOf(len)
      BY <2>3 DEF CopiesOf
    <3> QED
      BY <3>1 DEF Copies
  <2>5. CopyPlaces(len) \in [1..n -> Copies]
    <3>1. CopyPlaces(len) = [i \in 1..n |-> CopyPlaces(len)[i]]
      BY <2>2, <2>3
    <3> QED
      BY <2>4, <3>1
  <2>6. CopyPlaces(len) \in Seq(Copies)
    BY <2>1, <2>5
  <2> QED
    BY <2>3, <2>6 DEF CopyAt
<1>2. \A w \in Copies : w.part = "copy"
  BY <1>1 DEF Copies, CopiesOf
<1>3. \A len \in MinLen..DevLen : 1..Len(CopyPlaces(len)) = DOMAIN CopyPlaces(len)
  BY <1>1
<1> QED
  BY <1>1, <1>2, <1>3

(* What is in one of two sequences is in both together.                     *)
LEMMA OccursConcat ==
  ASSUME NEW S, NEW s \in Seq(S), NEW t \in Seq(S), NEW name
  PROVE  Occurs(s \o t, name) <=> Occurs(s, name) \/ Occurs(t, name)
<1>1. Len(s) \in Nat /\ Len(t) \in Nat /\ Len(s \o t) = Len(s) + Len(t)
  OBVIOUS
<1>2. \A i \in 1..Len(s) : (s \o t)[i] = s[i]
  OBVIOUS
<1>3. \A i \in 1..Len(t) : (s \o t)[Len(s) + i] = t[i]
  OBVIOUS
<1>4. \A i \in 1..Len(s) + Len(t) : i \notin 1..Len(s) =>
        /\ i - Len(s) \in 1..Len(t) /\ (s \o t)[i] = t[i - Len(s)]
  OBVIOUS
<1>5. \A i \in 1..Len(t) : Len(s) + i \in 1..Len(s) + Len(t)
  BY <1>1
<1>6. \A i \in 1..Len(s) : i \in 1..Len(s) + Len(t)
  BY <1>1
<1> DEFINE r == s \o t
<1> HIDE DEF r
<1>7. ASSUME Occurs(r, name) PROVE Occurs(s, name) \/ Occurs(t, name)
  <2>1. PICK i \in 1..Len(s) + Len(t) : r[i].part = name
    BY <1>1, <1>7 DEF Occurs, r
  <2>2. CASE i \in 1..Len(s)
    BY <1>2, <2>1, <2>2 DEF Occurs, r
  <2>3. CASE i \notin 1..Len(s)
    BY <1>4, <2>1, <2>3 DEF Occurs, r
  <2> QED
    BY <2>2, <2>3
<1>8. ASSUME Occurs(s, name) PROVE Occurs(r, name)
  BY <1>1, <1>2, <1>6, <1>8 DEF Occurs, r
<1>9. ASSUME Occurs(t, name) PROVE Occurs(r, name)
  BY <1>1, <1>3, <1>5, <1>9 DEF Occurs, r
<1> QED
  BY <1>7, <1>8, <1>9 DEF r

(* reiser4_fs_sync() writes every part that is dirty, the master last.      *)
LEMMA SyncWrites ==
  ASSUME NEW h, h.format.len \in MinLen..DevLen
  PROVE  /\ SyncOrder(h) \in Seq(Writes)
         /\ \A name \in {"tree", "alloc", "format"} :
              name \in h.dirty => Occurs(SyncOrder(h), name)
         /\ "master" \in h.dirty => MasterLast(SyncOrder(h))
<1> DEFINE One(part) == IF part \in h.dirty THEN <<Part(part)>> ELSE <<>>
           copies == IF "backup" \in h.dirty THEN CopyPlaces(h.format.len) ELSE <<>>
           s1 == One("tree") \o One("journal")
           s2 == s1 \o One("alloc")
           s3 == s2 \o copies
           s4 == s3 \o One("format")
           s5 == s4 \o One("status")
<1>1. SyncOrder(h) = s5 \o One("master")
  BY Zenon DEF SyncOrder
<1>2. ASSUME NEW name \in Names
      PROVE  /\ One(name) \in Seq(Writes)
             /\ name \in h.dirty => Occurs(One(name), name)
             /\ \A other : other # name => ~Occurs(One(name), other)
  <2>1. Part(name) \in Writes /\ Part(name).part = name
    BY DEF Writes, Part
  <2>2. <<Part(name)>> \in Seq(Writes) /\ Len(<<Part(name)>>) = 1 /\ <<Part(name)>>[1] = Part(name)
    BY <2>1
  <2>3. <<>> \in Seq(Writes) /\ Len(<<>>) = 0
    OBVIOUS
  <2>4. Occurs(<<Part(name)>>, name) /\ \A other : other # name => ~Occurs(<<Part(name)>>, other)
    BY <2>1, <2>2 DEF Occurs
  <2>5. \A other : ~Occurs(<<>>, other)
    BY <2>3 DEF Occurs
  <2> QED
    BY <2>2, <2>3, <2>4, <2>5, Zenon
<1>3. copies \in Seq(Writes) /\ ~Occurs(copies, "master")
  <2>1. CopyPlaces(h.format.len) \in Seq(Writes) /\ ~Occurs(CopyPlaces(h.format.len), "master")
    <3> DEFINE c == CopyPlaces(h.format.len)
    <3>1. c \in Seq(Copies) /\ \A i \in 1..Len(c) : c[i].part = "copy"
      BY CopiesNamed
    <3> HIDE DEF c
    <3>2. c \in Seq(Writes)
      BY <3>1 DEF Writes
    <3>3. ~Occurs(c, "master")
      BY <3>1 DEF Occurs
    <3> QED
      BY <3>2, <3>3 DEF c
  <2>2. <<>> \in Seq(Writes) /\ Len(<<>>) = 0
    OBVIOUS
  <2>3. ~Occurs(<<>>, "master")
    BY <2>2 DEF Occurs
  <2> QED
    BY <2>1, <2>2, <2>3, Zenon
<1>4. Names = {"tree", "journal", "alloc", "format", "status", "master"}
  BY DEF Names
<1> HIDE DEF One, copies
<1>5. /\ One("tree") \in Seq(Writes) /\ One("journal") \in Seq(Writes) /\ One("alloc") \in Seq(Writes)
      /\ One("format") \in Seq(Writes) /\ One("status") \in Seq(Writes) /\ One("master") \in Seq(Writes)
  BY <1>2, <1>4
<1>6. s1 \in Seq(Writes)
  BY <1>5
<1>7. \A name : Occurs(s1, name) <=> Occurs(One("tree"), name) \/ Occurs(One("journal"), name)
  BY <1>5, OccursConcat
<1> HIDE DEF s1
<1>8. s2 \in Seq(Writes)
  BY <1>5, <1>6
<1>9. \A name : Occurs(s2, name) <=> Occurs(s1, name) \/ Occurs(One("alloc"), name)
  BY <1>5, <1>6, OccursConcat
<1> HIDE DEF s2
<1>10. s3 \in Seq(Writes)
  BY <1>3, <1>8
<1>11. \A name : Occurs(s3, name) <=> Occurs(s2, name) \/ Occurs(copies, name)
  BY <1>3, <1>8, OccursConcat
<1> HIDE DEF s3
<1>12. s4 \in Seq(Writes)
  BY <1>5, <1>10
<1>13. \A name : Occurs(s4, name) <=> Occurs(s3, name) \/ Occurs(One("format"), name)
  BY <1>5, <1>10, OccursConcat
<1> HIDE DEF s4
<1>14. s5 \in Seq(Writes)
  BY <1>5, <1>12
<1>15. \A name : Occurs(s5, name) <=> Occurs(s4, name) \/ Occurs(One("status"), name)
  BY <1>5, <1>12, OccursConcat
<1> HIDE DEF s5
<1>16. SyncOrder(h) \in Seq(Writes)
  BY <1>1, <1>5, <1>14
<1>17. \A name : Occurs(SyncOrder(h), name) <=> Occurs(s5, name) \/ Occurs(One("master"), name)
  BY <1>1, <1>5, <1>14, OccursConcat
<1>18. \A name \in {"tree", "alloc", "format"} : name \in h.dirty => Occurs(SyncOrder(h), name)
  BY <1>2, <1>4, <1>7, <1>9, <1>11, <1>13, <1>15, <1>17
<1>19. ~Occurs(s5, "master")
  BY <1>2, <1>3, <1>4, <1>7, <1>9, <1>11, <1>13, <1>15
<1>20. ASSUME "master" \in h.dirty PROVE MasterLast(SyncOrder(h))
  <2>1. SyncOrder(h) = s5 \o <<Part("master")>>
    BY <1>1, <1>20 DEF One
  <2> DEFINE t == s5 \o <<Part("master")>>
             m == Part("master")
  <2>2. m \in Writes /\ m.part = "master"
    BY <1>4 DEF Writes, Part
  <2> HIDE DEF m
  <2>3. /\ Len(t) = Len(s5) + 1 /\ t[Len(s5) + 1] = m
        /\ \A i \in 1..Len(s5) : t[i] = s5[i]
    BY <1>14, <2>2 DEF m
  <2>4. t # <<>>
    BY <1>14, <2>3
  <2> HIDE DEF t
  <2>5. \A i \in 1..Len(t) - 1 : t[i].part # "master"
    BY <1>14, <1>19, <2>3 DEF Occurs
  <2>6. MasterLast(t)
    BY <2>2, <2>3, <2>4, <2>5 DEF MasterLast
  <2> QED
    BY <2>1, <2>6 DEF t
<1> QED
  BY <1>16, <1>18, <1>20

(* What one block that is written changes of the device.                    *)
LEMMA WrittenParts ==
  ASSUME NEW d \in Devices, NEW h \in Handles, NEW w \in Writes
  PROVE  LET r == Written(d, h, w)
         IN  /\ r \in Devices
             /\ r.tree = IF w.part = "tree" THEN h.tree ELSE d.tree
             /\ r.alloc.gen = IF w.part = "alloc" THEN h.alloc.gen ELSE d.alloc.gen
             /\ r.format = IF w.part = "format" THEN h.format ELSE d.format
             /\ r.master = IF w.part = "master" THEN h.master ELSE d.master
<1> DEFINE r == Written(d, h, w)
<1>0. /\ h.tree \in Trees /\ h.alloc \in Allocs /\ h.format \in Formats
      /\ h.status \in Statuses /\ h.master \in Masters /\ h.backup \in Backups \cup {None}
  BY DEF Handles
<1>1. w.part \in Names \cup {"copy"}
  BY CopiesNamed DEF Writes, Part
<1>2. CASE w.part = "tree"
  <2>1. r = [d EXCEPT !.tree = h.tree]
    BY <1>2 DEF Written
  <2> QED
    BY <1>0, <1>2, <2>1 DEF Devices
<1>3. CASE w.part = "journal"
  <2>1. r = [d EXCEPT !.journal = None]
    BY <1>3 DEF Written, NoTx
  <2> QED
    BY <1>0, <1>3, <2>1 DEF Devices
<1>4. CASE w.part = "alloc"
  <2> DEFINE a == [h.alloc EXCEPT !.crc = TRUE]
  <2>1. r = [d EXCEPT !.alloc = a]
    BY <1>4 DEF Written
  <2>2. a \in Allocs /\ a.gen = h.alloc.gen
    BY <1>0 DEF Allocs
  <2> HIDE DEF a
  <2> QED
    BY <1>0, <1>4, <2>1, <2>2 DEF Devices
<1>5. CASE w.part = "format"
  <2>1. r = [d EXCEPT !.format = h.format]
    BY <1>5 DEF Written, format40_sync
  <2> QED
    BY <1>0, <1>5, <2>1 DEF Devices
<1>6. CASE w.part = "status"
  <2>1. r = [d EXCEPT !.status = h.status]
    BY <1>6 DEF Written, reiser4_status_sync
  <2> QED
    BY <1>0, <1>6, <2>1 DEF Devices
<1>7. CASE w.part = "master"
  <2>1. r = [d EXCEPT !.master = h.master]
    BY <1>7 DEF Written, reiser4_master_sync
  <2> QED
    BY <1>0, <1>7, <2>1 DEF Devices
<1>8. CASE w.part = "copy"
  <2> DEFINE c == [d.copy EXCEPT ![w.at] = h.backup]
  <2>1. r = [d EXCEPT !.copy = c]
    BY <1>8 DEF Written, cb_write_backup
  <2>2. c \in [Places -> Backups \cup {None}]
    BY <1>0 DEF Devices
  <2> HIDE DEF c
  <2> QED
    BY <1>0, <1>8, <2>1, <2>2 DEF Devices
<1> QED
  BY <1>1, <1>2, <1>3, <1>4, <1>5, <1>6, <1>7, <1>8 DEF Names

-----------------------------------------------------------------------------
(* The invariant is kept *)

(* While nothing is damaged the sets of values stay as they are.            *)
LEMMA SameTypes ==
  ASSUME damages' = damages
  PROVE  /\ Ids' = Ids /\ Masters' = Masters /\ Formats' = Formats
         /\ Backups' = Backups /\ Devices' = Devices /\ Handles' = Handles
<1>1. Ids' = Ids
  BY DEF Ids
<1>2. Masters' = Masters /\ Formats' = Formats /\ Backups' = Backups
  BY <1>1, Zenon DEF Masters, Formats, Backups
<1>3. Devices' = Devices /\ Handles' = Handles
  BY <1>2, Zenon DEF Devices, Handles
<1> QED
  BY <1>1, <1>2, <1>3

(* A damage makes a new value, which nothing has so far.                    *)
LEMMA DamageIsNew ==
  ASSUME damages \in Nat, damages' = damages + 1
  PROVE  /\ Bad \in Ids' /\ Bad \notin Ids /\ Ids \subseteq Ids' /\ Bad \in Int /\ Bad >= 100
         /\ Masters \subseteq Masters' /\ Formats \subseteq Formats'
         /\ Backups \subseteq Backups' /\ Devices \subseteq Devices'
<1>1. Bad \in Ids' /\ Bad \notin Ids /\ Ids \subseteq Ids' /\ Bad \in Int /\ Bad >= 100
  BY DEF Ids, Bad
<1>2. Masters \subseteq Masters'
  BY <1>1 DEF Masters
<1>3. Formats \subseteq Formats'
  BY <1>1 DEF Formats
<1>4. Backups \subseteq Backups'
  BY <1>1 DEF Backups
<1>5. Devices \subseteq Devices'
  <2> SUFFICES ASSUME NEW d \in Devices PROVE d \in Devices'
    OBVIOUS
  <2>1. d.copy \in [Places -> Backups' \cup {None}]
    BY <1>4 DEF Devices
  <2>2. d.master \in Masters' \cup {None} /\ d.format \in Formats' /\ d.journal \in Formats' \cup {None}
    BY <1>2, <1>3 DEF Devices
  <2>3. /\ d = [master |-> d.master, format |-> d.format, status |-> d.status, alloc |-> d.alloc,
                tree |-> d.tree, journal |-> d.journal, copy |-> d.copy]
        /\ d.status \in Statuses /\ d.alloc \in Allocs /\ d.tree \in Trees
    BY DEF Devices
  <2> QED
    BY <2>1, <2>2, <2>3 DEF Devices
<1> QED
  BY <1>1, <1>2, <1>3, <1>4, <1>5

(* There is room for another damage while damages are fewer than MaxTrouble. *)
LEMMA MayDamageBound ==
  ASSUME TypeOK, MayDamage
  PROVE  damages < MaxTrouble /\ MinLen + damages >= MinLen /\ DevLen - damages >= MinLen
<1>1. \A n \in Nat : Upto(n) \in Nat
  <2> SUFFICES ASSUME NEW n \in Nat PROVE (n * (n + 1)) \div 2 \in Nat
    BY DEF Upto
  <2>1. n * (n + 1) \in Nat
    OBVIOUS
  <2> QED
    BY <2>1, DivBounds
<1>2. crashes \in Nat /\ gen - 1 \in Nat /\ damages \in Nat /\ gen \in Nat
  BY InstanceAssumption DEF TypeOK
<1>3. Trouble \in Nat
  BY <1>1, <1>2 DEF Trouble
<1>4. DevLen \in Nat /\ MinLen \in Nat /\ MaxTrouble \in Nat /\ 2 * MaxTrouble < DevLen - MinLen
  BY ParameterAssumption, InstanceAssumption
<1> QED
  BY <1>2, <1>3, <1>4 DEF MayDamage

(* A damage that keeps the types and leaves nothing that is not whole.      *)
LEMMA DamageKeeps ==
  ASSUME IInv, MayDamage, NEW part, NEW d \in Devices', Damaged(part, d),
         d.master.magic => dev.master.magic,
         d.master.magic /\ Whole(dev) => Whole(d)
  PROVE  IInv'
<1>1. /\ damages' = damages + 1 /\ dev' = d /\ fs' = fs /\ pc' = pc /\ job' = job /\ todo' = todo
      /\ gen' = gen /\ crashes' = crashes
  BY DEF Damaged
<1>2. pc = "idle" /\ todo = <<>>
  BY DEF MayDamage, IInv
<1>3. TypeOK'
  BY <1>1, <1>2 DEF IInv, TypeOK
<1>4. Whole(d)' = Whole(d)
  BY <1>1 DEF Whole
<1>5. Stopped'
  BY <1>1, <1>4 DEF IInv, Stopped, Whole
<1> QED
  BY <1>1, <1>2, <1>3, <1>5 DEF IInv, Building, Writing, FsckSteps

(* No copy has the id a damage makes.                                       *)
LEMMA NoCopyHasIt ==
  ASSUME IInv
  PROVE  \A p \in Places : dev.copy[p].magic =>
           dev.copy[p] \in Backups /\ dev.copy[p].uuid \in Ids /\ dev.copy[p].mkid \in Ids
<1>1. \A p \in Places : dev.copy[p] \in Backups \cup {None}
  BY DEF IInv, TypeOK, Devices
<1>2. \A b \in Backups : b.uuid \in Ids /\ b.mkid \in Ids
  BY DEF Backups
<1> QED
  BY <1>1, <1>2, Present

(* A damaged master has no id a copy has.                                   *)
LEMMA DamageMasterKeeps ==
  ASSUME IInv, DamageMaster
  PROVE  IInv'
<1>0. MayDamage /\ dev.master.magic
  BY DEF DamageMaster
<1>1. PICK m \in DamagedMaster : Damaged(Part("master"), [dev EXCEPT !.master = m])
  BY DEF DamageMaster
<1> DEFINE d == [dev EXCEPT !.master = m]
<1>2. damages \in Nat /\ damages' = damages + 1 /\ dev \in Devices
  BY <1>1 DEF IInv, TypeOK, Damaged
<1>3. Bad \in Ids' /\ Bad \notin Ids /\ Bad \in Int /\ dev \in Devices' /\ Masters \subseteq Masters'
  BY <1>2, DamageIsNew
<1>4. dev.master \in Masters
  BY <1>0, <1>2, Present DEF Devices
<1>5. m \in Masters' /\ (m.uuid = dev.master.uuid \/ m.uuid = Bad)
  <2> DEFINE o == dev.master
  <2>1. o \in Masters'
    BY <1>3, <1>4
  <2> HIDE DEF o
  <2>2. /\ \A b \in BOOLEAN : [o EXCEPT !.magic = b] \in Masters' /\ [o EXCEPT !.magic = b].uuid = o.uuid
        /\ \A i \in Int : [o EXCEPT !.blksize = i] \in Masters' /\ [o EXCEPT !.blksize = i].uuid = o.uuid
        /\ \A i \in Int : [o EXCEPT !.pid = i] \in Masters' /\ [o EXCEPT !.pid = i].uuid = o.uuid
        /\ \A i \in Int : [o EXCEPT !.label = i] \in Masters' /\ [o EXCEPT !.label = i].uuid = o.uuid
        /\ \A u \in Ids' : [o EXCEPT !.uuid = u] \in Masters' /\ [o EXCEPT !.uuid = u].uuid = u
    BY <2>1 DEF Masters
  <2>3. 0 \in Int /\ 2 \in Int /\ FALSE \in BOOLEAN
    OBVIOUS
  <2>4. m \in {[o EXCEPT !.magic = FALSE], [o EXCEPT !.blksize = 0], [o EXCEPT !.blksize = 2],
               [o EXCEPT !.pid = Bad], [o EXCEPT !.uuid = Bad], [o EXCEPT !.label = Bad]}
    BY <1>1, Zenon DEF DamagedMaster, o
  <2>5. m \in Masters' /\ (m.uuid = o.uuid \/ m.uuid = Bad)
    <3>1. CASE m = [o EXCEPT !.magic = FALSE]
      BY <2>2, <2>3, <3>1, Zenon
    <3>2. CASE m = [o EXCEPT !.blksize = 0] \/ m = [o EXCEPT !.blksize = 2]
      BY <2>2, <2>3, <3>2, Zenon
    <3>3. CASE m = [o EXCEPT !.pid = Bad] \/ m = [o EXCEPT !.label = Bad]
      BY <1>3, <2>2, <3>3, Zenon
    <3>4. CASE m = [o EXCEPT !.uuid = Bad]
      BY <1>3, <2>2, <3>4, Zenon
    <3> QED
      BY <2>4, <3>1, <3>2, <3>3, <3>4, Zenon
  <2> QED
    BY <2>5 DEF o
<1>6. d \in Devices'
  BY <1>3, <1>5 DEF Devices
<1>7. /\ d.format = dev.format /\ d.tree = dev.tree /\ d.alloc = dev.alloc /\ d.copy = dev.copy
      /\ d.master = m
  BY <1>2 DEF Devices
<1> HIDE DEF d
<1>8. Whole(dev) => Whole(d)
  <2>1. m.uuid = Bad => \A p \in Places : d.copy[p].magic => d.copy[p].uuid # m.uuid
    BY <1>3, <1>7, NoCopyHasIt
  <2> QED
    BY <1>5, <1>7, <2>1 DEF Whole
<1>9. Damaged(Part("master"), d)
  BY <1>1 DEF d
<1> QED
  BY <1>0, <1>6, <1>8, <1>9, DamageKeeps

(* A damaged format super block has no root, or no id a copy has.           *)
LEMMA DamageFormatKeeps ==
  ASSUME IInv, DamageFormat
  PROVE  IInv'
<1>0. MayDamage
  BY DEF DamageFormat
<1>1. PICK f \in DamagedFormat : Damaged(Part("format"), [dev EXCEPT !.format = f])
  BY DEF DamageFormat
<1> DEFINE d == [dev EXCEPT !.format = f]
<1>2. damages \in Nat /\ damages' = damages + 1 /\ dev \in Devices /\ TypeOK
  BY <1>1 DEF IInv, TypeOK, Damaged
<1>3. Bad \in Ids' /\ Bad \notin Ids /\ Bad \in Int /\ Bad >= 100 /\ dev \in Devices' /\ Formats \subseteq Formats'
  BY <1>2, DamageIsNew
<1>4. dev.format \in Formats
  BY <1>2 DEF Devices
<1>5. /\ f \in Formats'
      /\ f.root = dev.format.root \/ f.root >= 100
      /\ f.mkid = dev.format.mkid \/ f.mkid = Bad
      /\ f.len = dev.format.len \/ f.len >= MinLen
  <2> DEFINE o == dev.format
             Kept(x) == /\ x \in Formats'
                        /\ x.root = o.root \/ x.root >= 100
                        /\ x.mkid = o.mkid \/ x.mkid = Bad
                        /\ x.len = o.len \/ x.len >= MinLen
  <2>1. o \in Formats'
    BY <1>3, <1>4
  <2>2. DevLen \in Int /\ MinLen \in Int /\ Release \in Int /\ DevLen >= MinLen
    BY ParameterAssumption
  <2> HIDE DEF o
  <2>3. ASSUME NEW b \in BOOLEAN, NEW i \in Int
        PROVE  /\ Kept([o EXCEPT !.magic = b])
               /\ Kept([o EXCEPT !.policy = i]) /\ Kept([o EXCEPT !.flags = i])
               /\ Kept([o EXCEPT !.version = i, !.upd = b])
               /\ i >= MinLen => Kept([o EXCEPT !.len = i])
    BY <2>1, <2>2 DEF Formats
  <2>4. Kept([o EXCEPT !.root = Bad]) /\ Kept([o EXCEPT !.mkid = Bad])
    <3> HIDE DEF Bad
    <3> QED
      BY <1>3, <2>1 DEF Formats
  <2>5. Kept([o EXCEPT !.magic = FALSE, !.root = Bad])
    <3> DEFINE b == FALSE
    <3> HIDE DEF b
    <3>1. b \in BOOLEAN
      BY DEF b
    <3>2. Kept([o EXCEPT !.magic = b, !.root = Bad])
      <4> HIDE DEF Bad
      <4> QED
        BY <1>3, <2>1, <3>1 DEF Formats
    <3> QED
      BY <3>2 DEF b
  <2> HIDE DEF Kept
  <2>6. \A l \in BadLens : Kept([o EXCEPT !.len = l])
    <3>1. \A l \in BadLens : l \in Int /\ l >= MinLen
      BY <1>0, <1>2, <2>2, MayDamageBound DEF BadLens
    <3> QED
      BY <2>3, <3>1
  <2>7. DevLen + 1 \in Int /\ DevLen + 1 >= MinLen /\ Release + Bad \in Int
    BY <1>3, <2>2
  <2>8. f \in {[o EXCEPT !.magic = FALSE], [o EXCEPT !.magic = FALSE, !.root = Bad],
               [o EXCEPT !.len = DevLen + 1], [o EXCEPT !.mkid = Bad],
               [o EXCEPT !.policy = Bad], [o EXCEPT !.flags = Bad],
               [o EXCEPT !.version = Release + Bad, !.upd = FALSE],
               [o EXCEPT !.root = Bad]} \cup {[o EXCEPT !.len = l] : l \in BadLens}
    BY <1>1, Zenon DEF DamagedFormat, o
  <2>9. Kept(f)
    BY <1>3, <2>3, <2>4, <2>5, <2>6, <2>7, <2>8, Zenon
  <2> QED
    BY <2>9 DEF Kept, o
<1>6. d \in Devices'
  BY <1>3, <1>5 DEF Devices
<1>7. /\ d.format = f /\ d.tree = dev.tree /\ d.alloc = dev.alloc /\ d.copy = dev.copy
      /\ d.master = dev.master
  BY <1>2 DEF Devices
<1> HIDE DEF d
<1>8. Whole(dev) => Whole(d)
  <2>1. f.mkid = Bad => \A p \in Places : d.copy[p].magic => d.copy[p].mkid # f.mkid
    BY <1>3, <1>7, NoCopyHasIt
  <2> QED
    BY <1>5, <1>7, <2>1 DEF Whole
<1>9. Damaged(Part("format"), d)
  BY <1>1 DEF d
<1> QED
  BY <1>0, <1>6, <1>7, <1>8, <1>9, DamageKeeps

(* A damaged copy gets an id nothing else has.                              *)
LEMMA DamageCopyKeeps ==
  ASSUME IInv, DamageCopy
  PROVE  IInv'
<1>0. MayDamage
  BY DEF DamageCopy
<1>1. PICK p \in {q \in Places : dev.copy[q].magic} :
        \E c \in DamagedCopy(dev.copy[p]) : Damaged(CopyAt(p), [dev EXCEPT !.copy[p] = c])
  BY DEF DamageCopy
<1>2. PICK c \in DamagedCopy(dev.copy[p]) : Damaged(CopyAt(p), [dev EXCEPT !.copy[p] = c])
  BY <1>1
<1> DEFINE d == [dev EXCEPT !.copy[p] = c]
           o == dev.copy[p]
<1>3. damages \in Nat /\ damages' = damages + 1 /\ dev \in Devices /\ TypeOK
  BY <1>2 DEF IInv, TypeOK, Damaged
<1>4. Bad \in Ids' /\ Bad \notin Ids /\ Bad \in Int /\ dev \in Devices' /\ Backups \subseteq Backups'
  BY <1>3, DamageIsNew
<1>5. o \in Backups
  BY <1>1, NoCopyHasIt
<1>6. c = None \/ (/\ c \in Backups'
                   /\ c.uuid = o.uuid \/ c.uuid = Bad
                   /\ c.mkid = o.mkid \/ c.mkid = Bad)
  <2> DEFINE Kept(x) == /\ x \in Backups'
                        /\ x.uuid = o.uuid \/ x.uuid = Bad
                        /\ x.mkid = o.mkid \/ x.mkid = Bad
             pset == IF o.version = 0 THEN 0 ELSE Bad
  <2>1. o \in Backups'
    BY <1>4, <1>5
  <2>2. DevLen \in Int /\ MinLen \in Int /\ Release \in Int
    BY ParameterAssumption
  <2>3. c \in {None, [o EXCEPT !.uuid = Bad], [o EXCEPT !.mkid = Bad],
               [o EXCEPT !.version = Release + Bad], [o EXCEPT !.pset = pset]}
             \cup {[o EXCEPT !.len = l] : l \in BadLens}
    BY <1>2, Zenon DEF DamagedCopy
  <2>4. pset \in Int /\ Release + Bad \in Int /\ \A l \in BadLens : l \in Int
    BY <1>3, <1>4, <2>2 DEF BadLens
  <2> HIDE DEF o, pset
  <2>5. \A i \in Int : Kept([o EXCEPT !.version = i]) /\ Kept([o EXCEPT !.pset = i])
                       /\ Kept([o EXCEPT !.len = i])
    BY <2>1 DEF Backups
  <2>6. Kept([o EXCEPT !.uuid = Bad]) /\ Kept([o EXCEPT !.mkid = Bad])
    <3> HIDE DEF Bad
    <3> QED
      BY <1>4, <2>1 DEF Backups
  <2> HIDE DEF Kept
  <2>7. c = None \/ Kept(c)
    BY <2>3, <2>4, <2>5, <2>6, Zenon
  <2> QED
    BY <2>7 DEF Kept
<1>7. d.copy = [dev.copy EXCEPT ![p] = c] /\ d.copy \in [Places -> Backups' \cup {None}]
  <2>1. dev.copy \in [Places -> Backups' \cup {None}]
    BY <1>4 DEF Devices
  <2> QED
    BY <1>3, <1>6, <2>1 DEF Devices
<1>8. d \in Devices'
  BY <1>4, <1>7 DEF Devices
<1>9. /\ d.format = dev.format /\ d.tree = dev.tree /\ d.alloc = dev.alloc
      /\ d.master = dev.master
  BY <1>3 DEF Devices
<1>10. \A q \in Places : d.copy[q] = IF q = p THEN c ELSE dev.copy[q]
  BY <1>3, <1>7 DEF Devices
<1>11. Damaged(CopyAt(p), d)
  BY <1>2 DEF d
<1> HIDE DEF d
<1>12. ASSUME d.master.magic, Whole(dev) PROVE Whole(d)
  <2>1. dev.master.uuid # Bad /\ dev.format.mkid # Bad
    <3>1. dev.master \in Masters /\ dev.format \in Formats
      BY <1>3, <1>9, <1>12, Present DEF Devices
    <3>2. dev.master.uuid \in Ids /\ dev.format.mkid \in Ids
      BY <3>1 DEF Masters, Formats
    <3> QED
      BY <1>4, <3>2
  <2>2. ~None.magic /\ o.magic
    BY <1>1, Present
  <2>3. (\A q \in Places : dev.copy[q].magic => dev.copy[q].uuid # dev.master.uuid)
          => (\A q \in Places : d.copy[q].magic => d.copy[q].uuid # d.master.uuid)
    BY <1>1, <1>6, <1>9, <1>10, <2>1, <2>2
  <2>4. (\A q \in Places : dev.copy[q].magic => dev.copy[q].mkid # dev.format.mkid)
          => (\A q \in Places : d.copy[q].magic => d.copy[q].mkid # d.format.mkid)
    BY <1>1, <1>6, <1>9, <1>10, <2>1, <2>2
  <2> QED
    BY <1>9, <1>12, <2>3, <2>4 DEF Whole
<1> QED
  BY <1>0, <1>8, <1>9, <1>11, <1>12, DamageKeeps

(* The status block is in no part of the invariant but its type.            *)
LEMMA DamageStatusKeeps ==
  ASSUME IInv, DamageStatus
  PROVE  IInv'
<1>0. MayDamage /\ Damaged(Part("status"), [dev EXCEPT !.status.magic = FALSE])
  BY DEF DamageStatus
<1> DEFINE d == [dev EXCEPT !.status.magic = FALSE]
           s == [dev.status EXCEPT !.magic = FALSE]
<1>1. damages \in Nat /\ damages' = damages + 1 /\ dev \in Devices
  BY <1>0 DEF IInv, TypeOK, Damaged
<1>2. dev \in Devices'
  BY <1>1, DamageIsNew
<1>3. s \in Statuses
  <2>1. dev.status \in Statuses
    BY <1>1 DEF Devices
  <2> QED
    BY <2>1 DEF Statuses
<1>4. d = [dev EXCEPT !.status = s]
  BY <1>1 DEF Devices
<1> HIDE DEF d, s
<1>5. d \in Devices'
  BY <1>2, <1>3, <1>4 DEF Devices
<1>6. /\ d.format = dev.format /\ d.tree = dev.tree /\ d.alloc = dev.alloc /\ d.copy = dev.copy
      /\ d.master = dev.master
  BY <1>1, <1>4 DEF Devices
<1>7. Damaged(Part("status"), d)
  BY <1>0 DEF d
<1>8. Whole(dev) => Whole(d)
  BY <1>6 DEF Whole
<1> QED
  BY <1>0, <1>5, <1>6, <1>7, <1>8, DamageKeeps

(* A map that is damaged keeps the generation it has.                       *)
LEMMA DamageMapKeeps ==
  ASSUME IInv, DamageMap
  PROVE  IInv'
<1>0. MayDamage /\ Damaged(Part("alloc"), [dev EXCEPT !.alloc.crc = FALSE])
  BY DEF DamageMap
<1> DEFINE d == [dev EXCEPT !.alloc.crc = FALSE]
           a == [dev.alloc EXCEPT !.crc = FALSE]
<1>1. damages \in Nat /\ damages' = damages + 1 /\ dev \in Devices
  BY <1>0 DEF IInv, TypeOK, Damaged
<1>2. dev \in Devices'
  BY <1>1, DamageIsNew
<1>3. a \in Allocs /\ a.gen = dev.alloc.gen
  <2>1. dev.alloc \in Allocs
    BY <1>1 DEF Devices
  <2> QED
    BY <2>1 DEF Allocs
<1>4. d = [dev EXCEPT !.alloc = a]
  BY <1>1 DEF Devices
<1> HIDE DEF d, a
<1>5. d \in Devices'
  BY <1>2, <1>3, <1>4 DEF Devices
<1>6. /\ d.format = dev.format /\ d.tree = dev.tree /\ d.alloc = a /\ d.copy = dev.copy
      /\ d.master = dev.master
  BY <1>1, <1>4 DEF Devices
<1>7. Damaged(Part("alloc"), d)
  BY <1>0 DEF d
<1>8. Whole(dev) => Whole(d)
  BY <1>3, <1>6 DEF Whole
<1> QED
  BY <1>0, <1>5, <1>6, <1>7, <1>8, DamageKeeps

(* The handle writes what it holds: what is still pending comes true.       *)
LEMMA WriteKeeps ==
  ASSUME IInv, Write
  PROVE  IInv'
<1>0. /\ todo # <<>> /\ dev' = Written(dev, fs, Head(todo)) /\ todo' = Tail(todo)
      /\ fs' = fs /\ pc' = pc /\ job' = job /\ gen' = gen /\ damages' = damages /\ crashes' = crashes
  BY DEF Write
<1> DEFINE w == Head(todo)
<1>1. /\ TypeOK /\ pc # "idle" /\ pc # "mkfs" /\ fs \in Handles /\ dev \in Devices
      /\ todo \in Seq(Writes)
  BY <1>0 DEF IInv, TypeOK
<1>2. /\ w \in Writes /\ w = todo[1] /\ todo' \in Seq(Writes) /\ Len(todo) \in Nat /\ Len(todo) > 0
      /\ Len(todo') = Len(todo) - 1
      /\ \A i \in 1..Len(todo) - 1 : todo'[i] = todo[i + 1]
  BY <1>0, <1>1
<1>3. /\ dev' \in Devices
      /\ dev'.tree = IF w.part = "tree" THEN fs.tree ELSE dev.tree
      /\ dev'.alloc.gen = IF w.part = "alloc" THEN fs.alloc.gen ELSE dev.alloc.gen
      /\ dev'.format = IF w.part = "format" THEN fs.format ELSE dev.format
      /\ dev'.master = IF w.part = "master" THEN fs.master ELSE dev.master
  BY <1>0, <1>1, <1>2, WrittenParts
<1> HIDE DEF w
<1>4. TypeOK'
  BY <1>0, <1>1, <1>2, <1>3, SameTypes DEF TypeOK
<1>5. \A name : Pending(name) => w.part = name \/ Pending(name)'
  <2> SUFFICES ASSUME NEW name, NEW i \in 1..Len(todo), todo[i].part = name, w.part # name
               PROVE  \E j \in 1..Len(todo') : todo'[j].part = name
    BY DEF Pending, Occurs
  <2>1. i # 1 /\ i - 1 \in 1..Len(todo')
    BY <1>2
  <2>2. todo'[i - 1] = todo[i]
    BY <1>2, <2>1
  <2> QED
    BY <2>1, <2>2
<1>6. fs.format.len >= MinLen /\ fs.format.len \in Int
  BY <1>1, ParameterAssumption DEF Handles, Formats
<1>7. ASSUME pc \in {"made", "failed"}
      PROVE  IF todo' = <<>> THEN Whole(dev)'
             ELSE ~dev'.master.magic /\ MasterLast(todo)' /\ (NoRoot' \/ NoRootDir' \/ AllNew')
  <2>1. ~dev.master.magic /\ MasterLast(todo) /\ (NoRoot \/ NoRootDir \/ AllNew)
    BY <1>0, <1>7 DEF IInv, Writing
  <2>2. NoRoot' \/ NoRootDir' \/ AllNew'
    <3>1. CASE NoRoot
      BY <1>0, <1>3, <1>5, <3>1 DEF NoRoot
    <3>2. CASE NoRootDir
      BY <1>0, <1>3, <1>5, <3>2 DEF NoRootDir
    <3>3. CASE AllNew
      <4>1. fs'.tree.gen = gen' /\ (Pending("tree")' \/ dev'.tree.gen = gen')
        BY <1>0, <1>3, <1>5, <3>3 DEF AllNew
      <4>2. fs'.alloc.gen = gen' /\ (Pending("alloc")' \/ dev'.alloc.gen = gen')
        BY <1>0, <1>3, <1>5, <3>3 DEF AllNew
      <4>3. Pending("format")' \/ (dev'.format.mkid = gen' /\ dev'.format.len >= MinLen)
        BY <1>0, <1>3, <1>5, <1>6, <3>3 DEF AllNew
      <4>4. fs'.format.mkid = gen' /\ fs'.master.uuid = gen'
        BY <1>0, <3>3 DEF AllNew
      <4> QED
        BY <4>1, <4>2, <4>3, <4>4 DEF AllNew
    <3> QED
      BY <2>1, <3>1, <3>2, <3>3
  <2>3. CASE todo' = <<>>
    <3>0. Len(todo') = 0
      BY <2>3
    <3>5. Len(todo) = 1
      BY <1>2, <3>0
    <3>1. w.part = "master"
      <4>1. todo[Len(todo)].part = "master"
        BY <2>1 DEF MasterLast
      <4> QED
        BY <1>2, <3>5, <4>1
    <3>2. \A name : ~Pending(name)'
      BY <2>3 DEF Pending, Occurs
    <3>3. dev'.master = fs.master
      BY <1>3, <3>1
    <3>4. Whole(dev)'
      BY <1>0, <2>2, <3>1, <3>2, <3>3, <1>3 DEF NoRoot, NoRootDir, AllNew, Whole
    <3> QED
      BY <2>3, <3>4
  <2>4. CASE todo' # <<>>
    <3>1. Len(todo) - 1 \in Nat /\ Len(todo) - 1 > 0
      BY <1>2, <2>4
    <3>2. w.part # "master"
      BY <1>2, <2>1, <3>1 DEF MasterLast
    <3>3. dev'.master = dev.master
      BY <1>3, <3>2
    <3>4. todo'[Len(todo')] = todo[Len(todo)]
      BY <1>2, <3>1
    <3>5. \A i \in 1..Len(todo') - 1 : todo'[i] = todo[i + 1] /\ i + 1 \in 1..Len(todo) - 1
      BY <1>2, <3>1
    <3>6. MasterLast(todo)'
      BY <2>1, <2>4, <3>4, <3>5 DEF MasterLast
    <3> QED
      BY <2>1, <2>2, <2>4, <3>3, <3>6
  <2> QED
    BY <2>3, <2>4
<1>8. Writing'
  BY <1>0, <1>7 DEF Writing
<1> QED
  BY <1>0, <1>1, <1>4, <1>8 DEF IInv, Stopped, Building

(* A crash before the master is written leaves a device without one.        *)
LEMMA CrashKeeps ==
  ASSUME IInv, Crash
  PROVE  IInv'
<1>1. /\ pc # "idle" /\ pc' = "idle" /\ todo' = <<>> /\ dev' = dev /\ job' = job /\ gen' = gen
      /\ damages' = damages /\ crashes' = crashes + 1
  BY DEF Crash
<1>2. TypeOK'
  <2>1. <<>> \in Seq(Writes)
    OBVIOUS
  <2> QED
    BY <1>1, <2>1, SameTypes DEF IInv, TypeOK
<1>3. ASSUME job.sb = "mkfs", dev.master.magic PROVE Whole(dev)
  <2>1. pc \in {"mkfs", "made", "failed"}
    BY <1>1, <1>3 DEF IInv, TypeOK
  <2>2. pc # "mkfs"
    BY <1>3, Present DEF IInv, Building
  <2> QED
    BY <1>3, <2>1, <2>2 DEF IInv, Writing
<1>4. Whole(dev)' = Whole(dev)
  BY <1>1 DEF Whole
<1>5. Stopped'
  BY <1>1, <1>3, <1>4 DEF Stopped
<1> QED
  BY <1>1, <1>2, <1>5 DEF IInv, Building, Writing, FsckSteps

(* A step from one field of the handle to the next keeps it a handle.       *)
LEMMA HandleUpdates ==
  ASSUME NEW h \in Handles
  PROVE  /\ \A x \in Int : [h EXCEPT !.format.root = x] \in Handles
         /\ \A b \in BOOLEAN : [h EXCEPT !.format.counts = b] \in Handles
         /\ \A b \in BOOLEAN : [h EXCEPT !.tree.rootdir = b] \in Handles
         /\ \A x \in Int : [h EXCEPT !.tree.pset = x] \in Handles
         /\ \A x \in Int : [h EXCEPT !.alloc.gen = x] \in Handles
         /\ \A x \in States : [h EXCEPT !.status.state = x] \in Handles
         /\ \A x \in Backups : [h EXCEPT !.backup = x] \in Handles
         /\ \A D \in SUBSET Parts : [h EXCEPT !.dirty = D] \in Handles
<1> DEFINE F == {f \in Formats : f.magic /\ f.len \in MinLen..DevLen}
<1>0. /\ h.format \in F /\ h.tree \in Trees /\ h.alloc \in Allocs /\ h.status \in Statuses
  BY DEF Handles
<1>1. ASSUME NEW x \in Int PROVE [h EXCEPT !.format.root = x] \in Handles
  <2> DEFINE g == [h.format EXCEPT !.root = x]
  <2>1. g \in Formats /\ g.magic = h.format.magic /\ g.len = h.format.len
    BY <1>0 DEF Formats
  <2>2. [h EXCEPT !.format.root = x] = [h EXCEPT !.format = g]
    BY DEF Handles
  <2>3. g \in F
    BY <1>0, <2>1
  <2> HIDE DEF g, F
  <2> QED
    BY <2>2, <2>3 DEF Handles, F
<1>2. ASSUME NEW b \in BOOLEAN PROVE [h EXCEPT !.format.counts = b] \in Handles
  <2> DEFINE g == [h.format EXCEPT !.counts = b]
  <2>1. g \in Formats /\ g.magic = h.format.magic /\ g.len = h.format.len
    BY <1>0 DEF Formats
  <2>2. [h EXCEPT !.format.counts = b] = [h EXCEPT !.format = g]
    BY DEF Handles
  <2>3. g \in F
    BY <1>0, <2>1
  <2> HIDE DEF g, F
  <2> QED
    BY <2>2, <2>3 DEF Handles, F
<1>3. ASSUME NEW b \in BOOLEAN PROVE [h EXCEPT !.tree.rootdir = b] \in Handles
  <2>1. [h.tree EXCEPT !.rootdir = b] \in Trees
    BY <1>0 DEF Trees
  <2> QED
    BY <2>1 DEF Handles
<1>4. ASSUME NEW x \in Int PROVE [h EXCEPT !.tree.pset = x] \in Handles
  <2>1. [h.tree EXCEPT !.pset = x] \in Trees
    BY <1>0 DEF Trees
  <2> QED
    BY <2>1 DEF Handles
<1>5. ASSUME NEW x \in Int PROVE [h EXCEPT !.alloc.gen = x] \in Handles
  <2>1. [h.alloc EXCEPT !.gen = x] \in Allocs
    BY <1>0 DEF Allocs
  <2> QED
    BY <2>1 DEF Handles
<1>6. ASSUME NEW x \in States PROVE [h EXCEPT !.status.state = x] \in Handles
  <2>1. [h.status EXCEPT !.state = x] \in Statuses
    BY <1>0 DEF Statuses
  <2> QED
    BY <2>1 DEF Handles
<1>7. \A x \in Backups : [h EXCEPT !.backup = x] \in Handles
  BY DEF Handles
<1>8. \A D \in SUBSET Parts : [h EXCEPT !.dirty = D] \in Handles
  BY DEF Handles
<1> QED
  BY <1>1, <1>2, <1>3, <1>4, <1>5, <1>6, <1>7, <1>8

(* Starting to synchronize leaves the handle what it is, but clean.         *)
LEMMA SyncHandle ==
  ASSUME NEW h \in Handles, NEW next, Sync(h, next)
  PROVE  /\ todo' = SyncOrder(h) /\ todo' \in Seq(Writes) /\ pc' = next
         /\ fs' \in Handles
         /\ fs'.master = h.master /\ fs'.format = h.format /\ fs'.alloc = h.alloc
         /\ fs'.tree = h.tree /\ fs'.backup = h.backup
         /\ h.format.len \in MinLen..DevLen
<1>1. h.format.len \in MinLen..DevLen
  BY DEF Handles
<1>2. todo' = SyncOrder(h) /\ fs' = [h EXCEPT !.dirty = {}] /\ pc' = next
  BY DEF Sync
<1>3. SyncOrder(h) \in Seq(Writes)
  BY <1>1, SyncWrites
<1>4. fs' \in Handles
  BY <1>2, HandleUpdates
<1>5. /\ fs'.master = h.master /\ fs'.format = h.format /\ fs'.alloc = h.alloc
      /\ fs'.tree = h.tree /\ fs'.backup = h.backup
  BY <1>2 DEF Handles
<1> QED
  BY <1>1, <1>2, <1>3, <1>4, <1>5

(* What a step of fsck has to keep.                                         *)
LEMMA FsckKeeps ==
  ASSUME IInv, dev' \in Devices, pc' \in {"idle"} \cup FsckSteps,
         pc' # "idle" => fs' \in Handles, todo' \in Seq(Writes),
         pc' = "idle" => todo' = <<>>, job'.sb # "mkfs",
         gen' = gen, damages' = damages, crashes' = crashes
  PROVE  IInv'
<1>1. TypeOK'
  BY SameTypes DEF IInv, TypeOK
<1> QED
  BY <1>1 DEF IInv, Stopped, Building, Writing, FsckSteps

(* reiser4_fs_backup() makes a backup of the ids it is given.               *)
LEMMA BackupMade ==
  ASSUME NEW m \in Masters, NEW f \in Formats, NEW pset \in Int
  PROVE  /\ reiser4_fs_backup(m, f, pset) \in Backups
         /\ reiser4_fs_backup(m, f, pset).uuid = m.uuid
         /\ reiser4_fs_backup(m, f, pset).mkid = f.mkid
<1> DEFINE kept == reiser4_pset_backup(f, pset)
           yes == TRUE
           b == [magic |-> yes, blksize |-> m.blksize, pid |-> m.pid, uuid |-> m.uuid,
                 label |-> m.label, len |-> f.len, mkid |-> f.mkid, policy |-> f.policy,
                 flags |-> f.flags, version |-> f.version, pset |-> kept]
<1>1. reiser4_fs_backup(m, f, pset) = b
  BY DEF reiser4_fs_backup, reiser4_master_backup, format40_backup
<1>2. kept \in Int /\ yes \in {TRUE}
  BY DEF reiser4_pset_backup
<1>3. /\ m.blksize \in Int /\ m.pid \in Int /\ m.uuid \in Ids /\ m.label \in Int
      /\ f.len \in Int /\ f.mkid \in Ids /\ f.policy \in Int /\ f.flags \in Int /\ f.version \in Int
  BY DEF Masters, Formats
<1> HIDE DEF kept, yes
<1>4. b \in Backups
  BY <1>2, <1>3 DEF Backups
<1> QED
  BY <1>1, <1>4

(* mkfs begins with a device that has no master, and a handle of its own    *)
(* generation without a root.                                               *)
LEMMA MkfsKeeps ==
  ASSUME IInv, Mkfs
  PROVE  IInv'
<1>0. /\ pc = "idle" /\ gen' = gen + 1 /\ dev' = [dev EXCEPT !.master = None] /\ pc' = "mkfs"
      /\ job' = [sb |-> "mkfs", fs |-> "mkfs"] /\ todo' = todo /\ damages' = damages /\ crashes' = crashes
      /\ Trouble + gen <= MaxTrouble
  BY DEF Mkfs, Clobbered
<1>1. TypeOK /\ todo = <<>> /\ MaxTrouble \in Nat /\ MaxTrouble < 49 /\ gen \in Nat /\ damages \in Nat
  BY <1>0, InstanceAssumption DEF IInv, TypeOK
<1>2. gen + 1 \in 1..MaxTrouble + 1
  <2>1. \A n \in Nat : Upto(n) \in Nat
    <3> SUFFICES ASSUME NEW n \in Nat PROVE (n * (n + 1)) \div 2 \in Nat
      BY DEF Upto
    <3>1. n * (n + 1) \in Nat
      OBVIOUS
    <3> QED
      BY <3>1, DivBounds
  <2>2. crashes \in Nat /\ gen - 1 \in Nat
    BY <1>1 DEF TypeOK
  <2>3. Trouble \in Nat
    BY <1>1, <2>1, <2>2 DEF Trouble
  <2> QED
    BY <1>0, <1>1, <2>3
<1>3. PICK len \in Lens :
       fs' = [magic   |-> TRUE,
              master  |-> reiser4_master_create(gen + 1),
              format  |-> [format40_create(gen + 1, len, Release) EXCEPT !.root = InvalBlk],
              status  |-> reiser4_status_create,
              alloc   |-> [gen |-> gen + 1, crc |-> TRUE],
              tree    |-> [gen |-> 0, rootdir |-> FALSE, pset |-> 0],
              backup  |-> None,
              dirty   |-> {"journal", "alloc", "format", "status", "master"}]
  BY DEF Mkfs
<1> DEFINE g == gen + 1
           m == reiser4_master_create(g)
           f == [format40_create(g, len, Release) EXCEPT !.root = InvalBlk]
           st == reiser4_status_create
           a == [gen |-> g, crc |-> TRUE]
           t == [gen |-> 0, rootdir |-> FALSE, pset |-> 0]
           dirty == {"journal", "alloc", "format", "status", "master"}
           yes == TRUE
           h == [magic |-> yes, master |-> m, format |-> f, status |-> st, alloc |-> a, tree |-> t,
                 backup |-> None, dirty |-> dirty]
<1>4. g \in Ids /\ g \in Int /\ len \in MinLen..DevLen /\ len \in Int /\ Release \in Int
  BY <1>1, <1>2, ParameterAssumption, InstanceAssumption DEF Ids
<1>5. fs' = h
  BY <1>3
<1> HIDE DEF g
<1>6. m \in Masters /\ m.magic /\ m.uuid = g
  BY <1>4 DEF reiser4_master_create, Masters, Fmt40
<1>7. f \in Formats /\ f.magic /\ f.mkid = g /\ f.root = InvalBlk /\ f.len = len
  <2> DEFINE r == format40_create(g, len, Release)
  <2>1. r \in Formats /\ r.magic /\ r.mkid = g /\ r.len = len
    BY <1>4 DEF format40_create, Formats
  <2>2. InvalBlk \in Int
    BY DEF InvalBlk
  <2>3. f = [r EXCEPT !.root = InvalBlk]
    OBVIOUS
  <2> HIDE DEF r, InvalBlk
  <2> QED
    BY <2>1, <2>2, <2>3 DEF Formats
<1>8. st \in Statuses
  BY DEF reiser4_status_create, Statuses, States
<1>9. a \in Allocs /\ a.gen = g
  BY <1>4 DEF Allocs
<1>10. t \in Trees
  BY <1>1 DEF Trees
<1>11. dirty \in SUBSET Parts /\ {"alloc", "format", "master"} \subseteq dirty /\ yes \in {TRUE}
  BY DEF Parts
<1> HIDE DEF m, f, st, a, t, dirty, yes
<1>12. h \in Handles
  BY <1>4, <1>6, <1>7, <1>8, <1>9, <1>10, <1>11 DEF Handles
<1>13. dev' \in Devices /\ dev'.master = None
  BY <1>0, <1>1 DEF TypeOK, Devices
<1>14. TypeOK'
  BY <1>0, <1>1, <1>2, <1>5, <1>12, <1>13, SameTypes DEF TypeOK
<1>15. Building'
  <2>1. h.format = f /\ h.master = m /\ h.alloc = a /\ h.dirty = dirty
    OBVIOUS
  <2>2. gen' = g
    BY <1>0 DEF g
  <2> HIDE DEF h
  <2> QED
    BY <1>5, <1>6, <1>7, <1>9, <1>11, <1>13, <2>1, <2>2 DEF Building
<1> QED
  BY <1>0, <1>1, <1>14, <1>15 DEF IInv, Stopped, Writing, FsckSteps

(* What mkfs synchronizes when it is done or gives up: the master last, and *)
(* the tree has no root, no root directory, or all is new.                  *)
LEMMA MkfsSyncKeeps ==
  ASSUME IInv, pc = "mkfs", NEW h \in Handles, NEW next \in {"made", "failed"}, Sync(h, next),
         dev' = dev, job' = job, gen' = gen, damages' = damages, crashes' = crashes,
         "master" \in h.dirty,
         \/ h.format.root = InvalBlk /\ "format" \in h.dirty
         \/ ~h.tree.rootdir /\ "tree" \in h.dirty
         \/ /\ {"tree", "alloc", "format"} \subseteq h.dirty
            /\ h.tree.gen = gen /\ h.alloc.gen = gen /\ h.format.mkid = gen /\ h.master.uuid = gen
  PROVE  IInv'
<1>1. /\ todo' = SyncOrder(h) /\ todo' \in Seq(Writes) /\ pc' = next /\ fs' \in Handles
      /\ fs'.master = h.master /\ fs'.format = h.format /\ fs'.alloc = h.alloc
      /\ fs'.tree = h.tree /\ h.format.len \in MinLen..DevLen
  BY SyncHandle
<1>2. /\ \A name \in {"tree", "alloc", "format"} : name \in h.dirty => Occurs(todo', name)
      /\ MasterLast(todo')
  BY <1>1, SyncWrites
<1>3. TypeOK'
  BY <1>1, SameTypes DEF IInv, TypeOK
<1>4. ~dev.master.magic /\ job.sb = "mkfs"
  BY Present DEF IInv, Building
<1>5. NoRoot' \/ NoRootDir' \/ AllNew'
  BY <1>1, <1>2 DEF NoRoot, NoRootDir, AllNew, Pending
<1>6. todo' # <<>>
  BY <1>2 DEF MasterLast
<1>7. Writing'
  BY <1>2, <1>4, <1>5, <1>6 DEF Writing
<1> QED
  BY <1>1, <1>3, <1>4, <1>7 DEF IInv, Stopped, Building, FsckSteps

(* A file system that mkfs has filled is new in all of its parts.           *)
LEMMA FilledIsNew ==
  ASSUME IInv, pc = "mkfs"
  PROVE  /\ Filled(fs) \in Handles
         /\ {"tree", "alloc", "format", "master"} \subseteq Filled(fs).dirty
         /\ Filled(fs).tree.gen = gen /\ Filled(fs).alloc.gen = gen
         /\ Filled(fs).format.mkid = gen /\ Filled(fs).master.uuid = gen
<1>0. /\ fs \in Handles /\ gen \in Int /\ gen \in 0..MaxTrouble + 1
      /\ fs.format.mkid = gen /\ fs.master.uuid = gen /\ fs.alloc.gen = gen
      /\ {"alloc", "format", "master"} \subseteq fs.dirty
  BY InstanceAssumption DEF IInv, TypeOK, Building
<1> DEFINE f == [fs.format EXCEPT !.root = gen]
           t == MadeTree(gen)
           b == reiser4_fs_backup(fs.master, f, gen)
           D == fs.dirty \cup {"tree", "backup"}
           h == [fs EXCEPT !.tree = t, !.format = f, !.backup = b, !.dirty = D]
           F == {x \in Formats : x.magic /\ x.len \in MinLen..DevLen}
<1>1. Filled(fs) = h
  BY Zenon DEF Filled
<1>2. fs.format \in F /\ fs.master \in Masters /\ fs.dirty \in SUBSET Parts
  BY <1>0 DEF Handles
<1>3. f \in F /\ f.mkid = gen
  <2>1. f \in Formats /\ f.magic = fs.format.magic /\ f.len = fs.format.len /\ f.mkid = fs.format.mkid
    BY <1>0, <1>2 DEF Formats
  <2> QED
    BY <1>0, <1>2, <2>1
<1>4. t \in Trees /\ t.gen = gen
  BY <1>0 DEF MadeTree, Trees
<1> HIDE DEF f
<1>5. b \in Backups
  BY <1>0, <1>2, <1>3, BackupMade
<1>6. D \in SUBSET Parts /\ {"tree", "alloc", "format", "master"} \subseteq D
  BY <1>0, <1>2 DEF Parts
<1> HIDE DEF t, b, D, F
<1> DEFINE h1 == [fs EXCEPT !.tree = t]
           h2 == [h1 EXCEPT !.format = f]
           h3 == [h2 EXCEPT !.backup = b]
           h4 == [h3 EXCEPT !.dirty = D]
<1>7. h = h4
  OBVIOUS
<1>8. h1 \in Handles /\ h1.tree = t /\ h1.alloc = fs.alloc /\ h1.master = fs.master
  BY <1>0, <1>4 DEF Handles
<1> HIDE DEF h1
<1>9. h2 \in Handles /\ h2.tree = t /\ h2.alloc = fs.alloc /\ h2.master = fs.master /\ h2.format = f
  BY <1>3, <1>8 DEF Handles, F
<1> HIDE DEF h2
<1>10. h3 \in Handles /\ h3.tree = t /\ h3.alloc = fs.alloc /\ h3.master = fs.master /\ h3.format = f
  BY <1>5, <1>9 DEF Handles
<1> HIDE DEF h3
<1>11. /\ h4 \in Handles /\ h4.tree = t /\ h4.alloc = fs.alloc /\ h4.master = fs.master
       /\ h4.format = f /\ h4.dirty = D
  BY <1>6, <1>10 DEF Handles
<1> HIDE DEF h4, h
<1>12. Filled(fs) = h4
  BY <1>1, <1>7
<1> QED
  BY <1>0, <1>3, <1>4, <1>6, <1>11, <1>12

(* mkfs when all went well.                                                 *)
LEMMA MkfsFillKeeps ==
  ASSUME IInv, MkfsFill
  PROVE  IInv'
<1> DEFINE h == Filled(fs)
<1>1. /\ pc = "mkfs" /\ Sync(h, "made")
      /\ dev' = dev /\ job' = job /\ gen' = gen /\ damages' = damages /\ crashes' = crashes
  BY DEF MkfsFill
<1>2. /\ h \in Handles /\ {"tree", "alloc", "format", "master"} \subseteq h.dirty
      /\ h.tree.gen = gen /\ h.alloc.gen = gen /\ h.format.mkid = gen /\ h.master.uuid = gen
  BY <1>1, FilledIsNew
<1> HIDE DEF h
<1> QED
  BY <1>1, <1>2, MkfsSyncKeeps

(* mkfs that gives up: with no root, with a root and no root directory, or  *)
(* with all of it.                                                          *)
LEMMA MkfsFailsKeeps ==
  ASSUME IInv, MkfsFails
  PROVE  IInv'
<1> DEFINE rooted == [fs EXCEPT !.tree = [MadeTree(gen) EXCEPT !.rootdir = FALSE],
                                !.format.root = gen,
                                !.dirty = @ \cup {"tree"}]
<1>1. /\ pc = "mkfs"
      /\ dev' = dev /\ job' = job /\ gen' = gen /\ damages' = damages /\ crashes' = crashes
  BY DEF MkfsFails
<1>2. PICK h \in {fs, rooted, Filled(fs)} : Sync(h, "failed")
  BY Zenon DEF MkfsFails
<1>3. /\ fs \in Handles /\ gen \in Int /\ gen \in 0..MaxTrouble + 1
      /\ fs.format.root = InvalBlk /\ {"format", "master"} \subseteq fs.dirty
  BY <1>1, InstanceAssumption DEF IInv, TypeOK, Building
<1>4. CASE h = fs
  BY <1>1, <1>2, <1>3, <1>4, MkfsSyncKeeps
<1>5. CASE h = Filled(fs)
  BY <1>1, <1>2, <1>5, FilledIsNew, MkfsSyncKeeps
<1>6. CASE h = rooted
  <2> DEFINE t  == [MadeTree(gen) EXCEPT !.rootdir = FALSE]
             D  == fs.dirty \cup {"tree"}
             h1 == [fs EXCEPT !.tree = t]
             h2 == [h1 EXCEPT !.format.root = gen]
             h3 == [h2 EXCEPT !.dirty = D]
  <2>1. rooted = h3
    OBVIOUS
  <2>2. t \in Trees /\ ~t.rootdir
    BY <1>3 DEF MadeTree, Trees
  <2>3. D \in SUBSET Parts /\ {"tree", "format", "master"} \subseteq D
    BY <1>3 DEF Handles, Parts
  <2> HIDE DEF t, D
  <2>4. h1 \in Handles /\ h1.tree = t
    BY <1>3, <2>2 DEF Handles
  <2> HIDE DEF h1
  <2>5. h2 \in Handles
    BY <1>3, <2>4, HandleUpdates
  <2>6. h2.tree = t
    BY <2>4 DEF Handles
  <2> HIDE DEF h2
  <2>7. h3 \in Handles /\ h3.tree = t /\ h3.dirty = D
    BY <2>3, <2>5, <2>6 DEF Handles
  <2>8. h = h3
    BY <1>6, <2>1
  <2> HIDE DEF h3, rooted
  <2> QED
    BY <1>1, <1>2, <2>2, <2>3, <2>7, <2>8, MkfsSyncKeeps
<1> QED
  BY <1>2, <1>4, <1>5, <1>6

(* mkfs ends when everything is on the device.                              *)
LEMMA MkfsEndsKeeps ==
  ASSUME IInv, MkfsEnds
  PROVE  IInv'
<1>1. /\ pc \in {"made", "failed"} /\ todo = <<>> /\ pc' = "idle" /\ dev' = dev /\ job' = job
      /\ todo' = todo /\ gen' = gen /\ damages' = damages /\ crashes' = crashes
  BY DEF MkfsEnds
<1>2. Whole(dev)
  BY <1>1 DEF IInv, Writing
<1>3. TypeOK'
  BY <1>1, SameTypes DEF IInv, TypeOK
<1>4. Whole(dev)' = Whole(dev)
  BY <1>1 DEF Whole
<1> QED
  BY <1>1, <1>2, <1>3, <1>4 DEF IInv, Stopped, Building, Writing, FsckSteps

(* repair_fs_replay(): what the transaction holds is a format super block.  *)
LEMMA FsckReplayKeeps ==
  ASSUME IInv, FsckReplay
  PROVE  IInv'
<1> DEFINE d == IF dev.journal.magic THEN [dev EXCEPT !.format = dev.journal] ELSE dev
           x == d.format.root
           c == fs.format.counts \/ dev.journal.magic
           D == fs.dirty \cup {"format"}
           h1 == [fs EXCEPT !.format.root = x]
           h2 == [h1 EXCEPT !.format.counts = c]
           h3 == [h2 EXCEPT !.dirty = D]
<1>1. /\ pc = "replay" /\ dev' = [d EXCEPT !.journal = None]
      /\ job' = job /\ gen' = gen /\ damages' = damages /\ crashes' = crashes
  BY DEF FsckReplay, NoTx
<1>2. Sync([fs EXCEPT !.format.root = x, !.format.counts = @ \/ dev.journal.magic,
                      !.dirty = @ \cup {"format"}], "passes")
  BY Zenon DEF FsckReplay
<1>3. fs \in Handles /\ dev \in Devices /\ job.sb # "mkfs"
  BY <1>1 DEF IInv, TypeOK, FsckSteps
<1>4. d \in Devices
  <2>1. dev.journal.magic => dev.journal \in Formats
    BY <1>3, Present DEF Devices
  <2> QED
    BY <1>3, <2>1 DEF Devices
<1> HIDE DEF d
<1>5. dev' \in Devices
  BY <1>1, <1>4 DEF Devices
<1>6. x \in Int
  BY <1>4 DEF Devices, Formats
<1>7. c \in BOOLEAN
  OBVIOUS
<1>8. D \in SUBSET Parts
  BY <1>3 DEF Handles, Parts
<1>9. [fs EXCEPT !.format.root = x, !.format.counts = @ \/ dev.journal.magic,
                 !.dirty = @ \cup {"format"}] = h3
  <2>1. fs.format.counts = [fs EXCEPT !.format.root = x].format.counts
    BY <1>3 DEF Handles, Formats
  <2>2. fs.dirty = h2.dirty
    BY <1>3 DEF Handles, Formats
  <2> QED
    BY <2>1, <2>2
<1> HIDE DEF x, c, D
<1>10. h1 \in Handles
  BY <1>3, <1>6, HandleUpdates
<1> HIDE DEF h1
<1>11. h2 \in Handles
  BY <1>7, <1>10, HandleUpdates
<1> HIDE DEF h2
<1>12. h3 \in Handles
  BY <1>8, <1>11, HandleUpdates
<1>13. Sync(h3, "passes")
  BY <1>2, <1>9
<1> HIDE DEF h3
<1>14. todo' \in Seq(Writes) /\ pc' = "passes" /\ fs' \in Handles
  BY <1>12, <1>13, SyncHandle
<1> QED
  BY <1>1, <1>3, <1>5, <1>14, FsckKeeps DEF FsckSteps

(* The end of fsck changes nothing on the device.                           *)
LEMMA FsckEndsKeeps ==
  ASSUME IInv, FsckEnds
  PROVE  IInv'
<1>1. /\ pc = "close" /\ todo = <<>> /\ pc' = "idle" /\ dev' = dev /\ job' = job
      /\ todo' = todo /\ gen' = gen /\ damages' = damages /\ crashes' = crashes
  BY DEF FsckEnds, End
<1>2. dev \in Devices /\ job.sb # "mkfs" /\ todo \in Seq(Writes)
  BY <1>1 DEF IInv, TypeOK, FsckSteps
<1> QED
  BY <1>1, <1>2, FsckKeeps

(* repair_fs_open(): the handle fsck goes on with has super blocks that can *)
(* be worked with, from whichever copy they come.                           *)
LEMMA FsckOpenKeeps ==
  ASSUME IInv, FsckOpen
  PROVE  IInv'
<1> DEFINE m == IF dev.master.magic THEN dev.master ELSE None
           f == IF reiser4_format_open(dev, m) THEN dev.format ELSE None
<1>0. /\ pc = "idle" /\ todo' = todo /\ gen' = gen /\ damages' = damages /\ crashes' = crashes
  BY DEF FsckOpen
<1>1. PICK s \in Heaviest(dev, m, f), mode \in Modes : FsckOpenBy(m, f, s, mode)
  BY Zenon DEF FsckOpen
<1> DEFINE b  == RepairBackupOpen(s, mode.sb)
           mc == RepairMasterCheck(m, b, f.magic, mode.sb)
           fo == IF reiser4_format_open(dev, mc.sb) THEN dev.format ELSE None
           fc == RepairFormatCheck(fo, b, mode.sb, 50)
           st == repair_status_open(dev)
           small == (IF dev.status.magic THEN {} ELSE {"status"})
                      \cup (IF dev.alloc.crc THEN {} ELSE {"alloc"})
           fatal  == (~b.magic /\ mode.sb # BUILD) \/ "fatal" \in mc.err \cup fc.err
           dirty  == (IF mc.sb # dev.master THEN {"master"} ELSE {})
                       \cup (IF fc.sb # fo THEN {"format"} ELSE {})
                       \cup (IF mode.sb = CHECK THEN {} ELSE small)
                       \cup (IF BackupIncomplete(s, b) THEN {"backup"} ELSE {})
           yes == TRUE
           h == [magic |-> yes, master |-> mc.sb, format |-> fc.sb, status |-> st,
                 alloc |-> dev.alloc, tree |-> dev.tree, backup |-> b, dirty |-> dirty]
<1>2. /\ job' = mode
      /\ fatal => pc' = "idle" /\ dev' = dev
      /\ ~fatal => /\ fs' = h /\ pc' = "replay"
                   /\ dev' = dev \/ dev' = [dev EXCEPT !.master = None]
  BY <1>1, Zenon DEF FsckOpenBy, End, Clobbered
<1>3. /\ TypeOK /\ todo = <<>> /\ dev \in Devices /\ damages \in Nat
      /\ dev.master \in Masters \cup {None} /\ dev.format \in Formats
      /\ dev.status \in Statuses /\ dev.alloc \in Allocs /\ dev.tree \in Trees
  BY <1>0 DEF IInv, TypeOK, Devices
<1>4. mode.sb \in {CHECK, FIX, BUILD} /\ mode.sb # "mkfs"
  BY DEF Modes, CHECK, FIX, BUILD
<1>5. s.app = None \/ (s.app \in Backups /\ s.app.len \in MinLen..DevLen)
  BY <1>3, HeaviestKnown
<1>6. b \in Backups \cup {None} /\ (b.magic => b.len \in MinLen..DevLen)
  <2>1. b = None \/ b = s.app
    BY DEF RepairBackupOpen
  <2> QED
    BY <1>5, <2>1, Present
<1>7. m \in Masters \cup {None}
  BY <1>3
<1>8. fo \in Formats \cup {None} /\ f.magic \in BOOLEAN
  BY <1>3, Present
<1>9. dirty \in SUBSET Parts /\ yes \in {TRUE}
  BY DEF Parts
<1>10. st \in Statuses
  BY <1>3 DEF repair_status_open, reiser4_status_create, Statuses, States
<1>11. dev' \in Devices
  BY <1>2, <1>3 DEF Devices
<1>12. CASE fatal
  <2>1. pc' = "idle" /\ todo' \in Seq(Writes) /\ todo' = <<>>
    BY <1>0, <1>2, <1>3, <1>12 DEF TypeOK
  <2> QED
    BY <1>0, <1>2, <1>4, <1>11, <2>1, FsckKeeps
<1>13. CASE ~fatal
  <2>1. "fatal" \notin mc.err /\ "fatal" \notin fc.err
    BY <1>13
  <2>2. mc.sb \in Masters /\ mc.sb.magic
    BY <1>3, <1>4, <1>6, <1>7, <1>8, <2>1, MasterChecked
  <2> HIDE DEF mc, b
  <2>3. Sound(fc.sb)
    BY <1>3, <1>4, <1>6, <1>8, <2>1, FormatChecked
  <2>4. fc.sb \in {x \in Formats : x.magic /\ x.len \in MinLen..DevLen}
    BY <2>3 DEF Sound
  <2>5. mc.sb \in {x \in Masters : x.magic}
    BY <2>2
  <2> HIDE DEF fc, st, dirty, yes
  <2>6. h \in Handles
    BY <1>3, <1>6, <1>9, <1>10, <2>4, <2>5 DEF Handles
  <2>7. pc' = "replay" /\ fs' = h /\ todo' \in Seq(Writes)
    BY <1>0, <1>2, <1>3, <1>13 DEF TypeOK
  <2> HIDE DEF h
  <2> QED
    BY <1>0, <1>2, <1>4, <1>11, <2>6, <2>7, FsckKeeps DEF FsckSteps
<1> QED
  BY <1>12, <1>13

(* The plugin set a build gives the root: its own, or that of the backup.   *)
LEMMA PsetKnown ==
  ASSUME NEW h \in Handles
  PROVE  (IF PsetDiffers(h) THEN h.backup.pset ELSE h.tree.pset) \in Int
<1>1. h.backup \in Backups \cup {None} /\ h.tree.pset \in Int
  BY DEF Handles, Trees
<1>2. h.backup.magic => h.backup.pset \in Int
  BY <1>1, Present DEF Backups
<1> QED
  BY <1>1, <1>2 DEF PsetDiffers

(* repair_check(), in each of its modes.                                    *)
LEMMA RepairCheckKeeps ==
  ASSUME IInv, RepairCheck
  PROVE  IInv'
<1>1. /\ pc = "passes" /\ todo = <<>> /\ dev' = dev
      /\ job' = job /\ gen' = gen /\ damages' = damages /\ crashes' = crashes
  BY DEF RepairCheck
<1>2. fs \in Handles /\ dev' \in Devices /\ job.sb # "mkfs" /\ todo \in Seq(Writes)
  BY <1>1 DEF IInv, TypeOK, FsckSteps
<1>3. ASSUME NEW h \in Handles, Sync(h, "fini") PROVE IInv'
  <2>1. todo' \in Seq(Writes) /\ pc' = "fini" /\ fs' \in Handles
    BY <1>3, SyncHandle
  <2> QED
    BY <1>1, <1>2, <2>1, FsckKeeps DEF FsckSteps
<1>4. ASSUME pc' = "fini", fs' = fs, todo' = todo PROVE IInv'
  BY <1>1, <1>2, <1>4, FsckKeeps DEF FsckSteps
<1>5. fs.tree.gen \in Int /\ fs.dirty \in SUBSET Parts
  BY <1>2, InstanceAssumption DEF Handles, Trees
<1> DEFINE x == fs.tree.gen
           yes == TRUE
           ps == IF PsetDiffers(fs) THEN fs.backup.pset ELSE fs.tree.pset
<1>6. ps \in Int /\ x \in Int /\ yes \in BOOLEAN
  BY <1>2, <1>5, PsetKnown
<1>7. ASSUME Sync([fs EXCEPT !.format.root = fs.tree.gen, !.format.counts = TRUE,
                             !.tree.rootdir = TRUE,
                             !.tree.pset = IF PsetDiffers(fs) THEN fs.backup.pset ELSE @,
                             !.alloc.gen = fs.tree.gen,
                             !.dirty = @ \cup {"tree", "alloc", "format"}], "fini")
      PROVE  IInv'
  <2> DEFINE D == fs.dirty \cup {"tree", "alloc", "format"}
             h1 == [fs EXCEPT !.format.root = x]
             h2 == [h1 EXCEPT !.format.counts = yes]
             h3 == [h2 EXCEPT !.tree.rootdir = yes]
             h4 == [h3 EXCEPT !.tree.pset = ps]
             h5 == [h4 EXCEPT !.alloc.gen = x]
             h6 == [h5 EXCEPT !.dirty = D]
             whole == [fs EXCEPT !.format.root = fs.tree.gen, !.format.counts = TRUE,
                             !.tree.rootdir = TRUE,
                             !.tree.pset = IF PsetDiffers(fs) THEN fs.backup.pset ELSE @,
                             !.alloc.gen = fs.tree.gen,
                             !.dirty = @ \cup {"tree", "alloc", "format"}]
  <2>1. whole = h6
    <3>1. h3.tree.pset = fs.tree.pset
      BY <1>2 DEF Handles, Trees
    <3>2. h5.dirty = fs.dirty
      BY <1>2 DEF Handles
    <3> QED
      BY <3>1, <3>2
  <2>2. Sync(h6, "fini")
    BY <1>7, <2>1
  <2>3. D \in SUBSET Parts
    BY <1>5 DEF Parts
  <2> HIDE DEF x, ps, yes, D, whole
  <2>4. h1 \in Handles
    BY <1>2, <1>6, HandleUpdates
  <2> HIDE DEF h1
  <2>5. h2 \in Handles
    BY <1>6, <2>4, HandleUpdates
  <2> HIDE DEF h2
  <2>6. h3 \in Handles
    BY <1>6, <2>5, HandleUpdates
  <2> HIDE DEF h3
  <2>7. h4 \in Handles
    BY <1>6, <2>6, HandleUpdates
  <2> HIDE DEF h4
  <2>8. h5 \in Handles
    BY <1>6, <2>7, HandleUpdates
  <2> HIDE DEF h5
  <2>9. h6 \in Handles
    BY <2>3, <2>8, HandleUpdates
  <2> HIDE DEF h6
  <2> QED
    BY <1>3, <2>2, <2>9
<1>8. ASSUME NEW found, NEW map \in United(fs),
             Sync([fs EXCEPT !.format.counts = @ \/ found, !.alloc = map,
                             !.dirty = @ \cup {"alloc", "format"}], "fini")
      PROVE  IInv'
  <2> DEFINE D == fs.dirty \cup {"alloc", "format"}
             c == fs.format.counts \/ found
             h1 == [fs EXCEPT !.format.counts = c]
             h2 == [h1 EXCEPT !.alloc = map]
             h3 == [h2 EXCEPT !.dirty = D]
  <2>1. [fs EXCEPT !.format.counts = @ \/ found, !.alloc = map,
                   !.dirty = @ \cup {"alloc", "format"}] = h3
    <3>1. h2.dirty = fs.dirty
      BY <1>2 DEF Handles
    <3> QED
      BY <3>1
  <2>2. Sync(h3, "fini")
    BY <1>8, <2>1
  <2>3. D \in SUBSET Parts /\ c \in BOOLEAN
    BY <1>5 DEF Parts
  <2>4. map = fs.alloc \/ map = [fs.alloc EXCEPT !.gen = x] \/ map = [fs.alloc EXCEPT !.gen = 0]
    BY <1>8 DEF United, MixedMap
  <2> HIDE DEF x, c, D
  <2>5. h1 \in Handles
    BY <1>2, <2>3, HandleUpdates
  <2>6. h1.alloc = fs.alloc
    BY <1>2 DEF Handles
  <2> HIDE DEF h1
  <2>7. h2 \in Handles
    <3>1. CASE map = fs.alloc
      BY <2>5, <2>6, <3>1 DEF Handles
    <3>2. ASSUME NEW g \in Int, map = [fs.alloc EXCEPT !.gen = g] PROVE h2 \in Handles
      <4>1. h2 = [h1 EXCEPT !.alloc.gen = g]
        BY <2>6, <3>2
      <4> QED
        BY <2>5, <4>1, HandleUpdates
    <3> QED
      BY <1>6, <2>4, <3>1, <3>2
  <2> HIDE DEF h2
  <2>8. h3 \in Handles
    BY <2>3, <2>7, HandleUpdates
  <2> HIDE DEF h3
  <2> QED
    BY <1>3, <2>2, <2>8
<1> QED
  BY <1>4, <1>7, <1>8, Zenon DEF RepairCheck

(* fsck_check_fini(): the status, and a backup of what the super blocks are *)
(* now.                                                                     *)
LEMMA FsckFiniKeeps ==
  ASSUME IInv, FsckFini
  PROVE  IInv'
<1> DEFINE state == repair_status_state(err)
           fresh == repair_backup_reopen(fs)
           back  == "failed" \notin err /\ job # Checking
           newst == IF state = fs.status.state THEN {} ELSE {"status"}
           h     == [fs EXCEPT !.status.state = state, !.dirty = newst]
           h1    == [fs EXCEPT !.status.state = state]
<1>1. /\ pc = "fini" /\ todo = <<>>
      /\ job' = job /\ gen' = gen /\ damages' = damages /\ crashes' = crashes
  BY DEF FsckFini
<1>2. /\ dev' = IF newst = {} THEN dev ELSE reiser4_status_sync(dev, h)
      /\ \/ pc' = "idle" /\ todo' = <<>>
         \/ Sync([h EXCEPT !.backup = fresh, !.dirty = {"backup"}], "close")
         \/ Sync([h EXCEPT !.dirty = {}], "close")
  BY Zenon DEF FsckFini, End
<1>3. fs \in Handles /\ dev \in Devices /\ job.sb # "mkfs" /\ todo \in Seq(Writes)
  BY <1>1 DEF IInv, TypeOK, FsckSteps
<1>4. state \in States
  BY DEF repair_status_state, States
<1>5. newst \in SUBSET Parts
  BY DEF Parts
<1>6. fresh \in Backups
  <2>1. fs.master \in Masters /\ fs.format \in Formats /\ fs.tree.pset \in Int
    BY <1>3 DEF Handles, Trees
  <2> QED
    BY <2>1, BackupMade DEF repair_backup_reopen
<1>7. h = [h1 EXCEPT !.dirty = newst]
  OBVIOUS
<1> HIDE DEF state, newst, fresh
<1>8. h1 \in Handles
  BY <1>3, <1>4, HandleUpdates
<1> HIDE DEF h1
<1>9. h \in Handles
  BY <1>5, <1>7, <1>8, HandleUpdates
<1> HIDE DEF h
<1>10. dev' \in Devices
  <2>1. h.status \in Statuses
    BY <1>9 DEF Handles
  <2>2. [dev EXCEPT !.status = h.status] \in Devices
    BY <1>3, <2>1 DEF Devices
  <2> QED
    BY <1>2, <1>3, <2>2 DEF reiser4_status_sync
<1>11. ASSUME NEW g \in Handles, Sync(g, "close") PROVE IInv'
  <2>1. todo' \in Seq(Writes) /\ pc' = "close" /\ fs' \in Handles
    BY <1>11, SyncHandle
  <2> QED
    BY <1>1, <1>3, <1>10, <2>1, FsckKeeps DEF FsckSteps
<1>12. [h EXCEPT !.backup = fresh, !.dirty = {"backup"}] \in Handles
  <2> DEFINE D == {"backup"}
             g1 == [h EXCEPT !.backup = fresh]
             g2 == [g1 EXCEPT !.dirty = D]
  <2>1. [h EXCEPT !.backup = fresh, !.dirty = {"backup"}] = g2
    OBVIOUS
  <2>2. D \in SUBSET Parts
    BY DEF Parts
  <2>3. g1 \in Handles
    BY <1>6, <1>9, HandleUpdates
  <2> HIDE DEF g1, D
  <2>4. g2 \in Handles
    BY <2>2, <2>3, HandleUpdates
  <2> QED
    BY <2>1, <2>4
<1>13. [h EXCEPT !.dirty = {}] \in Handles
  BY <1>9, HandleUpdates
<1>14. ASSUME pc' = "idle", todo' = <<>> PROVE IInv'
  BY <1>1, <1>3, <1>10, <1>14, FsckKeeps
<1> QED
  BY <1>2, <1>11, <1>12, <1>13, <1>14

-----------------------------------------------------------------------------
(* The invariant, and what follows from it *)

(* The file system the programs start with is a whole one, and no mkfs.     *)
LEMMA InitHolds == Init => IInv
<1> SUFFICES ASSUME Init PROVE IInv
  OBVIOUS
<1>1. PICK len \in Lens, old \in BOOLEAN, tx \in BOOLEAN :
    LET made    == format40_create(1, len, Release)
        format  == [made EXCEPT !.upd = old]
        backup  == reiser4_fs_backup(reiser4_master_create(1), made, 1)
    IN  /\ dev = [master  |-> reiser4_master_create(1),
                  format  |-> IF tx THEN [format EXCEPT !.root = 0] ELSE format,
                  status  |-> reiser4_status_create,
                  alloc   |-> [gen |-> 1, crc |-> TRUE],
                  tree    |-> MadeTree(1),
                  journal |-> IF tx THEN format ELSE NoTx,
                  copy    |-> [p \in Places |->
                                 IF p \notin BackupLayout(len) THEN None
                                 ELSE IF old THEN [backup EXCEPT !.version = 0,
                                                                 !.pset = 0]
                                             ELSE backup]]
        /\ ~(old /\ tx)
        /\ truth = backup
        /\ fs = None /\ pc = "idle" /\ job = [sb |-> "none", fs |-> "none"]
        /\ todo = <<>> /\ err = {} /\ report = "none"
        /\ hurt = {} /\ trust = "unknown"
        /\ gen = 1 /\ damages = 0 /\ crashes = 0
  BY Zenon DEF Init
<1> DEFINE one == 1
           zero == 0
           m  == reiser4_master_create(one)
           f0 == format40_create(one, len, Release)
           f1 == [f0 EXCEPT !.upd = old]
           f2 == IF tx THEN [f1 EXCEPT !.root = zero] ELSE f1
           st == reiser4_status_create
           a  == [gen |-> 1, crc |-> TRUE]
           t  == MadeTree(one)
           j  == IF tx THEN f1 ELSE None
           b0 == reiser4_fs_backup(m, f0, one)
           b1 == [b0 EXCEPT !.version = zero, !.pset = zero]
           c  == [p \in Places |-> IF p \notin BackupLayout(len) THEN None ELSE IF old THEN b1 ELSE b0]
           d  == [master |-> m, format |-> f2, status |-> st, alloc |-> a, tree |-> t,
                  journal |-> j, copy |-> c]
<1>2. /\ dev = d /\ pc = "idle" /\ job = [sb |-> "none", fs |-> "none"] /\ todo = <<>>
      /\ gen = 1 /\ damages = 0 /\ crashes = 0
  BY <1>1 DEF NoTx
<1>3. /\ len \in Int /\ Release \in Int /\ MaxTrouble \in Nat /\ one \in Int /\ zero \in Int
      /\ one \in Ids
  BY <1>2, ParameterAssumption, InstanceAssumption DEF Ids
<1>4. m \in Masters
  BY <1>3 DEF reiser4_master_create, Masters, Fmt40
<1>5. st \in Statuses /\ a \in Allocs /\ t \in Trees
  BY <1>3 DEF reiser4_status_create, Statuses, States, Allocs, MadeTree, Trees
<1> HIDE DEF one, zero
<1>6. f0 \in Formats
  BY <1>3 DEF format40_create, Formats
<1> HIDE DEF m, f0
<1>7. f1 \in Formats
  BY <1>6 DEF Formats
<1> HIDE DEF f1
<1>8. f2 \in Formats /\ j \in Formats \cup {None}
  BY <1>3, <1>7 DEF Formats
<1>9. b0 \in Backups
  BY <1>3, <1>4, <1>6, BackupMade
<1> HIDE DEF b0
<1>10. b1 \in Backups
  BY <1>3, <1>9 DEF Backups
<1> HIDE DEF b1
<1>11. c \in [Places -> Backups \cup {None}]
  BY <1>9, <1>10
<1> HIDE DEF c, f2, j, st, a, t
<1>12. d \in Devices
  BY <1>4, <1>5, <1>8, <1>11 DEF Devices
<1> HIDE DEF d
<1>13. TypeOK
  BY <1>2, <1>3, <1>12 DEF TypeOK
<1> QED
  BY <1>2, <1>13 DEF IInv, Stopped, Building, Writing, FsckSteps

(* Whatever a program does, the invariant is kept.                          *)
LEMMA NextKeeps == IInv /\ [Next]_vars => IInv'
<1> SUFFICES ASSUME IInv, [Next]_vars PROVE IInv'
  OBVIOUS
<1>1. CASE UNCHANGED vars
  <2>1. /\ dev' = dev /\ fs' = fs /\ pc' = pc /\ job' = job /\ todo' = todo
        /\ gen' = gen /\ damages' = damages /\ crashes' = crashes
    BY <1>1 DEF vars
  <2>2. TypeOK'
    BY <2>1, SameTypes DEF IInv, TypeOK
  <2>3. Stopped' /\ Building' /\ Writing'
    BY <2>1 DEF IInv, Stopped, Building, Writing, Whole, NoRoot, NoRootDir, AllNew, Pending
  <2> QED
    BY <2>1, <2>2, <2>3 DEF IInv
<1> QED
  BY <1>1, DamageMasterKeeps, DamageFormatKeeps, DamageCopyKeeps, DamageStatusKeeps,
     DamageMapKeeps, WriteKeeps, CrashKeeps, MkfsKeeps, MkfsFillKeeps, MkfsFailsKeeps,
     MkfsEndsKeeps, FsckOpenKeeps, FsckReplayKeeps, RepairCheckKeeps, FsckFiniKeeps,
     FsckEndsKeeps, Zenon DEF Next

(* A device that opens has a root, a root directory and, in the first place *)
(* of all, a copy of its own super blocks: what the ids of the last mkfs    *)
(* are not in then was never copied.                                        *)
LEMMA OpensFollows == IInv => OpensWhole
<1> SUFFICES ASSUME IInv, job.sb = "mkfs", pc = "idle", FsOpens(dev)
             PROVE  {dev.tree.gen, dev.alloc.gen, dev.format.mkid, dev.master.uuid} = {gen}
  BY DEF OpensWhole
<1>1. /\ dev \in Devices /\ dev.format \in Formats /\ dev.master \in Masters \cup {None}
      /\ dev.tree \in Trees /\ dev.copy \in [Places -> Backups \cup {None}]
  BY DEF IInv, TypeOK, Devices
<1>2. /\ dev.master.magic /\ dev.format.len <= DevLen /\ dev.format.root # InvalBlk
      /\ dev.format.root = dev.tree.gen /\ dev.tree.rootdir
      /\ \A p \in BackupLayout(dev.format.len) :
           dev.copy[p] = reiser4_fs_backup(dev.master, dev.format, dev.tree.pset)
  BY DEF FsOpens, reiser4_master_open, format40_valid, reiser4_pset_tree, reiser4_backup_valid
<1>3. Whole(dev)
  BY <1>2 DEF IInv, Stopped
<1>4. dev.tree.gen < 100 /\ dev.tree.pset \in Int /\ dev.format.len \in Int
  BY <1>1, InstanceAssumption DEF Trees, Formats
<1>5. /\ dev.tree.gen = gen /\ dev.alloc.gen = gen /\ dev.format.len >= MinLen
      /\ \/ dev.format.mkid = gen
         \/ \A p \in Places : dev.copy[p].magic => dev.copy[p].mkid # dev.format.mkid
      /\ \/ dev.master.uuid = gen
         \/ \A p \in Places : dev.copy[p].magic => dev.copy[p].uuid # dev.master.uuid
  BY <1>1, <1>2, <1>3, <1>4 DEF Whole, Trees
<1>6. BackupStart \in Places /\ BackupStart \in BackupLayout(dev.format.len)
  <2>1. dev.format.len \in MinLen..DevLen
    BY <1>2, <1>4, <1>5, ParameterAssumption
  <2> QED
    BY <2>1, PlacesFinite
<1>7. dev.master \in Masters
  BY <1>1, <1>2, Present
<1> DEFINE b == dev.copy[BackupStart]
<1>8. b \in Backups /\ b.uuid = dev.master.uuid /\ b.mkid = dev.format.mkid
  <2>1. b = reiser4_fs_backup(dev.master, dev.format, dev.tree.pset)
    BY <1>2, <1>6
  <2> QED
    BY <1>1, <1>4, <1>7, <2>1, BackupMade
<1>9. b.magic
  BY <1>8 DEF Backups
<1>10. dev.format.mkid = gen /\ dev.master.uuid = gen
  BY <1>5, <1>6, <1>8, <1>9
<1> QED
  BY <1>5, <1>10

(* Whenever an mkfs was cut off or failed, and whatever was damaged since,  *)
(* reiser4_fs_open() accepts the device only with the tree, the map and the *)
(* ids of that mkfs, on devices of every size.                              *)
THEOREM CutOffMkfsOpensWhole == Spec => []OpensWhole
<1>1. Init => IInv
  BY InitHolds
<1>2. IInv /\ [Next]_vars => IInv'
  BY NextKeeps
<1>3. IInv => OpensWhole
  BY OpensFollows
<1> QED
  BY <1>1, <1>2, <1>3, PTL DEF Spec
=============================================================================
