---------------------------- MODULE ObjectsProofs ----------------------------
(***************************************************************************)
(* What the programs leave of a regular file, for blocks, files and tail   *)
(* policies of every size: its units, its whole blocks and its form.       *)
(***************************************************************************)
EXTENDS Objects, Basics

-----------------------------------------------------------------------------
(* Objects, and what an operation on directories leaves alone *)

\* An object has these fields and no others.
IsObject(r) ==
  r = [kind |-> r.kind, nlink |-> r.nlink, size |-> r.size, ents |-> r.ents,
       body |-> r.body, form |-> r.form, broke |-> r.broke]

Store(os) == os = [o \in Oids |-> os[o]] /\ \A o \in Oids : IsObject(os[o])

\* No file has changed but for its links.
SameFiles(os, new) ==
  /\ Store(new)
  /\ \A o \in Oids :
       /\ new[o].kind = os[o].kind
       /\ os[o].kind = "reg" => /\ new[o].size = os[o].size /\ new[o].body = os[o].body
                                /\ new[o].form = os[o].form /\ new[o].broke = os[o].broke

\* Entries are only put into directories.
MayHold(os, d) == d \in Oids => os[d].kind = "dir"

AllSame(os, results) == \A r \in results : SameFiles(os, r.os)

(* Two changes that leave files alone do so together.                       *)
LEMMA SameTwice ==
  ASSUME NEW a, NEW b, NEW c, SameFiles(a, b), SameFiles(b, c)
  PROVE  SameFiles(a, c)
  BY DEF SameFiles

(* A directory stays one.                                                   *)
LEMMA HoldsStill ==
  ASSUME NEW a, NEW b, SameFiles(a, b), NEW d, MayHold(a, d)
  PROVE  MayHold(b, d)
  BY DEF SameFiles, MayHold

(* Nothing changed.                                                         *)
LEMMA SameIfStore ==
  ASSUME NEW os, Store(os)
  PROVE  SameFiles(os, os)
  BY DEF SameFiles

(* obj40_inc_link() changes the links.                                      *)
LEMMA LinkSame ==
  ASSUME NEW os, Store(os), NEW o, NEW value
  PROVE  SameFiles(os, obj40_inc_link(os, o, value))
<1> DEFINE n == os[o].nlink + value
           r == [os[o] EXCEPT !.nlink = n]
           new == [os EXCEPT ![o] = r]
<1>1. obj40_inc_link(os, o, value) = new
  BY DEF obj40_inc_link
<1> HIDE DEF n
<1>2. o \in Oids => /\ IsObject(r) /\ r.kind = os[o].kind /\ r.size = os[o].size
                    /\ r.body = os[o].body /\ r.form = os[o].form /\ r.broke = os[o].broke
  BY DEF Store, IsObject
<1> HIDE DEF r
<1>3. new = [x \in Oids |-> new[x]] /\ \A x \in Oids : new[x] = IF x = o THEN r ELSE os[x]
  BY DEF Store
<1> HIDE DEF new
<1> QED
  BY <1>1, <1>2, <1>3 DEF SameFiles, Store

(* A directory gets other entries and another size.                         *)
LEMMA EntriesSame ==
  ASSUME NEW os, Store(os), NEW d, MayHold(os, d), NEW ents, NEW size
  PROVE  SameFiles(os, obj40_touch([os EXCEPT ![d].ents = ents], d, size))
<1> DEFINE e == [os[d] EXCEPT !.ents = ents]
           mid == [os EXCEPT ![d] = e]
           n == mid[d].size + size
           r == [mid[d] EXCEPT !.size = n]
           new == [mid EXCEPT ![d] = r]
<1>1. obj40_touch([os EXCEPT ![d].ents = ents], d, size) = new
  BY DEF obj40_touch
<1>2. d \in Oids => IsObject(e) /\ e.kind = os[d].kind
  BY DEF Store, IsObject
<1> HIDE DEF e
<1>3. mid = [x \in Oids |-> mid[x]] /\ \A x \in Oids : mid[x] = IF x = d THEN e ELSE os[x]
  BY DEF Store
<1> HIDE DEF n, mid
<1>4. d \in Oids => IsObject(r) /\ r.kind = os[d].kind
  BY <1>2, <1>3 DEF IsObject
<1> HIDE DEF r
<1>5. new = [x \in Oids |-> new[x]] /\ \A x \in Oids : new[x] = IF x = d THEN r ELSE os[x]
  BY <1>3
<1> HIDE DEF new
<1> QED
  BY <1>1, <1>4, <1>5 DEF SameFiles, Store, MayHold

(* dir40_add_entry() *)
LEMMA AddSame ==
  ASSUME NEW os, Store(os), NEW d, MayHold(os, d), NEW name, NEW o
  PROVE  AllSame(os, dir40_add_entry(os, d, name, o))
<1> SUFFICES ASSUME NEW r \in Search(os[d].ents, name)
             PROVE  SameFiles(os, (IF r.found THEN Result(FALSE, os)
                       ELSE Result(TRUE, obj40_touch([os EXCEPT ![d].ents = InsertAt(@, r.pos, Entry(name, o))], d, 1))).os)
  BY Zenon DEF AllSame, dir40_add_entry
<1> DEFINE ents == InsertAt(os[d].ents, r.pos, Entry(name, o))
<1>1. SameFiles(os, obj40_touch([os EXCEPT ![d].ents = ents], d, 1))
  BY EntriesSame
<1> HIDE DEF ents
<1>2. SameFiles(os, os)
  BY SameIfStore
<1> QED
  BY <1>1, <1>2 DEF Result, ents

(* dir40_rem_entry() *)
LEMMA RemoveSame ==
  ASSUME NEW os, Store(os), NEW d, MayHold(os, d), NEW name
  PROVE  AllSame(os, dir40_rem_entry(os, d, name))
<1> SUFFICES ASSUME NEW r \in Search(os[d].ents, name)
             PROVE  SameFiles(os, (IF r.found
                       THEN Result(TRUE, obj40_touch([os EXCEPT ![d].ents = RemoveAt(@, r.pos)], d, 0 - 1))
                       ELSE Result(FALSE, os)).os)
  BY Zenon DEF AllSame, dir40_rem_entry
<1> DEFINE ents == RemoveAt(os[d].ents, r.pos)
<1>1. SameFiles(os, obj40_touch([os EXCEPT ![d].ents = ents], d, 0 - 1))
  BY EntriesSame
<1> HIDE DEF ents
<1>2. SameFiles(os, os)
  BY SameIfStore
<1> QED
  BY <1>1, <1>2 DEF Result, ents

(* reiser4_object_attach() *)
LEMMA AttachSame ==
  ASSUME NEW os, Store(os), NEW c, NEW p, NEW fault, MayHold(os, p)
  PROVE  AllSame(os, reiser4_object_attach(os, c, p, fault))
<1>1. AllSame(os, Failed(os)) /\ AllSame(os, Done(os))
  BY SameIfStore DEF AllSame, Failed, Done, Result
<1>2. CASE IsDir(os, c)
  <2>1. AllSame(os, dir40_add_entry(os, c, "..", p))
    BY <1>2, AddSame DEF MayHold, IsDir
  <2>2. ASSUME NEW r \in dir40_add_entry(os, c, "..", p)
        PROVE  AllSame(os, IF r.ok THEN Done(obj40_inc_link(r.os, p, 1)) ELSE Failed(r.os))
    <3>1. SameFiles(os, r.os)
      BY <2>1, <2>2 DEF AllSame
    <3>2. SameFiles(os, obj40_inc_link(r.os, p, 1))
      BY <3>1, LinkSame, SameTwice DEF SameFiles
    <3> QED
      BY <3>1, <3>2 DEF AllSame, Failed, Done, Result
  <2>3. AllSame(os, Then(dir40_add_entry(os, c, "..", p),
                         LAMBDA new : Done(obj40_inc_link(new, p, 1)), Failed))
    BY <2>2, Zenon DEF Then, AllSame
  <2>4. AllSame(os, dir40_attach(os, c, p, fault))
    BY <1>1, <2>3, Zenon DEF dir40_attach
  <2> QED
    BY <1>2, <2>4 DEF reiser4_object_attach
<1>3. CASE ~IsDir(os, c)
  BY <1>1, <1>3 DEF reiser4_object_attach
<1> QED
  BY <1>2, <1>3

(* reiser4_object_detach() *)
LEMMA DetachSame ==
  ASSUME NEW os, Store(os), NEW c, NEW p, NEW fault
  PROVE  AllSame(os, reiser4_object_detach(os, c, p, fault))
<1>1. AllSame(os, Failed(os)) /\ AllSame(os, Done(os))
  BY SameIfStore DEF AllSame, Failed, Done, Result
<1>2. CASE IsDir(os, c)
  <2>1. AllSame(os, dir40_rem_entry(os, c, ".."))
    BY <1>2, RemoveSame DEF MayHold, IsDir
  <2>2. ASSUME NEW r \in dir40_rem_entry(os, c, "..")
        PROVE  SameFiles(os, Result(TRUE, obj40_inc_link(r.os, p, 0 - 1)).os)
    <3>1. SameFiles(os, r.os)
      BY <2>1, <2>2 DEF AllSame
    <3>2. SameFiles(os, obj40_inc_link(r.os, p, 0 - 1))
      BY <3>1, LinkSame, SameTwice DEF SameFiles
    <3> QED
      BY <3>2 DEF Result
  <2>3. AllSame(os, dir40_detach(os, c, p, fault))
    BY <1>1, <2>2, Zenon DEF dir40_detach, AllSame
  <2> QED
    BY <1>2, <2>3 DEF reiser4_object_detach
<1>3. CASE ~IsDir(os, c)
  BY <1>1, <1>3 DEF reiser4_object_detach
<1> QED
  BY <1>2, <1>3

(* What was undone after a failure.                                         *)
LEMMA FailedSame ==
  ASSUME NEW os, NEW mid, SameFiles(os, mid), NEW results, AllSame(mid, results)
  PROVE  AllSame(os, FailedAfter(results)) /\ AllSame(os, results)
<1>1. \A r \in results : SameFiles(os, r.os)
  BY SameTwice DEF AllSame
<1> QED
  BY <1>1 DEF AllSame, FailedAfter, Result

(* reiser4_object_link(), with every way it can fail and undo.              *)
LEMMA ObjectLinkSame ==
  ASSUME NEW os, Store(os), NEW p, MayHold(os, p), NEW c, NEW name, NEW fault
  PROVE  AllSame(os, reiser4_object_link(os, p, c, name, fault))
<1> DEFINE Undo(old) == FailedAfter(dir40_rem_entry(obj40_inc_link(old, c, 0 - 1), p, name))
           Attached(new) ==
            Then(reiser4_object_attach(obj40_inc_link(new, c, 1), c, p, fault), Done, Undo)
           Linked(new) ==
            IF fault = "link" THEN FailedAfter(dir40_rem_entry(new, p, name)) ELSE Attached(new)
<1>1. reiser4_object_link(os, p, c, name, fault) =
        IF fault = "entry" THEN Failed(os)
        ELSE Then(dir40_add_entry(os, p, name, c), Linked, Failed)
  BY Zenon DEF reiser4_object_link
<1>2. \A new : SameFiles(os, new) => MayHold(new, p) /\ Store(new)
  BY HoldsStill DEF SameFiles
<1>3. ASSUME NEW old, SameFiles(os, old) PROVE AllSame(os, Undo(old))
  <2> DEFINE less == obj40_inc_link(old, c, 0 - 1)
  <2>1. SameFiles(os, less)
    BY <1>2, <1>3, LinkSame, SameTwice
  <2> HIDE DEF less
  <2>2. AllSame(less, dir40_rem_entry(less, p, name))
    BY <1>2, <2>1, RemoveSame
  <2>3. AllSame(os, FailedAfter(dir40_rem_entry(less, p, name)))
    BY <2>1, <2>2, FailedSame
  <2> QED
    BY <2>3 DEF less
<1> HIDE DEF Undo
<1>4. ASSUME NEW new, SameFiles(os, new) PROVE AllSame(os, Attached(new))
  <2> DEFINE more == obj40_inc_link(new, c, 1)
             R == reiser4_object_attach(more, c, p, fault)
  <2>1. SameFiles(os, more)
    BY <1>2, <1>4, LinkSame, SameTwice
  <2> HIDE DEF more
  <2>2. AllSame(os, R)
    BY <1>2, <2>1, AttachSame, FailedSame
  <2>3. ASSUME NEW r \in R PROVE AllSame(os, IF r.ok THEN Done(r.os) ELSE Undo(r.os))
    <3>1. SameFiles(os, r.os)
      BY <2>2, <2>3 DEF AllSame
    <3>2. AllSame(os, Done(r.os))
      BY <3>1 DEF AllSame, Done, Result
    <3> QED
      BY <1>3, <3>1, <3>2
  <2> HIDE DEF R
  <2>4. AllSame(os, Then(R, Done, Undo))
    BY <2>3, Zenon DEF Then, AllSame
  <2> QED
    BY <2>4 DEF R, more
<1> HIDE DEF Attached
<1>5. ASSUME NEW new, SameFiles(os, new) PROVE AllSame(os, Linked(new))
  <2>1. AllSame(new, dir40_rem_entry(new, p, name))
    BY <1>2, <1>5, RemoveSame
  <2>2. AllSame(os, FailedAfter(dir40_rem_entry(new, p, name)))
    BY <1>5, <2>1, FailedSame
  <2> QED
    BY <1>4, <1>5, <2>2
<1> HIDE DEF Linked
<1>6. AllSame(os, Failed(os))
  BY SameIfStore DEF AllSame, Failed, Result
<1> DEFINE A == dir40_add_entry(os, p, name, c)
<1>7. ASSUME NEW r \in A PROVE AllSame(os, IF r.ok THEN Linked(r.os) ELSE Failed(r.os))
  <2>1. SameFiles(os, r.os)
    BY <1>7, AddSame DEF AllSame
  <2>2. AllSame(os, Failed(r.os))
    BY <2>1 DEF AllSame, Failed, Result
  <2> QED
    BY <1>5, <2>1, <2>2
<1> HIDE DEF A
<1>8. AllSame(os, Then(A, Linked, Failed))
  BY <1>7, Zenon DEF Then, AllSame
<1> QED
  BY <1>1, <1>6, <1>8, Zenon DEF A

(* reiser4_object_unlink(), with every way it can fail and undo.            *)
LEMMA ObjectUnlinkSame ==
  ASSUME NEW os, Store(os), NEW p, MayHold(os, p), NEW name, NEW fault
  PROVE  AllSame(os, reiser4_object_unlink(os, p, name, fault))
<1> DEFINE Removed(c, new) ==
            IF fault = "rem"
            THEN FailedAfter(reiser4_object_attach(obj40_inc_link(new, c, 1), c, p, fault))
            ELSE dir40_rem_entry(new, p, name)
           Unlinked(c, new) ==
            IF fault = "unlink"
            THEN FailedAfter(reiser4_object_attach(new, c, p, fault))
            ELSE Removed(c, obj40_inc_link(new, c, 0 - 1))
           Victim(c) ==
            IF Exists(os, c)
            THEN Then(reiser4_object_detach(os, c, p, fault),
                      LAMBDA new : Unlinked(c, new), Failed)
            ELSE Failed(os)
<1>1. reiser4_object_unlink(os, p, name, fault) =
        UNION {IF r.found /\ os[p].ents[r.pos].name \notin {".", ".."}
               THEN Victim(os[p].ents[r.pos].obj) ELSE Failed(os) :
                 r \in Search(os[p].ents, name)}
  BY Zenon DEF reiser4_object_unlink
<1>2. \A new : SameFiles(os, new) => MayHold(new, p) /\ Store(new)
  BY HoldsStill DEF SameFiles
<1>3. ASSUME NEW c, NEW new, SameFiles(os, new)
      PROVE  AllSame(os, FailedAfter(reiser4_object_attach(new, c, p, fault)))
  <2>1. AllSame(new, reiser4_object_attach(new, c, p, fault))
    BY <1>2, <1>3, AttachSame
  <2> QED
    BY <1>3, <2>1, FailedSame
<1>4. ASSUME NEW c, NEW new, SameFiles(os, new) PROVE AllSame(os, Removed(c, new))
  <2>1. SameFiles(os, obj40_inc_link(new, c, 1))
    BY <1>2, <1>4, LinkSame, SameTwice
  <2>2. AllSame(os, dir40_rem_entry(new, p, name))
    BY <1>2, <1>4, RemoveSame, FailedSame
  <2> QED
    BY <1>3, <2>1, <2>2
<1> HIDE DEF Removed
<1>5. ASSUME NEW c, NEW new, SameFiles(os, new) PROVE AllSame(os, Unlinked(c, new))
  <2>1. SameFiles(os, obj40_inc_link(new, c, 0 - 1))
    BY <1>2, <1>5, LinkSame, SameTwice
  <2> QED
    BY <1>3, <1>4, <1>5, <2>1
<1> HIDE DEF Unlinked
<1>6. AllSame(os, Failed(os))
  BY SameIfStore DEF AllSame, Failed, Result
<1>7. ASSUME NEW c PROVE AllSame(os, Victim(c))
  <2> DEFINE R == reiser4_object_detach(os, c, p, fault)
  <2>1. ASSUME NEW r \in R PROVE AllSame(os, IF r.ok THEN Unlinked(c, r.os) ELSE Failed(r.os))
    <3>1. SameFiles(os, r.os)
      BY <2>1, DetachSame DEF AllSame
    <3>2. AllSame(os, Failed(r.os))
      BY <3>1 DEF AllSame, Failed, Result
    <3> QED
      BY <1>5, <3>1, <3>2
  <2> HIDE DEF R
  <2>2. AllSame(os, Then(R, LAMBDA new : Unlinked(c, new), Failed))
    BY <2>1, Zenon DEF Then, AllSame
  <2> QED
    BY <1>6, <2>2, Zenon DEF R
<1> HIDE DEF Victim
<1> QED
  BY <1>1, <1>6, <1>7, Zenon DEF AllSame

-----------------------------------------------------------------------------
(* The body of a regular file *)

\* What FileExact says of one object
Exact(reg) ==
  reg.kind = "reg" =>
    /\ reg.size \in 0..MaxSize
    /\ reg.broke # "lost" => 0..(reg.size - 1) \subseteq reg.body
    /\ reg.broke = "no" => reg.body \subseteq 0..(UpToBlock(reg.size) - 1)
    /\ reg.broke = "no" /\ reg.size > 0 => reg.form = reg40_policy_plug(reg.size)

IsFile(reg) == IsObject(reg) /\ reg.kind = "reg" /\ Exact(reg)

(* The size of an object changes, and nothing else of it.                  *)
LEMMA SizeSet ==
  ASSUME NEW r, IsObject(r), NEW v, NEW new, new = [r EXCEPT !.size = v]
  PROVE  /\ IsObject(new)
         /\ new.kind = r.kind /\ new.size = v /\ new.body = r.body /\ new.form = r.form /\ new.broke = r.broke
  BY DEF IsObject

(* The body of an object changes, and nothing else of it.                  *)
LEMMA BodySet ==
  ASSUME NEW r, IsObject(r), NEW v, NEW new, new = [r EXCEPT !.body = v]
  PROVE  /\ IsObject(new)
         /\ new.kind = r.kind /\ new.size = r.size /\ new.body = v /\ new.form = r.form /\ new.broke = r.broke
  BY DEF IsObject

(* The form of an object changes, and nothing else of it.                  *)
LEMMA FormSet ==
  ASSUME NEW r, IsObject(r), NEW v, NEW new, new = [r EXCEPT !.form = v]
  PROVE  /\ IsObject(new)
         /\ new.kind = r.kind /\ new.size = r.size /\ new.body = r.body /\ new.form = v /\ new.broke = r.broke
  BY DEF IsObject

(* The broke of an object changes, and nothing else of it.                 *)
LEMMA BrokeSet ==
  ASSUME NEW r, IsObject(r), NEW v, NEW new, new = [r EXCEPT !.broke = v]
  PROVE  /\ IsObject(new)
         /\ new.kind = r.kind /\ new.size = r.size /\ new.body = r.body /\ new.form = r.form /\ new.broke = v
  BY DEF IsObject

(* An interval that begins at zero.                                         *)
LEMMA FirstNumbers ==
  ASSUME NEW k \in Nat
  PROVE  IsFiniteSet(0..(k - 1)) /\ Cardinality(0..(k - 1)) = k
<1>1. 0 \in Int /\ k - 1 \in Int
  OBVIOUS
<1>2. IsFiniteSet(0..(k - 1)) /\ Cardinality(0..(k - 1)) = IF 0 > k - 1 THEN 0 ELSE (k - 1) - 0 + 1
  BY <1>1, FS_Interval
<1> QED
  BY <1>2

(* Rounding up to whole blocks.                                             *)
LEMMA Rounding ==
  /\ \A n \in Nat : UpToBlock(n) \in Nat /\ n =< UpToBlock(n)
  /\ \A m \in Nat, n \in Nat : m =< UpToBlock(n) => UpToBlock(m) =< UpToBlock(n)
  /\ UpToBlock(0) = 0
<1>0. BlockSize \in Nat \ {0}
  BY ObjectsAssumption
<1> DEFINE q(n) == (n + BlockSize - 1) \div BlockSize
<1>1. \A n \in Nat : /\ q(n) \in Nat /\ q(n) * BlockSize =< n + BlockSize - 1
                     /\ n + BlockSize - 1 < q(n) * BlockSize + BlockSize
                     /\ UpToBlock(n) = q(n) * BlockSize
  <2> SUFFICES ASSUME NEW n \in Nat
               PROVE  /\ q(n) \in Nat /\ q(n) * BlockSize =< n + BlockSize - 1
                      /\ n + BlockSize - 1 < q(n) * BlockSize + BlockSize
                      /\ UpToBlock(n) = q(n) * BlockSize
    OBVIOUS
  <2>1. n + BlockSize - 1 \in Nat
    BY <1>0
  <2> QED
    BY <1>0, <2>1, DivBounds DEF UpToBlock
<1> HIDE DEF q
<1>2. \A n \in Nat : q(n) * BlockSize \in Nat
  BY <1>0, <1>1
<1>3. \A n \in Nat : UpToBlock(n) \in Nat /\ n =< UpToBlock(n)
  BY <1>0, <1>1, <1>2
<1>4. ASSUME NEW m \in Nat, NEW n \in Nat, m =< UpToBlock(n) PROVE UpToBlock(m) =< UpToBlock(n)
  <2>1. q(m) >= q(n) + 1 => q(m) * BlockSize >= (q(n) + 1) * BlockSize
    BY <1>0, <1>1
  <2>2. (q(n) + 1) * BlockSize = q(n) * BlockSize + BlockSize
    BY <1>0, <1>1
  <2>3. q(m) =< q(n)
    BY <1>0, <1>1, <1>2, <1>4, <2>1, <2>2
  <2>4. q(m) * BlockSize =< q(n) * BlockSize
    BY <1>0, <1>1, <2>3
  <2> QED
    BY <1>1, <2>4
<1>5. UpToBlock(0) = 0
  <2>1. q(0) >= 1 => q(0) * BlockSize >= BlockSize
    BY <1>0, <1>1
  <2>2. q(0) * BlockSize =< BlockSize - 1 /\ q(0) \in Nat
    BY <1>0, <1>1
  <2>3. q(0) = 0
    BY <1>0, <1>2, <2>1, <2>2
  <2> QED
    BY <1>0, <1>1, <2>3
<1> QED
  BY <1>3, <1>4, <1>5

(* What a write from a up to b brings into the tree.                        *)
LEMMA WrittenUnits ==
  ASSUME NEW plug, NEW a \in Nat, NEW b \in Nat
  PROVE  /\ a..(b - 1) \subseteq reiser4_flow_write(plug, a, b)
         /\ reiser4_flow_write(plug, a, b) \subseteq 0..(UpToBlock(b) - 1)
<1>0. BlockSize \in Nat \ {0}
  BY ObjectsAssumption
<1> DEFINE x == (a \div BlockSize) * BlockSize
<1>1. x \in Nat /\ x =< a
  BY <1>0, DivBounds
<1>2. UpToBlock(b) \in Nat /\ b =< UpToBlock(b)
  BY Rounding
<1> HIDE DEF x
<1>3. a..(b - 1) \subseteq x..(UpToBlock(b) - 1)
  BY <1>1, <1>2
<1>4. a..(b - 1) \subseteq 0..(UpToBlock(b) - 1) /\ x..(UpToBlock(b) - 1) \subseteq 0..(UpToBlock(b) - 1)
  BY <1>1, <1>2
<1> QED
  BY <1>3, <1>4 DEF reiser4_flow_write, extent40_write_units, x

(* reiser4_flow_convert(): every unit that was there is read and written.   *)
LEMMA ConvertOk ==
  ASSUME NEW reg, IsObject(reg), reg.kind = "reg", NEW plug,
         reg.size \in 0..MaxSize, plug = reg40_policy_plug(reg.size),
         reg.broke # "lost" => 0..(reg.size - 1) \subseteq reg.body,
         reg.broke = "no" => reg.body \subseteq 0..(UpToBlock(reg.size) - 1)
  PROVE  IsFile(reiser4_flow_convert(reg, plug))
<1> DEFINE read == reg.body \cap 0..(UpToBlock(reg.size) - 1)
           n == Cardinality(read)
           W == reiser4_flow_write(plug, 0, n)
           body == (reg.body \ read) \cup W
           new == [[reg EXCEPT !.body = body] EXCEPT !.form = plug]
<1>0. reg.size \in Nat /\ UpToBlock(reg.size) \in Nat /\ reg.size =< UpToBlock(reg.size)
  BY ObjectsAssumption, Rounding
<1>1. reiser4_flow_convert(reg, plug) = new
  BY DEF reiser4_flow_convert, reiser4_flow_read, IsObject
<1>2. IsFiniteSet(0..(UpToBlock(reg.size) - 1)) /\ Cardinality(0..(UpToBlock(reg.size) - 1)) = UpToBlock(reg.size)
  BY <1>0, FirstNumbers
<1>3. IsFiniteSet(read) /\ n \in Nat /\ n =< UpToBlock(reg.size)
  <2> DEFINE I == 0..(UpToBlock(reg.size) - 1)
  <2>1. read \subseteq I
    OBVIOUS
  <2>2. IsFiniteSet(I) /\ Cardinality(I) = UpToBlock(reg.size)
    BY <1>2
  <2> HIDE DEF read, I
  <2>3. IsFiniteSet(read) /\ Cardinality(read) =< Cardinality(I)
    BY <2>1, <2>2, FS_Subset
  <2>4. Cardinality(read) \in Nat
    BY <2>3, FS_CardinalityType
  <2> QED
    BY <2>2, <2>3, <2>4
<1>4. reg.broke # "lost" => reg.size =< n
  <2> SUFFICES ASSUME reg.broke # "lost" PROVE reg.size =< n
    OBVIOUS
  <2>1. 0..(reg.size - 1) \subseteq read
    BY <1>0
  <2>2. Cardinality(0..(reg.size - 1)) = reg.size
    BY <1>0, FirstNumbers
  <2> HIDE DEF read
  <2> QED
    BY <1>3, <2>1, <2>2, FS_Subset
<1> HIDE DEF n
<1>5. 0..(n - 1) \subseteq W /\ W \subseteq 0..(UpToBlock(n) - 1)
  BY <1>3, WrittenUnits
<1>6. UpToBlock(n) =< UpToBlock(reg.size) /\ UpToBlock(n) \in Nat
  BY <1>0, <1>3, Rounding
<1> HIDE DEF W
<1>7. reg.broke # "lost" => 0..(reg.size - 1) \subseteq body
  BY <1>0, <1>3, <1>4, <1>5
<1>8. reg.broke = "no" => body \subseteq 0..(UpToBlock(reg.size) - 1)
  <2>1. 0..(UpToBlock(n) - 1) \subseteq 0..(UpToBlock(reg.size) - 1)
    BY <1>0, <1>6
  <2> HIDE DEF read
  <2> QED
    BY <1>5, <2>1 DEF read
<1> HIDE DEF body
<1> DEFINE mid == [reg EXCEPT !.body = body]
<1>9. IsObject(mid) /\ mid.kind = "reg" /\ mid.size = reg.size /\ mid.broke = reg.broke /\ mid.body = body
  BY BodySet
<1>10. new = [mid EXCEPT !.form = plug]
  OBVIOUS
<1> HIDE DEF mid, new
<1>11. /\ IsObject(new) /\ new.kind = "reg" /\ new.size = reg.size /\ new.broke = reg.broke
       /\ new.body = body /\ new.form = plug
  BY <1>9, <1>10, FormSet
<1> QED
  BY <1>1, <1>7, <1>8, <1>11 DEF IsFile, Exact

(* reg40_check_body(): the form follows the size, or the conversion failed. *)
LEMMA CheckBodyOk ==
  ASSUME NEW reg, IsObject(reg), reg.kind = "reg", NEW plug, NEW fault,
         reg.size \in 0..MaxSize,
         reg.broke # "lost" => 0..(reg.size - 1) \subseteq reg.body,
         reg.broke = "no" => reg.body \subseteq 0..(UpToBlock(reg.size) - 1),
         reg.broke = "no" /\ reg.size > 0 => reg.form = plug,
         NEW x \in reg40_check_body(reg, plug, reg.size, fault)
  PROVE  IsFile(x)
<1> DEFINE new == reg40_policy_plug(reg.size)
<1>1. CASE reg.size = 0 \/ new = plug
  <2>1. x = reg
    BY <1>1 DEF reg40_check_body
  <2>2. reg.size \in Int
    OBVIOUS
  <2> QED
    BY <1>1, <2>1, <2>2 DEF IsFile, Exact
<1>2. CASE ~(reg.size = 0 \/ new = plug) /\ fault = "convert"
  <2>1. PICK b \in 0..((reg.size - 1) \div BlockSize) : x = FlowConvertFails(reg, new, b)
    BY <1>2, Zenon DEF reg40_check_body
  <2> DEFINE body == reg.body \ (b * BlockSize)..(b * BlockSize + BlockSize - 1)
             form == IF b = 0 THEN reg.form ELSE new
             lost == "lost"
             y == [reg EXCEPT !.body = body, !.form = form, !.broke = lost]
  <2>2. x = y
    BY <2>1 DEF FlowConvertFails, IsObject
  <2> HIDE DEF body, form
  <2> DEFINE y1 == [reg EXCEPT !.body = body]
             y2 == [y1 EXCEPT !.form = form]
  <2>4. y = [y2 EXCEPT !.broke = lost]
    OBVIOUS
  <2>5. IsObject(y1) /\ y1.kind = "reg" /\ y1.size = reg.size
    BY BodySet
  <2> HIDE DEF y1, y, lost
  <2>6. IsObject(y2) /\ y2.kind = "reg" /\ y2.size = reg.size
    BY <2>5, FormSet
  <2> HIDE DEF y2
  <2>7. IsObject(y) /\ y.kind = "reg" /\ y.size = reg.size /\ y.broke = lost
    BY <2>4, <2>6, BrokeSet
  <2>3. IsObject(y) /\ y.kind = "reg" /\ y.size = reg.size /\ y.broke = "lost"
    BY <2>7 DEF lost
  <2> QED
    BY <2>2, <2>3 DEF IsFile, Exact
<1>3. CASE ~(reg.size = 0 \/ new = plug) /\ fault # "convert"
  <2>1. x = reiser4_flow_convert(reg, new)
    BY <1>3 DEF reg40_check_body
  <2> QED
    BY <2>1, ConvertOk
<1> QED
  BY <1>1, <1>2, <1>3

(* The smaller of two numbers.                                              *)
LEMMA MinOfTwo ==
  ASSUME NEW a \in Nat, NEW b \in Nat
  PROVE  Min({a, b}) = IF a =< b THEN a ELSE b
<1>1. Min({a, b}) \in {a, b} /\ \A y \in {a, b} : Min({a, b}) =< y
  BY MinExists
<1> QED
  BY <1>1

(* reg40_write(): the hole and the data, written whole, in part or not.     *)
LEMMA WriteOk ==
  ASSUME NEW reg, IsFile(reg), NEW off \in 0..(MaxSize - 1), NEW n \in 1..MaxSize,
         off + n <= MaxSize, NEW done \in 0..(off + n - Min({off, reg.size})), NEW fault,
         fault \in {"write", "short"} \equiv done < off + n - Min({off, reg.size}),
         NEW x \in reg40_write(reg, off, n, done, fault)
  PROVE  IsFile(x)
<1> DEFINE plug == reg40_open(reg)
           from == Min({off, reg.size})
           hole == off - from
           to   == from + done
           W    == reiser4_flow_write(plug, from, to)
           body == reg.body \cup W
           broke == IF done < hole + n THEN Worse(reg, "write") ELSE reg.broke
           size == IF to > reg.size THEN to ELSE reg.size
           p1 == [reg EXCEPT !.body = body]
           p2 == [p1 EXCEPT !.form = plug]
           put == [p2 EXCEPT !.broke = broke]
           saved == [put EXCEPT !.size = size]
<1>0. /\ MaxSize \in Nat /\ off \in Nat /\ n \in Nat /\ reg.size \in Nat /\ IsObject(reg)
      /\ reg.kind = "reg" /\ reg.size \in 0..MaxSize
  BY ObjectsAssumption DEF IsFile, Exact
<1>1. from \in Nat /\ from =< off /\ from =< reg.size
  BY <1>0, MinOfTwo
<1> HIDE DEF from
<1>2. done \in Nat /\ to \in Nat /\ to =< MaxSize /\ to =< off + n /\ size \in 0..MaxSize
  BY <1>0, <1>1 DEF from
<1>3. from..(to - 1) \subseteq W /\ W \subseteq 0..(UpToBlock(to) - 1)
  BY <1>1, <1>2, WrittenUnits
<1>4. IsObject(p1) /\ p1.kind = "reg" /\ p1.size = reg.size /\ p1.body = body /\ p1.broke = reg.broke
  <2> HIDE DEF body
  <2> QED
    BY <1>0, BodySet
<1>5. /\ IsObject(p2) /\ p2.kind = "reg" /\ p2.size = reg.size /\ p2.body = body /\ p2.broke = reg.broke
      /\ p2.form = plug
  <2> HIDE DEF p1, plug, body
  <2> QED
    BY <1>4, FormSet
<1>6. /\ IsObject(put) /\ put.kind = "reg" /\ put.size = reg.size /\ put.body = body /\ put.broke = broke
      /\ put.form = plug
  <2> HIDE DEF p2, broke, plug, body
  <2> QED
    BY <1>5, BrokeSet
<1>7. /\ IsObject(saved) /\ saved.kind = "reg" /\ saved.size = size /\ saved.body = body
      /\ saved.broke = broke /\ saved.form = plug
  <2> HIDE DEF put, size, broke, plug, body
  <2> QED
    BY <1>6, SizeSet
<1>8. x \in IF fault = "write" THEN {put}
            ELSE IF done < hole THEN {saved}
            ELSE reg40_check_body(saved, plug, saved.size, fault)
  <2>1. put = [reg EXCEPT !.body = @ \cup W, !.form = plug,
                          !.broke = IF done < hole + n THEN Worse(reg, "write") ELSE @]
    <3>1. [[reg EXCEPT !.body = body] EXCEPT !.form = plug].broke = reg.broke
      BY <1>5
    <3> HIDE DEF body
    <3>2. [reg EXCEPT !.body = body, !.form = plug,
                      !.broke = IF done < hole + n THEN Worse(reg, "write") ELSE @] = put
      BY <3>1
    <3> QED
      BY <3>2 DEF body
  <2>2. saved = [put EXCEPT !.size = IF to > @ THEN to ELSE @]
    BY <1>6
  <2> HIDE DEF put, saved
  <2> QED
    BY <2>1, <2>2, Zenon DEF reg40_write, from
<1> HIDE DEF p1, p2, put, saved, plug
<1>9. broke # "lost" => 0..(size - 1) \subseteq body
  <2> SUFFICES ASSUME broke # "lost", NEW i \in 0..(size - 1) PROVE i \in body
    OBVIOUS
  <2>1. reg.broke # "lost"
    BY DEF Worse
  <2>2. 0..(reg.size - 1) \subseteq reg.body
    BY <1>0, <2>1 DEF IsFile, Exact
  <2>3. i \in 0..(reg.size - 1) \/ i \in from..(to - 1)
    BY <1>0, <1>1, <1>2
  <2> QED
    BY <1>3, <2>2, <2>3
<1>10. broke = "no" => reg.broke = "no"
  BY DEF Worse
<1>11. broke = "no" => body \subseteq 0..(UpToBlock(size) - 1)
  <2> SUFFICES ASSUME broke = "no" PROVE body \subseteq 0..(UpToBlock(size) - 1)
    OBVIOUS
  <2>1. reg.body \subseteq 0..(UpToBlock(reg.size) - 1)
    BY <1>0, <1>10 DEF IsFile, Exact
  <2>2. /\ UpToBlock(reg.size) =< UpToBlock(size) /\ UpToBlock(to) =< UpToBlock(size)
        /\ UpToBlock(reg.size) \in Nat /\ UpToBlock(to) \in Nat /\ UpToBlock(size) \in Nat
    <3>1. size \in Nat /\ reg.size =< size /\ to =< size
      BY <1>0, <1>2
    <3> HIDE DEF size
    <3>2. reg.size =< UpToBlock(size) /\ to =< UpToBlock(size)
      BY <1>0, <1>2, <3>1, Rounding
    <3> QED
      BY <1>0, <1>2, <3>1, <3>2, Rounding
  <2>3. 0..(UpToBlock(reg.size) - 1) \subseteq 0..(UpToBlock(size) - 1)
    BY <2>2
  <2>4. 0..(UpToBlock(to) - 1) \subseteq 0..(UpToBlock(size) - 1)
    BY <2>2
  <2> HIDE DEF W, size
  <2> QED
    BY <1>3, <2>1, <2>3, <2>4
<1>12. broke = "no" => done = hole + n
  <2> SUFFICES ASSUME done < hole + n PROVE broke # "no"
    BY <1>0, <1>1, <1>2 DEF from
  <2> QED
    BY DEF Worse
<1>13. CASE fault = "write"
  <2>1. x = put
    BY <1>8, <1>13
  <2>2. done < off + n - from
    BY <1>13 DEF from
  <2>3. broke # "no"
    BY <1>0, <1>1, <1>2, <1>12, <2>2
  <2>4. broke # "lost" => 0..(reg.size - 1) \subseteq body
    BY <1>0 DEF IsFile, Exact, Worse
  <2> HIDE DEF broke, body
  <2> QED
    BY <1>0, <1>6, <2>1, <2>3, <2>4 DEF IsFile, Exact
<1>14. CASE fault # "write" /\ done < hole
  <2>1. x = saved
    BY <1>8, <1>14
  <2>2. broke # "no"
    BY <1>0, <1>1, <1>2, <1>12, <1>14
  <2> HIDE DEF broke, body, size
  <2> QED
    BY <1>2, <1>7, <1>9, <2>1, <2>2 DEF IsFile, Exact
<1>15. CASE fault # "write" /\ ~(done < hole)
  <2>1. x \in reg40_check_body(saved, plug, saved.size, fault)
    BY <1>8, <1>15
  <2> HIDE DEF broke, body, size
  <2> QED
    BY <1>2, <1>7, <1>9, <1>11, <2>1, CheckBodyOk
<1> QED
  BY <1>13, <1>14, <1>15

\* No file is longer than one call can cut: 4 GiB.
OneCutSuffices == UpToBlock(MaxSize) =< CutMax

(* reiser4_flow_cut() of all behind n takes the units beyond the block n    *)
(* lies in, and none before n.                                              *)
LEMMA CutUnits ==
  ASSUME OneCutSuffices, NEW plug, NEW n \in 0..MaxSize, NEW size \in 0..MaxSize, n =< size
  PROVE  LET C == reiser4_flow_cut(plug, n, n + UpToBlock(MaxSize))
         IN  /\ \A i \in 0..(n - 1) : i \notin C
             /\ 0..(UpToBlock(size) - 1) \ C \subseteq 0..(UpToBlock(n) - 1)
<1> DEFINE top == UpToBlock(MaxSize)
           m == Min({n + top, n + CutMax})
<1>0. MaxSize \in Nat /\ n \in Nat /\ size \in Nat /\ CutMax \in Nat /\ size =< MaxSize
  BY ObjectsAssumption
<1>1. /\ top \in Nat /\ MaxSize =< top /\ UpToBlock(size) \in Nat /\ UpToBlock(n) \in Nat
      /\ n =< UpToBlock(n)
  BY <1>0, Rounding
<1>2. UpToBlock(size) =< top
  <2>1. size =< top
    BY <1>0, <1>1
  <2> QED
    BY <1>0, <2>1, Rounding
<1>3. m = n + top
  BY <1>0, <1>1, MinOfTwo DEF OneCutSuffices
<1> DEFINE C == IF plug = "extent" THEN UpToBlock(n)..(m - 1) ELSE n..(m - 1)
<1>4. reiser4_flow_cut(plug, n, n + UpToBlock(MaxSize)) = C
  BY DEF reiser4_flow_cut, extent40_trunc_units, tail40_trunc_units
<1> HIDE DEF m, top
<1>5. \A i \in 0..(n - 1) : i \notin C
  BY <1>0, <1>1, <1>3
<1>6. 0..(UpToBlock(size) - 1) \ C \subseteq 0..(UpToBlock(n) - 1)
  <2> SUFFICES ASSUME NEW i \in 0..(UpToBlock(size) - 1), i \notin C, i >= UpToBlock(n)
               PROVE  FALSE
    BY <1>1
  <2>1. i \in Nat /\ i < UpToBlock(size)
    BY <1>1
  <2>2. i \in UpToBlock(n)..(m - 1) /\ i \in n..(m - 1)
    BY <1>0, <1>1, <1>2, <1>3, <2>1
  <2> QED
    BY <2>2
<1> QED
  BY <1>4, <1>5, <1>6

(* reg40_truncate(): growing, shrinking, or neither; in part or not at all. *)
LEMMA TruncateOk ==
  ASSUME OneCutSuffices, NEW reg, IsFile(reg), NEW n \in 0..MaxSize,
         NEW done \in 0..UpToBlock(MaxSize), NEW fault,
         IF fault = "write" \/ (fault = "short" /\ n > reg.size)
         THEN done < IF n > reg.size THEN n - reg.size ELSE reg.size - n
         ELSE done = IF n > reg.size THEN n - reg.size ELSE UpToBlock(MaxSize),
         NEW x \in reg40_truncate(reg, n, done, fault)
  PROVE  IsFile(x)
<1> DEFINE plug == reg40_open(reg)
           moved == obj40_truncate(reg, plug, n, done)
           short == n > reg.size /\ done < n - reg.size
           W == reiser4_flow_write(plug, reg.size, reg.size + done)
           C == reiser4_flow_cut(plug, n, n + done)
           grown == reg.body \cup W
           cut   == reg.body \ C
<1>0. /\ MaxSize \in Nat /\ n \in Nat /\ reg.size \in Nat /\ IsObject(reg)
      /\ reg.kind = "reg" /\ reg.size \in 0..MaxSize /\ done \in Nat
  BY ObjectsAssumption, Rounding DEF IsFile, Exact
<1>1. /\ reg.broke # "lost" => 0..(reg.size - 1) \subseteq reg.body
      /\ reg.broke = "no" => reg.body \subseteq 0..(UpToBlock(reg.size) - 1)
      /\ reg.broke = "no" /\ reg.size > 0 => reg.form = reg40_policy_plug(reg.size)
  BY <1>0 DEF IsFile, Exact
<1>2. /\ reg.size..((reg.size + done) - 1) \subseteq W
      /\ W \subseteq 0..(UpToBlock(reg.size + done) - 1)
  <2> DEFINE b == reg.size + done
  <2>1. b \in Nat
    BY <1>0
  <2> HIDE DEF b, plug
  <2>2. /\ reg.size..(b - 1) \subseteq reiser4_flow_write(plug, reg.size, b)
        /\ reiser4_flow_write(plug, reg.size, b) \subseteq 0..(UpToBlock(b) - 1)
    BY <1>0, <2>1, WrittenUnits
  <2> QED
    BY <2>2 DEF b
<1>3. /\ IsObject(moved) /\ moved.kind = "reg" /\ moved.size = reg.size /\ moved.broke = reg.broke
      /\ n > reg.size => moved.body = grown /\ moved.form = plug
      /\ n < reg.size => moved.body = cut /\ moved.form = reg.form
      /\ n = reg.size => moved.body = reg.body /\ moved.form = reg.form
  <2>1. CASE n > reg.size
    <3> DEFINE m1 == [reg EXCEPT !.body = grown]
               m2 == [m1 EXCEPT !.form = plug]
    <3>1. moved = m2
      BY <1>0, <2>1 DEF obj40_truncate
    <3> HIDE DEF grown, plug, moved
    <3>2. IsObject(m1) /\ m1.kind = "reg" /\ m1.size = reg.size /\ m1.broke = reg.broke /\ m1.body = grown
      BY <1>0, BodySet
    <3> HIDE DEF m1
    <3>3. /\ IsObject(m2) /\ m2.kind = "reg" /\ m2.size = reg.size /\ m2.broke = reg.broke
          /\ m2.body = grown /\ m2.form = plug
      BY <3>2, FormSet
    <3> HIDE DEF m2
    <3> QED
      BY <1>0, <2>1, <3>1, <3>3
  <2>2. CASE n < reg.size
    <3> DEFINE m1 == [reg EXCEPT !.body = cut]
    <3>1. moved = m1
      BY <1>0, <2>2 DEF obj40_truncate
    <3> HIDE DEF cut, moved
    <3>2. /\ IsObject(m1) /\ m1.kind = "reg" /\ m1.size = reg.size /\ m1.broke = reg.broke
          /\ m1.body = cut /\ m1.form = reg.form
      BY <1>0, BodySet
    <3> HIDE DEF m1
    <3> QED
      BY <1>0, <2>2, <3>1, <3>2
  <2>3. CASE n = reg.size
    <3>1. moved = reg
      BY <1>0, <2>3 DEF obj40_truncate
    <3> HIDE DEF moved
    <3> QED
      BY <1>0, <2>3, <3>1
  <2> QED
    BY <1>0, <2>1, <2>2, <2>3
<1> HIDE DEF moved
<1>4. CASE fault = "write"
  <2> DEFINE broke == IF n > reg.size THEN Worse(reg, "write") ELSE "lost"
             y == [moved EXCEPT !.broke = broke]
  <2>1. x = y
    BY <1>4 DEF reg40_truncate, moved
  <2>2. n > reg.size => (broke # "no" /\ (broke # "lost" => reg.broke # "lost"))
    BY DEF Worse
  <2>3. ~(n > reg.size) => broke = "lost"
    OBVIOUS
  <2> HIDE DEF broke
  <2>4. IsObject(y) /\ y.kind = "reg" /\ y.size = reg.size /\ y.body = moved.body /\ y.broke = broke
    BY <1>3, BrokeSet
  <2> HIDE DEF y
  <2>5. n > reg.size /\ broke # "lost" => 0..(reg.size - 1) \subseteq y.body
    BY <1>1, <1>3, <2>2, <2>4
  <2> QED
    BY <1>0, <2>1, <2>2, <2>3, <2>4, <2>5 DEF IsFile, Exact
<1>5. CASE fault # "write"
  <2> DEFINE broke == IF short THEN "lost" ELSE moved.broke
             y1 == [moved EXCEPT !.size = n]
             y == [y1 EXCEPT !.broke = broke]
  <2>1. y = [moved EXCEPT !.size = n, !.broke = IF short THEN "lost" ELSE @]
    <3>1. y1.broke = moved.broke
      BY <1>3, SizeSet
    <3> QED
      BY <3>1
  <2>2. x \in reg40_check_body([moved EXCEPT !.size = n, !.broke = IF short THEN "lost" ELSE @], plug, n, fault)
    BY <1>5, Zenon DEF reg40_truncate, moved
  <2>3. broke # "lost" => ~short /\ broke = reg.broke
    BY <1>3
  <2>4. broke = "no" => ~short /\ reg.broke = "no"
    BY <1>3
  <2> HIDE DEF broke
  <2>5. /\ IsObject(y1) /\ y1.kind = "reg" /\ y1.size = n /\ y1.body = moved.body
        /\ y1.form = moved.form
    BY <1>3, SizeSet
  <2>6. x \in reg40_check_body(y, plug, n, fault)
    BY <2>1, <2>2
  <2> HIDE DEF y1
  <2>7. /\ IsObject(y) /\ y.kind = "reg" /\ y.size = n /\ y.body = moved.body
        /\ y.form = moved.form /\ y.broke = broke
    BY <2>5, BrokeSet
  <2> HIDE DEF y
  <2>8. n < reg.size => /\ \A i \in 0..(n - 1) : i \notin C
                        /\ 0..(UpToBlock(reg.size) - 1) \ C \subseteq 0..(UpToBlock(n) - 1)
    <3> SUFFICES ASSUME n < reg.size
                 PROVE  /\ \A i \in 0..(n - 1) : i \notin C
                        /\ 0..(UpToBlock(reg.size) - 1) \ C \subseteq 0..(UpToBlock(n) - 1)
      OBVIOUS
    <3>1. done = UpToBlock(MaxSize) /\ n =< reg.size
      BY <1>0, <1>5
    <3> QED
      BY <1>0, <3>1, CutUnits
  <2>9. n > reg.size /\ ~short => reg.size + done = n
    BY <1>0, <1>5
  <2> HIDE DEF W, C
  <2>10. broke # "lost" => 0..(n - 1) \subseteq y.body
    <3> SUFFICES ASSUME broke # "lost", NEW i \in 0..(n - 1) PROVE i \in y.body
      OBVIOUS
    <3>1. CASE n > reg.size
      <4>1. i \in 0..(reg.size - 1) \/ i \in reg.size..((reg.size + done) - 1)
        BY <1>0, <2>3, <2>9, <3>1
      <4> QED
        BY <1>1, <1>2, <1>3, <2>3, <2>7, <3>1, <4>1
    <3>2. CASE n < reg.size
      <4>1. i \in 0..(reg.size - 1)
        BY <1>0, <3>2
      <4> QED
        BY <1>1, <1>3, <2>3, <2>7, <2>8, <3>2, <4>1
    <3>3. CASE n = reg.size
      BY <1>1, <1>3, <2>3, <2>7, <3>3
    <3> QED
      BY <1>0, <3>1, <3>2, <3>3
  <2>11. broke = "no" => y.body \subseteq 0..(UpToBlock(n) - 1)
    <3> SUFFICES ASSUME broke = "no" PROVE y.body \subseteq 0..(UpToBlock(n) - 1)
      OBVIOUS
    <3>1. CASE n > reg.size
      <4>1. W \subseteq 0..(UpToBlock(n) - 1)
        BY <1>2, <2>4, <2>9, <3>1
      <4>2. UpToBlock(reg.size) =< UpToBlock(n) /\ UpToBlock(reg.size) \in Nat /\ UpToBlock(n) \in Nat
        <5>1. n =< UpToBlock(n) /\ UpToBlock(n) \in Nat /\ UpToBlock(reg.size) \in Nat
          BY <1>0, Rounding
        <5>2. reg.size =< UpToBlock(n)
          BY <1>0, <3>1, <5>1
        <5> QED
          BY <1>0, <5>1, <5>2, Rounding
      <4>3. 0..(UpToBlock(reg.size) - 1) \subseteq 0..(UpToBlock(n) - 1)
        BY <4>2
      <4> QED
        BY <1>1, <1>3, <2>4, <2>7, <3>1, <4>1, <4>3
    <3>2. CASE n < reg.size
      BY <1>1, <1>3, <2>4, <2>7, <2>8, <3>2
    <3>3. CASE n = reg.size
      BY <1>1, <1>3, <2>4, <2>7, <3>3
    <3> QED
      BY <1>0, <3>1, <3>2, <3>3
  <2>12. broke = "no" /\ n > 0 => y.form = plug
    <3> SUFFICES ASSUME broke = "no", n > 0 PROVE y.form = plug
      OBVIOUS
    <3>1. CASE n > reg.size
      BY <1>3, <2>7, <3>1
    <3>2. CASE ~(n > reg.size)
      <4>1. reg.size > 0 /\ 0 \in 0..(reg.size - 1)
        BY <1>0, <3>2
      <4>2. reg.body # {}
        BY <1>1, <2>4, <4>1
      <4>3. plug = reg.form
        BY <4>2 DEF reg40_open
      <4> QED
        BY <1>0, <1>3, <2>7, <3>2, <4>3
    <3> QED
      BY <3>1, <3>2
  <2> HIDE DEF plug
  <2> QED
    BY <2>6, <2>7, <2>10, <2>11, <2>12, CheckBodyOk
<1> QED
  BY <1>4, <1>5

-----------------------------------------------------------------------------
(* The invariant *)

\* Every file is exact, and no object has an id that is still to be given.
FilesInv ==
  /\ Store(objs)
  /\ \A o \in Oids : Exact(objs[o])
  /\ oid \in Nat
  /\ \A o \in Oids : o >= oid => objs[o].kind = "none"

\* What a step leaves of the objects, for a next id of n
Kept(os, n) ==
  /\ Store(os)
  /\ \A o \in Oids : Exact(os[o])
  /\ \A o \in Oids : o >= n => os[o].kind = "none"

(* Files that have not changed are as exact as they were.                   *)
LEMMA SameKept ==
  ASSUME NEW os, NEW new, NEW n, Kept(os, n), SameFiles(os, new)
  PROVE  Kept(new, n)
  BY DEF Kept, SameFiles, Exact

(* One object replaced by a file, or by nothing.                            *)
LEMMA ReplaceKept ==
  ASSUME NEW os, NEW n, Kept(os, n), NEW o, NEW r, IsObject(r), Exact(r),
         o \in Oids => (o >= n => r.kind = "none")
  PROVE  Kept([os EXCEPT ![o] = r], n)
<1> DEFINE new == [os EXCEPT ![o] = r]
<1>1. new = [x \in Oids |-> new[x]] /\ \A x \in Oids : new[x] = IF x = o THEN r ELSE os[x]
  BY DEF Kept, Store
<1> HIDE DEF new
<1>2. Kept(new, n)
  BY <1>1 DEF Kept, Store
<1> QED
  BY <1>2 DEF new

(* obj40_create_stat(): an object with an empty body.                       *)
LEMMA StatOk ==
  ASSUME NEW kind, NEW size, NEW nlink, NEW r, r = obj40_create_stat(kind, size, nlink)
  PROVE  IsObject(r) /\ r.kind = kind /\ r.size = size /\ r.body = {} /\ r.broke = "no"
<1> DEFINE n1 == [NoObject EXCEPT !.kind = kind]
           n2 == [n1 EXCEPT !.size = size]
           n3 == [n2 EXCEPT !.nlink = nlink]
<1>1. r = n3
  BY DEF obj40_create_stat
<1>2. IsObject(NoObject) /\ NoObject.body = {} /\ NoObject.broke = "no"
  BY DEF NoObject, IsObject
<1>3. IsObject(n1) /\ n1.kind = kind /\ n1.body = {} /\ n1.broke = "no"
  BY <1>2 DEF IsObject
<1> HIDE DEF n1
<1>4. IsObject(n2) /\ n2.kind = kind /\ n2.size = size /\ n2.body = {} /\ n2.broke = "no"
  BY <1>3, SizeSet
<1> HIDE DEF n2
<1>5. IsObject(n3) /\ n3.kind = kind /\ n3.size = size /\ n3.body = {} /\ n3.broke = "no"
  BY <1>4 DEF IsObject
<1> HIDE DEF n3
<1> QED
  BY <1>1, <1>5

(* Objects as they are created.                                             *)
LEMMA CreatedOk ==
  ASSUME NEW kind \in {"dir", "reg", "sym"}, NEW o
  PROVE  /\ IsObject(reiser4_object_create(kind, o)) /\ Exact(reiser4_object_create(kind, o))
         /\ reiser4_object_create(kind, o).kind = kind
         /\ IsObject(NoObject) /\ Exact(NoObject) /\ NoObject.kind = "none"
<1>0. MaxSize \in Nat /\ UpToBlock(0) = 0
  BY ObjectsAssumption, Rounding
<1>1. IsObject(NoObject) /\ NoObject.kind = "none" /\ NoObject.size = 0 /\ NoObject.body = {}
  BY DEF NoObject, IsObject
<1>2. Exact(NoObject)
  BY <1>1 DEF Exact
<1> DEFINE e == <<Entry(".", o)>>
           d0 == obj40_create_stat("dir", 1, 1)
           d == [d0 EXCEPT !.ents = e]
<1>3. IsObject(d0) /\ d0.kind = "dir"
  BY StatOk
<1> HIDE DEF e, d0
<1>4. IsObject(d) /\ d.kind = "dir"
  BY <1>3 DEF IsObject
<1>5. d = dir40_create(o)
  BY DEF dir40_create, d0, e
<1>6. IsObject(dir40_create(o)) /\ dir40_create(o).kind = "dir"
  BY <1>4, <1>5
<1>7. /\ IsObject(reg40_create) /\ reg40_create.kind = "reg" /\ reg40_create.size = 0
      /\ reg40_create.body = {}
  BY StatOk DEF reg40_create
<1>8. IsObject(sym40_create) /\ sym40_create.kind = "sym"
  BY StatOk DEF sym40_create
<1>9. Exact(reg40_create) /\ Exact(dir40_create(o)) /\ Exact(sym40_create)
  BY <1>0, <1>6, <1>7, <1>8 DEF Exact
<1> QED
  BY <1>1, <1>2, <1>6, <1>7, <1>8, <1>9 DEF reiser4_object_create

(* reiser4_object_clobber(): the object goes, or its body does.             *)
LEMMA ClobberKept ==
  ASSUME NEW os, NEW n, Kept(os, n), NEW o, NEW fault
  PROVE  Kept(reiser4_object_clobber(os, o, fault), n)
<1>0. MaxSize \in Nat /\ UpToBlock(0) = 0
  BY ObjectsAssumption, Rounding
<1>1. Kept(obj40_clobber(os, o), n)
  BY CreatedOk, ReplaceKept DEF obj40_clobber
<1>2. ASSUME os[o].kind = "reg" PROVE Kept(reg40_clobber(os, o, "erase"), n)
  <2> DEFINE none == 0
             empty == {}
             r1 == [os[o] EXCEPT !.size = none]
             r == [r1 EXCEPT !.body = empty]
  <2>1. reg40_clobber(os, o, "erase") = [os EXCEPT ![o] = r]
    <3>1. reg40_clobber(os, o, "erase") = [[os EXCEPT ![o].size = none] EXCEPT ![o].body = empty]
      BY DEF reg40_clobber
    <3>2. os = [x \in Oids |-> os[x]]
      BY DEF Kept, Store
    <3> QED
      BY <3>1, <3>2
  <2>2. CASE o \in Oids
    <3>1. IsObject(os[o])
      BY <2>2 DEF Kept, Store
    <3> HIDE DEF none, empty
    <3>2. IsObject(r1) /\ r1.kind = "reg" /\ r1.size = none
      BY <1>2, <3>1, SizeSet
    <3> HIDE DEF r1
    <3>3. IsObject(r) /\ r.kind = "reg" /\ r.size = none /\ r.body = empty
      BY <3>2, BodySet
    <3> HIDE DEF r
    <3>4. Exact(r)
      BY <1>0, <3>3 DEF Exact, none, empty
    <3>5. o >= n => r.kind = "none"
      BY <1>2, <2>2 DEF Kept
    <3> QED
      BY <2>1, <3>3, <3>4, <3>5, ReplaceKept
  <2>3. CASE o \notin Oids
    <3>1. [os EXCEPT ![o] = r] = os
      BY <2>3 DEF Kept, Store
    <3> QED
      BY <2>1, <3>1
  <2> QED
    BY <2>2, <2>3
<1> QED
  BY <1>1, <1>2 DEF reiser4_object_clobber, dir40_clobber, reg40_clobber, sym40_clobber

(* A step that takes no id.                                                 *)
LEMMA StepKeeps ==
  ASSUME FilesInv, NEW os, Kept(os, oid), Becomes(os), oid' = oid
  PROVE  FilesInv'
  BY DEF FilesInv, Kept, Becomes

(* The invariant says of the objects that they are kept.                    *)
LEMMA InvKept ==
  ASSUME FilesInv
  PROVE  /\ Kept(objs, oid) /\ Kept(objs, oid + 1) /\ Store(objs) /\ oid \in Nat
         /\ \A p \in Parents : MayHold(objs, p)
<1>1. \A o \in Oids : o >= oid + 1 => o >= oid
  BY DEF FilesInv, Oids
<1> QED
  BY <1>1 DEF FilesInv, Kept, Parents, MayHold

(* Making an object, with every call that can fail.                         *)
LEMMA CreateKeeps ==
  ASSUME FilesInv, create_cmd
  PROVE  FilesInv'
<1>1. PICK p \in Parents, name \in Names, kind \in {"dir", "reg", "sym"},
           fault \in Faults({"stat", "entry", "link", "dotdot"}) :
         reiser4_obj_create(p, name, kind, fault)
  BY Zenon DEF create_cmd
<1> DEFINE made == [objs EXCEPT ![oid] = reiser4_object_create(kind, oid)]
<1>2. oid' = oid + 1 /\ oid \in Nat
  BY <1>1 DEF reiser4_obj_create, oid40_allocate, FilesInv
<1>3. ASSUME NEW os, Kept(os, oid + 1), Becomes(os) PROVE FilesInv'
  BY <1>2, <1>3 DEF FilesInv, Kept, Becomes
<1>4. Kept(objs, oid + 1) /\ MayHold(objs, p) /\ Store(objs)
  BY InvKept
<1>5. CASE fault = "stat"
  <2>1. Becomes(objs)
    BY <1>1, <1>5 DEF reiser4_obj_create
  <2> QED
    BY <1>3, <1>4, <2>1
<1>6. CASE fault # "stat"
  <2>1. PICK r \in reiser4_object_link(made, p, oid, name, fault) :
          Becomes(IF r.ok THEN r.os ELSE reiser4_object_clobber(r.os, oid, "none"))
    BY <1>1, <1>6, Zenon DEF reiser4_obj_create
  <2>2. Kept(made, oid + 1)
    <3>1. ~(oid >= oid + 1)
      BY <1>2
    <3> QED
      BY <1>4, <3>1, CreatedOk, ReplaceKept
  <2>3. MayHold(made, p)
    <3> SUFFICES ASSUME p \in Oids PROVE made[p].kind = "dir"
      BY DEF MayHold
    <3>1. objs[p].kind = "dir"
      BY DEF Parents
    <3>2. p # oid
      BY <1>2, <3>1 DEF FilesInv
    <3> QED
      BY <1>4, <3>1, <3>2 DEF Store
  <2>4. SameFiles(made, r.os)
    BY <2>2, <2>3, ObjectLinkSame DEF AllSame, Kept
  <2>5. Kept(r.os, oid + 1)
    BY <2>2, <2>4, SameKept
  <2>6. Kept(reiser4_object_clobber(r.os, oid, "none"), oid + 1)
    BY <2>5, ClobberKept
  <2> QED
    BY <1>3, <2>1, <2>5, <2>6
<1> QED
  BY <1>5, <1>6

(* Another name for an object.                                              *)
LEMMA LnKeeps ==
  ASSUME FilesInv, ln_cmd
  PROVE  FilesInv'
<1>1. PICK o \in Openable, p \in Parents, name \in Names, fault \in Faults({"entry", "link"}) :
        /\ \E r \in reiser4_object_link(objs, p, reiser4_semantic_open(o), name, fault) : Becomes(r.os)
        /\ oid' = oid
  BY Zenon DEF ln_cmd
<1>2. PICK r \in reiser4_object_link(objs, p, reiser4_semantic_open(o), name, fault) : Becomes(r.os)
  BY <1>1
<1>3. Kept(objs, oid) /\ MayHold(objs, p) /\ Store(objs)
  BY InvKept
<1>4. SameFiles(objs, r.os)
  BY <1>3, ObjectLinkSame DEF AllSame
<1>5. Kept(r.os, oid)
  BY <1>3, <1>4, SameKept
<1> QED
  BY <1>1, <1>2, <1>5, StepKeeps

(* A name removed, and the object when it was the last one.                 *)
LEMMA RmKeeps ==
  ASSUME FilesInv, rm_cmd
  PROVE  FilesInv'
<1>1. PICK p \in Parents, name \in Names, fault \in Faults({"dotdot", "unlink", "rem", "erase"}) :
        /\ \E r \in Search(objs[p].ents, name), u \in reiser4_object_unlink(objs, p, name, fault) :
              LET o == reiser4_semantic_open(objs[p].ents[r.pos].obj)
              IN  /\ r.found
                  /\ fault = "dotdot" => IsDir(objs, o)
                  /\ Becomes(IF u.ok /\ ~reiser4_linked(u.os, o)
                             THEN reiser4_object_clobber(u.os, o, fault) ELSE u.os)
        /\ oid' = oid
  BY Zenon DEF rm_cmd
<1>2. PICK r \in Search(objs[p].ents, name), u \in reiser4_object_unlink(objs, p, name, fault) :
              LET o == reiser4_semantic_open(objs[p].ents[r.pos].obj)
              IN  Becomes(IF u.ok /\ ~reiser4_linked(u.os, o)
                          THEN reiser4_object_clobber(u.os, o, fault) ELSE u.os)
  BY <1>1, Zenon
<1> DEFINE o == reiser4_semantic_open(objs[p].ents[r.pos].obj)
<1>3. Kept(objs, oid) /\ MayHold(objs, p) /\ Store(objs)
  BY InvKept
<1>4. SameFiles(objs, u.os)
  BY <1>3, ObjectUnlinkSame DEF AllSame
<1>5. Kept(u.os, oid)
  BY <1>3, <1>4, SameKept
<1> HIDE DEF o
<1>6. Kept(reiser4_object_clobber(u.os, o, fault), oid)
  BY <1>5, ClobberKept
<1>7. Becomes(reiser4_object_clobber(u.os, o, fault)) \/ Becomes(u.os)
  BY <1>2, Zenon DEF o
<1> QED
  BY <1>1, <1>5, <1>6, <1>7, StepKeeps

(* A file that is open is exact.                                            *)
LEMMA OpenFile ==
  ASSUME FilesInv, NEW o \in Files, o \in Oids
  PROVE  IsFile(objs[o]) /\ ~(o >= oid)
<1>1. objs[o].kind = "reg"
  BY DEF Files
<1> QED
  BY <1>1 DEF FilesInv, Store, IsFile

(* A file replaced by one that is exact.                                    *)
LEMMA FileKept ==
  ASSUME FilesInv, NEW o \in Files, NEW reg, o \in Oids => IsFile(reg),
         Becomes([objs EXCEPT ![o] = reg]), oid' = oid
  PROVE  FilesInv'
<1>0. Kept(objs, oid)
  BY InvKept
<1>1. CASE o \in Oids
  <2>1. ~(o >= oid) /\ IsObject(reg) /\ Exact(reg)
    BY <1>1, OpenFile DEF IsFile
  <2>2. Kept([objs EXCEPT ![o] = reg], oid)
    BY <1>0, <2>1, ReplaceKept
  <2> QED
    BY <2>2, StepKeeps
<1>2. CASE o \notin Oids
  <2>1. [objs EXCEPT ![o] = reg] = objs
    BY <1>0, <1>2 DEF Kept, Store
  <2> QED
    BY <1>0, <2>1, StepKeeps
<1> QED
  BY <1>1, <1>2

(* Writing a file.                                                          *)
LEMMA WriteKeeps ==
  ASSUME FilesInv, WriteFile
  PROVE  FilesInv'
<1>1. PICK o \in Files, off \in 0..(MaxSize - 1), n \in 1..MaxSize,
           fault \in Faults({"write", "convert", "short"}) :
        /\ off + n <= MaxSize
        /\ \E done \in 0..(off + n - Min({off, objs[o].size})) :
             /\ fault \in {"write", "short"} \equiv done < off + n - Min({off, objs[o].size})
             /\ \E reg \in reg40_write(objs[o], off, n, done, fault) :
                  Becomes([objs EXCEPT ![o] = reg])
        /\ oid' = oid
  BY Zenon DEF WriteFile
<1>2. PICK done \in 0..(off + n - Min({off, objs[o].size})) :
        /\ fault \in {"write", "short"} \equiv done < off + n - Min({off, objs[o].size})
        /\ \E reg \in reg40_write(objs[o], off, n, done, fault) : Becomes([objs EXCEPT ![o] = reg])
  BY <1>1, Zenon
<1>3. PICK reg \in reg40_write(objs[o], off, n, done, fault) : Becomes([objs EXCEPT ![o] = reg])
  BY <1>2, Zenon
<1>4. o \in Oids => IsFile(reg)
  <2> SUFFICES ASSUME o \in Oids PROVE IsFile(reg)
    OBVIOUS
  <2> DEFINE was == objs[o]
  <2>1. IsFile(was)
    BY OpenFile
  <2>2. /\ done \in 0..(off + n - Min({off, was.size}))
        /\ fault \in {"write", "short"} \equiv done < off + n - Min({off, was.size})
        /\ reg \in reg40_write(was, off, n, done, fault)
    BY <1>2, <1>3
  <2> HIDE DEF was
  <2> QED
    BY <1>1, <2>1, <2>2, WriteOk
<1> QED
  BY <1>1, <1>3, <1>4, FileKept

(* Truncating a file.                                                       *)
LEMMA TruncKeeps ==
  ASSUME OneCutSuffices, FilesInv, trunc_cmd
  PROVE  FilesInv'
<1>1. PICK o \in Files, n \in 0..MaxSize, fault \in Faults({"write", "convert", "short"}) :
        /\ \E done \in 0..UpToBlock(MaxSize) :
             /\ IF fault = "write" \/ (fault = "short" /\ n > objs[o].size)
                THEN done < IF n > objs[o].size THEN n - objs[o].size ELSE objs[o].size - n
                ELSE done = IF n > objs[o].size THEN n - objs[o].size ELSE UpToBlock(MaxSize)
             /\ \E reg \in reg40_truncate(objs[o], n, done, fault) :
                  Becomes([objs EXCEPT ![o] = reg])
        /\ oid' = oid
  BY Zenon DEF trunc_cmd
<1>2. PICK done \in 0..UpToBlock(MaxSize) :
             /\ IF fault = "write" \/ (fault = "short" /\ n > objs[o].size)
                THEN done < IF n > objs[o].size THEN n - objs[o].size ELSE objs[o].size - n
                ELSE done = IF n > objs[o].size THEN n - objs[o].size ELSE UpToBlock(MaxSize)
             /\ \E reg \in reg40_truncate(objs[o], n, done, fault) :
                  Becomes([objs EXCEPT ![o] = reg])
  BY <1>1, Zenon
<1>3. PICK reg \in reg40_truncate(objs[o], n, done, fault) : Becomes([objs EXCEPT ![o] = reg])
  BY <1>2, Zenon
<1>4. o \in Oids => IsFile(reg)
  <2> SUFFICES ASSUME o \in Oids PROVE IsFile(reg)
    OBVIOUS
  <2> DEFINE was == objs[o]
  <2>1. IsFile(was)
    BY OpenFile
  <2>2. /\ IF fault = "write" \/ (fault = "short" /\ n > was.size)
           THEN done < IF n > was.size THEN n - was.size ELSE was.size - n
           ELSE done = IF n > was.size THEN n - was.size ELSE UpToBlock(MaxSize)
        /\ reg \in reg40_truncate(was, n, done, fault)
    BY <1>2, <1>3, Zenon
  <2> HIDE DEF was
  <2> QED
    BY <2>1, <2>2, TruncateOk
<1> QED
  BY <1>1, <1>3, <1>4, FileKept

(* What mkfs and the kernel have made.                                      *)
LEMMA FirstObjects == Init => FilesInv
<1> SUFFICES ASSUME Init PROVE FilesInv
  OBVIOUS
<1> DEFINE r0 == dir40_create(Root)
           links == 3
           r1 == [r0 EXCEPT !.nlink = links]
           ents == RootEntries
           r2 == [r1 EXCEPT !.ents = ents]
           size == Len(RootEntries)
           root == [r2 EXCEPT !.size = size]
           many == Cardinality(Foreign)
           file == [reg40_create EXCEPT !.nlink = many]
<1>1. /\ objs = [o \in Oids |-> CASE o = Root -> root
                                  [] o = 1 /\ Foreign # {} -> file
                                  [] OTHER -> NoObject]
      /\ oid = IF Foreign = {} THEN 1 ELSE 2
  <2>1. root = [MadeRoot EXCEPT !.ents = RootEntries, !.size = Len(RootEntries)]
    BY DEF MadeRoot
  <2>2. file = [reg40_create EXCEPT !.nlink = Cardinality(Foreign)]
    OBVIOUS
  <2>3. /\ objs = [o \in Oids |->
                 CASE o = Root -> [MadeRoot EXCEPT !.ents = RootEntries, !.size = Len(RootEntries)]
                   [] o = 1 /\ Foreign # {} ->
                        [reg40_create EXCEPT !.nlink = Cardinality(Foreign)]
                   [] OTHER -> NoObject]
        /\ oid = IF Foreign = {} THEN 1 ELSE 2
    BY Zenon DEF Init
  <2> HIDE DEF root, file
  <2> QED
    BY <2>1, <2>2, <2>3
<1>2. IsObject(r0) /\ r0.kind = "dir"
  <2>1. /\ IsObject(reiser4_object_create("dir", Root)) /\ reiser4_object_create("dir", Root).kind = "dir"
    BY CreatedOk
  <2> QED
    BY <2>1 DEF reiser4_object_create
<1>3. /\ IsObject(reg40_create) /\ reg40_create.kind = "reg" /\ reg40_create.size = 0
      /\ reg40_create.body = {}
  BY StatOk DEF reg40_create
<1> HIDE DEF r0, links, ents, size, many
<1>4. IsObject(r1) /\ r1.kind = "dir"
  BY <1>2 DEF IsObject
<1> HIDE DEF r1
<1>5. IsObject(r2) /\ r2.kind = "dir"
  BY <1>4 DEF IsObject
<1> HIDE DEF r2
<1>6. IsObject(root) /\ root.kind = "dir"
  <2>1. root = [r2 EXCEPT !.size = size]
    OBVIOUS
  <2> HIDE DEF root
  <2> QED
    BY <1>5, <2>1, SizeSet
<1> HIDE DEF root
<1>7. IsObject(file) /\ file.kind = "reg" /\ file.size = 0 /\ file.body = {}
  BY <1>3 DEF IsObject
<1> HIDE DEF file
<1>8. MaxSize \in Nat /\ UpToBlock(0) = 0
  BY ObjectsAssumption, Rounding
<1>9. Exact(root) /\ Exact(file) /\ IsObject(NoObject) /\ Exact(NoObject) /\ NoObject.kind = "none"
  BY <1>6, <1>7, <1>8, CreatedOk DEF Exact
<1>10. /\ objs = [o \in Oids |-> objs[o]]
       /\ \A o \in Oids : /\ objs[o] \in {root, file, NoObject}
                          /\ o >= oid => objs[o] = NoObject
  BY <1>1 DEF Oids, Root
<1>11. oid \in Nat
  BY <1>1
<1> HIDE DEF NoObject
<1> QED
  BY <1>6, <1>7, <1>9, <1>10, <1>11 DEF FilesInv, Store

(* Every step keeps every file exact.                                       *)
LEMMA StepsKeepFiles ==
  ASSUME OneCutSuffices, FilesInv, [Next]_vars
  PROVE  FilesInv'
<1>1. CASE objs' = objs /\ oid' = oid
  BY <1>1 DEF FilesInv
<1>2. StartScan \/ dir40_readdir \/ UNCHANGED vars => objs' = objs /\ oid' = oid
  BY DEF StartScan, dir40_readdir, vars
<1> QED
  BY <1>1, <1>2, CreateKeeps, LnKeeps, RmKeeps, WriteKeeps, TruncKeeps, Zenon DEF Next

(* A regular file whose operations succeeded has in the tree its units, up  *)
(* to a whole block, in the form reg40_policy_plug() wants; after a write   *)
(* that failed it still has all units up to its size.  Blocks, tails and    *)
(* files are of any size, as long as one call can cut a whole file.         *)
THEOREM FilesStayExact == OneCutSuffices => (Spec => []FileExact)
<1> SUFFICES ASSUME OneCutSuffices PROVE Spec => []FileExact
  OBVIOUS
<1>1. Init => FilesInv
  BY FirstObjects
<1>2. FilesInv /\ [Next]_vars => FilesInv'
  BY StepsKeepFiles
<1>3. FilesInv => FileExact
  BY DEF FilesInv, FileExact, Exact
<1> QED
  BY <1>1, <1>2, <1>3, PTL DEF Spec
=============================================================================
