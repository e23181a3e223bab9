------------------------------- MODULE Semantic -------------------------------
(***************************************************************************)
(* fsck's semantic pass in build mode: the tree is whole again, but the    *)
(* objects in it are not.  Stat data, entries and ".." may be gone or name *)
(* the wrong object.  The pass walks the names from the root, goes up the  *)
(* ".." of directories it meets at an unexpected place, puts what has no   *)
(* name into "lost+found" and counts all links anew.  Its recursion is the *)
(* variable stack; the flags are those it keeps on the stat data items.    *)
(***************************************************************************)
EXTENDS Naturals, Sequences, SequencesExt, FiniteSets, FiniteSetsExt, TLC

CONSTANTS Dirs,         \* directories besides the root and lost+found
          Files,        \* files
          MaxDamage,    \* bound of the losses met together
          MaxLinks      \* bound of the links counted: 2^32 - 1

Root == 0
Lost == 1
Oids == {Root, Lost} \cup Dirs \cup Files
AllDirs == {Root, Lost} \cup Dirs

ASSUME SemanticAssumption ==
    /\ Dirs \cup Files \subseteq 2..9
    /\ Dirs \cap Files = {}
    /\ {MaxDamage, MaxLinks} \subseteq Nat \ {0}

VARIABLES objs,         \* object id -> its items and flags
          stack,        \* the calls under way, the innermost last
          phase,        \* "root", "lost", "walk", "scan", "over" or "failed"
          hash,         \* where the names hash to that differ between file systems
          damage        \* what happened to the file system

vars == <<objs, stack, phase, hash, damage>>

IsDir(o) == o \in AllDirs

-----------------------------------------------------------------------------
(* Names, by the key they hash to.  No two of them meet, and between two   *)
(* there is always another key.                                            *)

Name(o) == IF o = Lost THEN hash.found ELSE 12 + 2 * o

\* The name an object gets that is found without one.
repair_semantic_lost_name(o) == hash.lost + 2 * o

Behind == 99                    \* a key behind all names

IsLostName(n) == \E o \in Oids : n = repair_semantic_lost_name(o)

-----------------------------------------------------------------------------
(* What the object plugins do, each as the objects after the call.         *)

HasStat(os, o) == os[o].sd

Flag(os, o, f) == [os EXCEPT ![o].flags = @ \cup {f}]

Link(os, o) == [os EXCEPT ![o].nlink = Min({@ + 1, MaxLinks})]

Unlink(os, o) == [os EXCEPT ![o].nlink = @ - 1]

HasName(os, d, n) == n \in DOMAIN os[d].ents

\* Files take no entries, and no name is taken twice.
MayAdd(os, d, n) == IsDir(d) /\ ~HasName(os, d, n)

AddEntry(os, d, n, o) == [os EXCEPT ![d].ents = (n :> o) @@ @]

RemoveNames(os, d, N) ==
    [os EXCEPT ![d].ents = [n \in DOMAIN @ \ N |-> @[n]]]

\* reiser4_object_detach() without a parent
Detach(os, o) == [os EXCEPT ![o].up = {}]

(***************************************************************************)
(* check_struct: missing stat data is made anew, links are counted from    *)
(* the start, "." being one, and all items are registered, but once only.  *)
(***************************************************************************)
obj40_prepare_stat(obj) == [obj EXCEPT !.sd = TRUE]

obj40_update_stat(obj, nlink) == [obj EXCEPT !.nlink = nlink]

dir40_check_struct(obj) == obj40_update_stat(obj40_prepare_stat(obj), 1)

reg40_check_struct(obj) == obj40_update_stat(obj40_prepare_stat(obj), 0)

repair_semantic_check_struct(os, o) ==
    IF "checked" \in os[o].flags THEN os
    ELSE Flag([os EXCEPT ![o] = IF IsDir(o) THEN dir40_check_struct(@) ELSE reg40_check_struct(@)],
              o, "checked")

\* A broken Attachable(): the ".." a directory has is not compared.
AttachableAnywhere(os, p, o) == TRUE

\* A directory goes to the parent its ".." names, or to any when it has none.
Attachable(os, p, o) == IsDir(o) => os[o].up \subseteq {p}

\* A broken dir40_check_attach(): the parent gets no link with a new "..".
AttachUncounted(os, p, o) ==
    IF ~IsDir(o) THEN os
    ELSE IF os[o].up = {} THEN [os EXCEPT ![o].up = {p}]
    ELSE Link(os, p)

dir40_check_attach(os, p, o) ==
    IF IsDir(o) THEN Link([os EXCEPT ![o].up = {p}], p) ELSE os

\* What is in lost+found may still find a better place.
repair_semantic_check_attach(os, p, o) ==
    LET linked == Link(dir40_check_attach(os, p, o), o)
    IN  IF p = Lost THEN linked ELSE Flag(linked, o, "attached")

repair_semantic_link_lost(os, p, o) ==
    repair_semantic_check_attach(
        AddEntry(Detach(os, o), p, repair_semantic_lost_name(o), o), p, o)

\* reiser4_object_unlink() of a name in lost+found
UnlinkLost(os, o) ==
    RemoveNames(Unlink(Unlink(Detach(os, o), Lost), o), Lost, {repair_semantic_lost_name(o)})

-----------------------------------------------------------------------------
(* The calls under way.                                                    *)

Top == Last(stack)
Running(op) == stack # <<>> /\ Top.op = op

\* reiser4_object_traverse() of a directory, with "." and ".." read already;
\* a file has nothing to read.
Walk(os, o) ==
    IF IsDir(o) THEN <<[op |-> "walk", dir |-> o, pos |-> Min(DOMAIN os[o].ents \cup {Behind})]>> ELSE <<>>

Return(calls) == stack' = Front(stack) \o calls

Fail == phase' = "failed" /\ stack' = <<>> /\ UNCHANGED objs

-----------------------------------------------------------------------------
(* The root and lost+found come first; they are made when they are gone.   *)

repair_semantic_root_prepare ==
    /\ phase = "root"
    /\ objs' = LET checked == repair_semantic_check_struct(objs, Root)
                   own == [checked EXCEPT ![Root].up = {Root}]
               IN  repair_semantic_check_attach(own, Root, Root)
    /\ phase' = "lost"
    /\ UNCHANGED <<stack, hash, damage>>

\* A missing ".." is added, a wrong one removed; the links are counted when
\* the name is met in the root.
repair_semantic_lost_prepare ==
    /\ phase = "lost"
    /\ objs' = LET checked == repair_semantic_check_struct(objs, Lost)
                   own == [checked EXCEPT ![Lost].up =
                               IF @ = {} THEN {Root} ELSE @ \cap {Root}]
                   named == IF HasName(own, Root, Name(Lost)) THEN own
                            ELSE AddEntry(own, Root, Name(Lost), Lost)
               IN  RemoveNames(named, Lost, {n \in DOMAIN named[Lost].ents : IsLostName(n)})
    /\ phase' = "walk"
    /\ stack' = Walk(objs', Root)
    /\ UNCHANGED <<hash, damage>>

-----------------------------------------------------------------------------
(* The walk.                                                               *)

Unread(call) == {n \in DOMAIN objs[call.dir].ents : n >= call.pos}

\* A broken PositionAfter(): with the last entry the position stays.
PositionStays(call, n) ==
    IF \E m \in Unread(call) : m > n THEN Min({m \in Unread(call) : m > n}) ELSE call.pos

\* The position moves to the next entry there is when one is read, and just
\* behind itself with the last; the keys of names are even.  It does not get
\* behind an entry that was not yet there when the position was set, however
\* often that is read.
PositionAfter(call, n) ==
    IF \E m \in Unread(call) : m > n THEN Min({m \in Unread(call) : m > n})
    ELSE call.pos + (1 - (call.pos % 2))

EndOfDirectory ==
    /\ Running("walk")
    /\ Unread(Top) = {}
    /\ Return(<<>>)
    /\ UNCHANGED <<objs, phase, hash, damage>>

\* cb_object_traverse(): an entry that names nothing goes; of another object
\* the flags are read and then its structure is checked.
VisitEntry ==
    /\ Running("walk")
    /\ Unread(Top) # {}
    /\ LET n == Min(Unread(Top))
           o == objs[Top.dir].ents[n]
           read == [Top EXCEPT !.pos = PositionAfter(Top, n)]
       IN  IF HasStat(objs, o)
           THEN /\ objs' = repair_semantic_check_struct(objs, o)
                /\ Return(<<read, [op |-> "entry", dir |-> Top.dir, name |-> n, obj |-> o,
                                   seen |-> objs[o].flags]>>)
           ELSE /\ objs' = RemoveNames(objs, Top.dir, {n})
                /\ Return(<<read>>)
    /\ UNCHANGED <<phase, hash, damage>>

\* Only a directory that is not attached and whose ".." is another one needs
\* anything before its attachment is checked.
ElsewhereAttached(call) ==
    /\ "attached" \notin call.seen
    /\ ~Attachable(objs, call.dir, call.obj)

\* Met for the first time: its real parent may be found above it.
SearchParent ==
    /\ Running("entry")
    /\ ElsewhereAttached(Top)
    /\ "checked" \notin Top.seen
    /\ Return(<<[Top EXCEPT !.op = "attach"],
                [op |-> "uplink", obj |-> Top.obj, cur |-> Top.obj, scan |-> FALSE]>>)
    /\ UNCHANGED <<objs, phase, hash, damage>>

\* Met again while it is in lost+found: it leaves that.
LeaveLost ==
    /\ Running("entry")
    /\ ElsewhereAttached(Top)
    /\ "checked" \in Top.seen
    /\ IF objs[Top.obj].up # {Lost}
       THEN Return(<<[Top EXCEPT !.op = "attach"]>>) /\ UNCHANGED <<objs, phase>>
       ELSE IF HasName(objs, Lost, repair_semantic_lost_name(Top.obj))
       THEN /\ objs' = UnlinkLost(objs, Top.obj)
            /\ Return(<<[Top EXCEPT !.op = "attach"]>>)
            /\ UNCHANGED phase
       ELSE Fail
    /\ UNCHANGED <<hash, damage>>

\* The entry stays and the object is walked once, or the entry goes.
CheckAttach ==
    /\ Running("attach") \/ (Running("entry") /\ ~ElsewhereAttached(Top))
    /\ IF Attachable(objs, Top.dir, Top.obj)
       THEN LET attached == repair_semantic_check_attach(objs, Top.dir, Top.obj)
            IN  /\ objs' = Flag(attached, Top.obj, "traversed")
                /\ Return(IF "traversed" \in objs[Top.obj].flags THEN <<>> ELSE Walk(objs', Top.obj))
       ELSE /\ objs' = RemoveNames(objs, Top.dir, {Top.name})
            /\ Return(<<>>)
    /\ UNCHANGED <<phase, hash, damage>>

-----------------------------------------------------------------------------
(* Up the ".." of a directory.                                             *)

\* The entries of a directory are read until one names something else than
\* the object looked for, and there is always ".".
MissesLink(os, p, o) == \A x \in {p} \cup {os[p].ents[n] : n \in DOMAIN os[p].ents} : x = o

\* A broken Found(): an object the scan found is left when nothing is above it.
FoundAbove(os, call) ==
    LET ended == [o \in Oids |-> [os[o] EXCEPT !.flags = @ \ {"attaching"}]]
    IN  /\ objs' = ended
        /\ Return(IF call.cur # call.obj THEN <<[op |-> "link", obj |-> call.cur]>> ELSE <<>>)
        /\ UNCHANGED phase

\* Nothing more above: what was found highest is linked and walked, and what
\* the scan found also when there is nothing above it.
Found(os, call) ==
    LET ended == [o \in Oids |-> [os[o] EXCEPT !.flags = @ \ {"attaching"}]]
    IN  /\ objs' = ended
        /\ Return(IF call.cur # call.obj \/ call.scan
                  THEN <<[op |-> "link", obj |-> call.cur]>> ELSE <<>>)
        /\ UNCHANGED phase

\* A parent that is gone, on the way here already or lost+found is none; one
\* that is checked takes the object; any other is checked and its own parent
\* looked for.
UplinkTo(p) ==
    LET lost == repair_semantic_lost_name(Top.cur)
        checked == repair_semantic_check_struct(objs, p)
        linked == IF MissesLink(objs, p, Top.cur) THEN AddEntry(checked, p, lost, Top.cur) ELSE checked
    IN  IF \/ ~HasStat(objs, p)
           \/ "attaching" \in objs[p].flags
           \/ p = Lost
        THEN Found(Detach(objs, Top.cur), Top)
        ELSE IF "checked" \in objs[p].flags
        THEN IF MayAdd(objs, p, lost)
             THEN Found(repair_semantic_link_lost(objs, p, Top.cur), Top)
             ELSE Fail
        ELSE IF IsDir(p)
        THEN /\ objs' = Flag(linked, Top.cur, "attaching")
             /\ Return(<<[Top EXCEPT !.cur = p]>>)
             /\ UNCHANGED phase
        ELSE Fail

repair_semantic_uplink ==
    /\ Running("uplink")
    /\ IF objs[Top.cur].up = {} THEN Found(objs, Top)
       ELSE \E p \in objs[Top.cur].up : UplinkTo(p)
    /\ UNCHANGED <<hash, damage>>

\* repair_semantic_uptraverse(): what is not attached goes to lost+found,
\* where its name is free: names of that kind were removed first.
LinkUpper ==
    /\ Running("link")
    /\ IF "attached" \in objs[Top.obj].flags
       THEN Return(Walk(objs, Top.obj)) /\ UNCHANGED <<objs, phase>>
       ELSE /\ objs' = repair_semantic_link_lost(objs, Lost, Top.obj)
            /\ Return(Walk(objs', Top.obj))
            /\ UNCHANGED phase
    /\ UNCHANGED <<hash, damage>>

-----------------------------------------------------------------------------
(* The scan of the tree for objects no name led to.                        *)

Unreached == {o \in Oids : HasStat(objs, o) /\ "checked" \notin objs[o].flags}

EndOfWalk ==
    /\ phase = "walk" /\ stack = <<>>
    /\ phase' = "scan"
    /\ UNCHANGED <<objs, stack, hash, damage>>

\* cb_tree_scan(): the order is that of the keys, which follows from the
\* object ids; any order is one of some file system.
ScanObject ==
    /\ phase = "scan" /\ stack = <<>>
    /\ \E o \in Unreached :
        /\ objs' = repair_semantic_check_struct(objs, o)
        /\ stack' = <<[op |-> "uplink", obj |-> o, cur |-> o, scan |-> TRUE]>>
    /\ UNCHANGED <<phase, hash, damage>>

EndOfScan ==
    /\ phase = "scan" /\ stack = <<>> /\ Unreached = {}
    /\ phase' = "over"
    /\ UNCHANGED <<objs, stack, hash, damage>>

-----------------------------------------------------------------------------
(* The file systems the pass meets: a tree of directories with files in    *)
(* one or two of them, names from an earlier pass in lost+found, and then  *)
(* something lost or something that names the wrong object.                *)

Acyclic(parent) ==
    \A S \in SUBSET Dirs \ {{}} : \E o \in S : parent[o] \notin S

Trees ==
    {t \in [parent : [Dirs -> AllDirs],
            named : [Files -> {S \in SUBSET ({Root} \cup Dirs) : Cardinality(S) \in 1..2} \cup {{Lost}}]] :
        Acyclic(t.parent)}

\* "lost+found" and the names in it are on either side of the others, and what
\* is in it may have been given a name of its own since.
Hashes == {[lost |-> 0, found |-> 32, own |-> FALSE]} \cup [lost : {34}, found : {10}, own : BOOLEAN]

In(t, d, o) ==
    CASE o \in Dirs -> t.parent[o] = d
      [] o \in Files -> d \in t.named[o]
      [] OTHER -> o = Lost /\ d = Root

NameIn(d, o) == IF d = Lost /\ ~hash.own THEN repair_semantic_lost_name(o) ELSE Name(o)

Losses(t) ==
    {<<"sd", o>> : o \in Oids} \cup {<<"body", d>> : d \in AllDirs} \cup {<<"up", d>> : d \in AllDirs}
    \cup {<<"name", x[1], x[2]>> : x \in {y \in AllDirs \X Oids : In(t, y[1], y[2])}}

Mistakes(t) ==
    {<<"up_to", d, o>> : d \in AllDirs, o \in Oids}
    \cup {<<"name_to", x[1], x[2], x[3]>> :
            x \in {y \in AllDirs \X Oids \X Oids : In(t, y[1], y[2]) /\ y[2] # Lost /\ y[2] # y[3]}}

\* Something wrong comes alone, losses together.
Damages(t) ==
    {{}} \cup {{x} : x \in Mistakes(t)} \cup {S \in SUBSET Losses(t) : Cardinality(S) \in 1..MaxDamage}

Only(S) == CHOOSE x \in S : TRUE

Damaged(t, D) ==
    [o \in Oids |->
        LET named == IF <<"body", o>> \in D THEN {}
                     ELSE {x \in Oids : In(t, o, x) /\ <<"name", o, x>> \notin D}
            meant(n) == CHOOSE x \in named : NameIn(o, x) = n
            wrong(x) == {d \in D : d[1] = "name_to" /\ d[2] = o /\ d[3] = x}
            parent == IF o \in Dirs THEN t.parent[o] ELSE Root
            astray == {d[3] : d \in {e \in D : e[1] = "up_to" /\ e[2] = o}}
        IN  [sd    |-> <<"sd", o>> \notin D,
             up    |-> IF ~IsDir(o) \/ {<<"up", o>>, <<"body", o>>} \cap D # {} THEN {}
                       ELSE IF astray # {} THEN astray ELSE {parent},
             ents  |-> [n \in {NameIn(o, x) : x \in named} |->
                          IF wrong(meant(n)) = {} THEN meant(n) ELSE Only(wrong(meant(n)))[4]],
             nlink |-> 0,
             flags |-> {}]]

Init ==
    /\ phase = "root"
    /\ stack = <<>>
    /\ hash \in Hashes
    /\ \E t \in Trees :
        /\ damage \in Damages(t)
        /\ hash.own => Cardinality(damage) = 1 /\ \E o \in Oids : In(t, Lost, o)
        /\ objs = Damaged(t, damage)

Next ==
    \/ repair_semantic_root_prepare \/ repair_semantic_lost_prepare
    \/ VisitEntry \/ SearchParent \/ LeaveLost \/ CheckAttach \/ EndOfDirectory
    \/ repair_semantic_uplink \/ LinkUpper
    \/ EndOfWalk \/ ScanObject \/ EndOfScan

Spec == Init /\ [][Next]_vars /\ WF_vars(Next)

-----------------------------------------------------------------------------
(* Properties.                                                             *)

OnlyLosses == \A d \in damage : d[1] \notin {"name_to", "up_to"}

Subdirs(d) == {n \in DOMAIN objs[d].ents : IsDir(objs[d].ents[n])}

Children(d) == {objs[d].ents[n] : n \in DOMAIN objs[d].ents}

\* What is found below the root over at most n entries.
Below[n \in Nat] ==
    IF n = 0 THEN {Root} ELSE Below[n - 1] \cup UNION {Children(d) : d \in Below[n - 1]}

Reachable == Below[Cardinality(Oids)]

NamesOf(o) == {x \in Reachable \X (0..Behind) : HasName(objs, x[1], x[2]) /\ objs[x[1]].ents[x[2]] = o}

\* After the pass a check has nothing to complain about: every name that can
\* be reached names an object with stat data, and a directory only from the
\* one its ".." names (cb_object_traverse() and dir40_check_attach() in check
\* mode).  Whatever was damaged.
RecheckIsClean ==
    phase = "over" =>
        \A o \in Reachable : \A x \in NamesOf(o) :
            HasStat(objs, o) /\ (IsDir(o) => objs[o].up = {x[1]})

\* What was only lost is put together again: each object with stat data has a
\* name below the root, or is below a directory that has none but knows its
\* parent.  The code means to give such a directory a name in its parent and
\* does not (repair_semantic_uplink()); but nothing is without both.
NothingCutOff ==
    LET Known[n \in Nat] ==
            IF n = 0 THEN {Root}
            ELSE Known[n - 1] \cup UNION {Children(d) \cup {o \in AllDirs : objs[o].up = {d}} : d \in Known[n - 1]}
    IN  phase = "over" /\ OnlyLosses => \A o \in Oids : HasStat(objs, o) => o \in Known[Cardinality(Oids)]

\* A link is counted for each name, and in a directory for "." and each
\* directory in it: never one too few, which would let an object be erased
\* that still has a name, and exactly when no ".." was lost.  (An object that
\* loses its ".." may be found before its parent is, and is then walked twice.)
LinksCounted ==
    LET Links(o) == Cardinality(NamesOf(o))
                    + (IF IsDir(o) THEN 1 + Cardinality(Subdirs(o)) ELSE 0)
                    + (IF o = Root THEN 2 ELSE 0)
    IN  phase = "over" /\ OnlyLosses =>
            \A o \in Reachable :
                /\ objs[o].nlink >= Links(o)
                /\ (\A d \in damage : d[1] # "up") => objs[o].nlink = Links(o)

\* The pass comes to its end when things are only lost.  (With a name or ".."
\* astray it may be given up, or read the last entry of a directory for ever.)
Finishes == OnlyLosses => <>(phase = "over")

=============================================================================
