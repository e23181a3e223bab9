------------------------------- MODULE Objects -------------------------------
(***************************************************************************)
(* Objects of the file system and the programs that make, link, remove,    *)
(* write and truncate them: libreiser4's object and semantic layers over   *)
(* the dir40, reg40 and sym40 plugins.  An operation may fail at any call  *)
(* that changes the tree and then undoes what it did, as far as the code   *)
(* does.  One handle reads the root directory entry by entry between the   *)
(* operations.                                                             *)
(***************************************************************************)
EXTENDS Directory, FiniteSets, TLC

CONSTANTS Names,        \* names the programs use
          Foreign,      \* names of one file the kernel made, with one key
          MaxOid,       \* bound of the object ids handed out
          MaxSize,      \* bound of a file's size, in units
          BlockSize,    \* units in a block, which extents have whole
          TailMax,      \* greatest size the policy keeps in tails
          CutMax,       \* greatest number of units one call cuts: 2^32 - 1
          MaxFaults,    \* bound of the calls that fail
          Scenes        \* bound of what is combined with making and removing
                        \* objects: failing calls ("names"), reading a directory
                        \* ("scan"), or writing files while few are made ("files")

ASSUME ObjectsAssumption ==
    /\ Names \cup Foreign \cup {".", ".."} \subseteq DOMAIN KeyOf
    /\ \A n \in DOMAIN KeyOf : KeyOf["."] <= KeyOf[n]
    /\ {BlockSize, TailMax, CutMax, MaxSize} \subseteq Nat \ {0}

VARIABLES objs,         \* object id -> the object's items
          oid,          \* the object id allocator: the next id
          scan,         \* the handle that reads the root directory
          faults,       \* calls that failed
          scene         \* which bound this behaviour is in

vars == <<objs, oid, scan, faults, scene>>

Oids == 0..MaxOid
Root == 0

NoObject == [kind |-> "none", nlink |-> 0, size |-> 0, ents |-> <<>>,
             body |-> {}, form |-> "tail", broke |-> "no"]

Exists(os, o) == os[o].kind # "none"
IsDir(os, o) == os[o].kind = "dir"

-----------------------------------------------------------------------------
(* Stat data and directory entries: what a call makes of all objects, and  *)
(* whether it succeeded.                                                   *)

Result(ok, os) == [ok |-> ok, os |-> os]

\* obj40_link() and obj40_unlink()
obj40_inc_link(os, o, value) == [os EXCEPT ![o].nlink = @ + value]

obj40_create_stat(kind, size, nlink) ==
    [NoObject EXCEPT !.kind = kind, !.size = size, !.nlink = nlink]

\* A new directory has "." and the link it makes.
dir40_create(o) == [obj40_create_stat("dir", 1, 1) EXCEPT !.ents = <<Entry(".", o)>>]

reg40_create == obj40_create_stat("reg", 0, 0)

sym40_create == obj40_create_stat("sym", 1, 0)

reiser4_object_create(kind, o) ==
    CASE kind = "dir" -> dir40_create(o)
      [] kind = "reg" -> reg40_create
      [] OTHER -> sym40_create

\* The size of a directory is the number of its entries.
obj40_touch(os, d, size) == [os EXCEPT ![d].size = @ + size]

dir40_add_entry(os, d, name, o) ==
    {IF r.found
     THEN Result(FALSE, os)
     ELSE Result(TRUE, obj40_touch([os EXCEPT ![d].ents = InsertAt(@, r.pos, Entry(name, o))], d, 1)) :
        r \in Search(os[d].ents, name)}

dir40_rem_entry(os, d, name) ==
    {IF r.found
     THEN Result(TRUE, obj40_touch([os EXCEPT ![d].ents = RemoveAt(@, r.pos)], d, 0 - 1))
     ELSE Result(FALSE, os) :
        r \in Search(os[d].ents, name)}

\* What is done when a call succeeded, and what when it did not.
Then(results, Go(_), Undo(_)) ==
    UNION {IF r.ok THEN Go(r.os) ELSE Undo(r.os) : r \in results}

Failed(os) == {Result(FALSE, os)}
Done(os) == {Result(TRUE, os)}
FailedAfter(results) == {Result(FALSE, r.os) : r \in results}

\* Attaching a directory to its parent: ".." and a link of the parent.
dir40_attach(os, c, p, fault) ==
    IF fault = "dotdot" THEN Failed(os)
    ELSE Then(dir40_add_entry(os, c, "..", p),
              LAMBDA new : Done(obj40_inc_link(new, p, 1)), Failed)

reiser4_object_attach(os, c, p, fault) ==
    IF IsDir(os, c) THEN dir40_attach(os, c, p, fault) ELSE Done(os)

\* A missing ".." is no error.
dir40_detach(os, c, p, fault) ==
    IF fault = "dotdot" THEN Failed(os)
    ELSE {Result(TRUE, obj40_inc_link(r.os, p, 0 - 1)) : r \in dir40_rem_entry(os, c, "..")}

reiser4_object_detach(os, c, p, fault) ==
    IF IsDir(os, c) THEN dir40_detach(os, c, p, fault) ELSE Done(os)

\* A broken reiser4_object_link(): the child keeps the link when it cannot be
\* attached.
LinkKept(os, p, c, name, fault) ==
    LET Attached(new) ==
            Then(reiser4_object_attach(obj40_inc_link(new, c, 1), c, p, fault), Done,
                 LAMBDA old : FailedAfter(dir40_rem_entry(old, p, name)))
        Linked(new) ==
            IF fault = "link" THEN FailedAfter(dir40_rem_entry(new, p, name)) ELSE Attached(new)
    IN  IF fault = "entry" THEN Failed(os)
        ELSE Then(dir40_add_entry(os, p, name, c), Linked, Failed)

\* An entry in the parent, a link of the child, its attachment; undone in
\* the opposite order.
reiser4_object_link(os, p, c, name, fault) ==
    LET Attached(new) ==
            Then(reiser4_object_attach(obj40_inc_link(new, c, 1), c, p, fault), Done,
                 LAMBDA old : FailedAfter(dir40_rem_entry(obj40_inc_link(old, c, 0 - 1), p, name)))
        Linked(new) ==
            IF fault = "link" THEN FailedAfter(dir40_rem_entry(new, p, name)) ELSE Attached(new)
    IN  IF fault = "entry" THEN Failed(os)
        ELSE Then(dir40_add_entry(os, p, name, c), Linked, Failed)

\* Taking a child out of its parent.  "." and ".." are refused.
reiser4_object_unlink(os, p, name, fault) ==
    LET Removed(c, new) ==
            IF fault = "rem"
            THEN FailedAfter(reiser4_object_attach(obj40_inc_link(new, c, 1), c, p, fault))
            ELSE dir40_rem_entry(new, p, name)
        Unlinked(c, new) ==
            IF fault = "unlink"
            THEN FailedAfter(reiser4_object_attach(new, c, p, fault))
            ELSE Removed(c, obj40_inc_link(new, c, 0 - 1))
        Victim(c) ==
            IF Exists(os, c)
            THEN Then(reiser4_object_detach(os, c, p, fault),
                      LAMBDA new : Unlinked(c, new), Failed)
            ELSE Failed(os)
    IN  UNION {IF r.found /\ os[p].ents[r.pos].name \notin {".", ".."}
               THEN Victim(os[p].ents[r.pos].obj)
               ELSE Failed(os) :
                 r \in Search(os[p].ents, name)}

\* A directory counts as linked unless "." is its only link, but is erased
\* only while it has another one.
dir40_linked(os, o) == os[o].nlink # 1

obj40_linked(os, o) == os[o].nlink # 0

reiser4_linked(os, o) == IF IsDir(os, o) THEN dir40_linked(os, o) ELSE obj40_linked(os, o)

\* The stat data goes, and with it the last of the object.
obj40_clobber(os, o) == [os EXCEPT ![o] = NoObject]

dir40_clobber(os, o) == IF os[o].nlink # 2 THEN os ELSE obj40_clobber(os, o)

\* The body of a file goes before its stat data, which may fail to go.
reg40_clobber(os, o, fault) ==
    IF fault = "erase"
    THEN [os EXCEPT ![o].size = 0, ![o].body = {}]
    ELSE obj40_clobber(os, o)

sym40_clobber(os, o) == obj40_clobber(os, o)

reiser4_object_clobber(os, o, fault) ==
    CASE os[o].kind = "dir" -> dir40_clobber(os, o)
      [] os[o].kind = "reg" -> reg40_clobber(os, o, fault)
      [] OTHER -> sym40_clobber(os, o)

-----------------------------------------------------------------------------
(* Paths.  A symlink names the root directory and is followed.             *)

\* The objects a path leads to: those named in directories a path leads to.
Openable ==
    LET Step(s) == s \cup UNION {{objs[d].ents[i].obj : i \in DOMAIN objs[d].ents} : d \in s}
        after[i \in 0..MaxOid] == IF i = 0 THEN {Root} ELSE Step(after[i - 1])
    IN  {o \in after[MaxOid] : Exists(objs, o)}

sym40_follow == Root

reiser4_semantic_open(o) == IF objs[o].kind = "sym" THEN sym40_follow ELSE o

Parents == {o \in Openable : objs[o].kind = "dir"}

-----------------------------------------------------------------------------
(* The handle that reads the root directory.                               *)

\* What an operation makes of the handle, which is the one it works with.
HandleAfter(os, new) ==
    LET gone == ToSet(os[Root].ents) \ ToSet(new[Root].ents)
        p == IF gone = {} THEN scan.position
             ELSE PositionKept(scan.position, CHOOSE e \in gone : TRUE)
    IN  [scan EXCEPT !.position = p, !.stay = @ \cap NamesIn(new[Root].ents)]

StartScan ==
    /\ scene = "scan" /\ scan.state # "reading"
    /\ scan' = [state |-> "reading", position |-> dir40_reset, met |-> {},
                stay |-> NamesIn(objs[Root].ents)]
    /\ UNCHANGED <<objs, oid, faults, scene>>

dir40_readdir ==
    /\ scan.state = "reading"
    /\ LET d == objs[Root].ents
           i == obj40_update_body(d, scan.position)
       IN  scan' = IF i > Len(d)
                   THEN [scan EXCEPT !.state = "over"]
                   ELSE [scan EXCEPT !.met = @ \cup {d[i].name},
                                     !.position = PositionAfter(d, scan.position, i)]
    /\ UNCHANGED <<objs, oid, faults, scene>>

-----------------------------------------------------------------------------
(* The programs.                                                           *)

\* At most one call of an operation fails.
Fault(f) == faults' = IF f = "none" THEN faults ELSE faults + 1

Faults(kinds) == {"none"} \cup IF faults < MaxFaults /\ scene # "scan" THEN kinds ELSE {}

Becomes(os) == objs' = os /\ scan' = HandleAfter(objs, os)

\* The id is taken before anything is made and not given back.
oid40_allocate == oid' = oid + 1

reiser4_obj_create(p, name, kind, fault) ==
    /\ oid <= CASE scene = "names" -> MaxOid [] scene = "scan" -> MaxOid - 1 [] OTHER -> 2
    /\ oid40_allocate
    /\ UNCHANGED scene
    /\ Fault(fault)
    /\ IF fault = "stat"
       THEN Becomes(objs)
       ELSE \E r \in reiser4_object_link([objs EXCEPT ![oid] = reiser4_object_create(kind, oid)],
                                         p, oid, name, fault) :
               Becomes(IF r.ok THEN r.os ELSE reiser4_object_clobber(r.os, oid, "none"))

create_cmd ==
    \E p \in Parents, name \in Names, kind \in {"dir", "reg", "sym"},
       fault \in Faults({"stat", "entry", "link", "dotdot"}) :
        /\ fault = "dotdot" => kind = "dir"
        /\ reiser4_obj_create(p, name, kind, fault)

\* A second link; a directory has a ".." already and is not attached again.
ln_cmd ==
    \E o \in Openable, p \in Parents, name \in Names, fault \in Faults({"entry", "link"}) :
        /\ \E r \in Search(objs[p].ents, name) : ~r.found
        /\ \E r \in reiser4_object_link(objs, p, reiser4_semantic_open(o), name, fault) :
              Becomes(r.os)
        /\ Fault(fault)
        /\ UNCHANGED <<oid, scene>>

\* The object is opened by its path and the entry removed by its name.
rm_cmd ==
    \E p \in Parents, name \in Names, fault \in Faults({"dotdot", "unlink", "rem", "erase"}) :
        /\ \E r \in Search(objs[p].ents, name), u \in reiser4_object_unlink(objs, p, name, fault) :
              LET o == reiser4_semantic_open(objs[p].ents[r.pos].obj)
              IN  /\ r.found
                  /\ fault = "dotdot" => IsDir(objs, o)
                  /\ Becomes(IF u.ok /\ ~reiser4_linked(u.os, o)
                             THEN reiser4_object_clobber(u.os, o, fault) ELSE u.os)
        /\ Fault(fault)
        /\ UNCHANGED <<oid, scene>>

-----------------------------------------------------------------------------
(* Regular files.  A body is the set of its units in the tree; extents     *)
(* have whole blocks.                                                      *)

Files == {o \in Openable : scene = "files" /\ objs[o].kind = "reg"}

smart_tails(size) == size <= TailMax

reg40_policy_plug(size) == IF smart_tails(size) THEN "tail" ELSE "extent"

\* The plugin of the body an open file goes on with.
reg40_open(reg) == IF reg.body = {} THEN reg40_policy_plug(0) ELSE reg.form

UpToBlock(n) == ((n + BlockSize - 1) \div BlockSize) * BlockSize

\* The units that writing from a up to b gives the tree: tails as many as
\* are written, extents whole blocks.
extent40_write_units(a, b) == ((a \div BlockSize) * BlockSize)..(UpToBlock(b) - 1)

reiser4_flow_write(plug, a, b) ==
    IF a < b /\ plug = "extent" THEN extent40_write_units(a, b) ELSE a..(b - 1)

\* A broken extent40_trunc_units(): the block that n lies in is cut too.
TruncWithBlock(n, m) == ((n \div BlockSize) * BlockSize)..(m - 1)

\* The units of n up to m that are cut: extents keep the block n lies in.
extent40_trunc_units(n, m) == UpToBlock(n)..(m - 1)

tail40_trunc_units(n, m) == n..(m - 1)

\* One call cuts as much as its 32 bit counter can tell.
reiser4_flow_cut(plug, n, m) ==
    IF plug = "extent" THEN extent40_trunc_units(n, Min({m, n + CutMax}))
    ELSE tail40_trunc_units(n, Min({m, n + CutMax}))

reiser4_flow_read(reg, n) == reg.body \cap 0..(n - 1)

Worse(reg, how) == IF reg.broke = "lost" THEN "lost" ELSE how

(***************************************************************************)
(* Conversion between tails and extents, block by block: read, cut, write. *)
(* Whole blocks are read, so tails made of extents are as long.  A write   *)
(* that fails loses the block that was cut.                                *)
(***************************************************************************)
reiser4_flow_convert(reg, plug) ==
    LET read == reiser4_flow_read(reg, UpToBlock(reg.size))
    IN  [reg EXCEPT !.body = (@ \ read) \cup reiser4_flow_write(plug, 0, Cardinality(read)),
                    !.form = plug]

FlowConvertFails(reg, plug, block) ==
    [reg EXCEPT !.body = @ \ (block * BlockSize)..(block * BlockSize + BlockSize - 1),
                !.form = IF block = 0 THEN @ ELSE plug, !.broke = "lost"]

reg40_check_body(reg, plug, size, fault) ==
    LET new == reg40_policy_plug(size)
    IN  IF size = 0 \/ new = plug THEN {reg}
        ELSE IF fault = "convert"
        THEN {FlowConvertFails(reg, new, b) : b \in 0..((reg.size - 1) \div BlockSize)}
        ELSE {reiser4_flow_convert(reg, new)}

(***************************************************************************)
(* Writing n units at offset off: first the hole between the size and the  *)
(* offset, then the data.  done units get into the tree; an error keeps    *)
(* the size, a short write of the hole is returned without a conversion.   *)
(***************************************************************************)
reg40_write(reg, off, n, done, fault) ==
    LET plug == reg40_open(reg)
        from == Min({off, reg.size})
        hole == off - from
        put == [reg EXCEPT !.body = @ \cup reiser4_flow_write(plug, from, from + done),
                           !.form = plug,
                           !.broke = IF done < hole + n THEN Worse(reg, "write") ELSE @]
        saved == [put EXCEPT !.size = IF from + done > @ THEN from + done ELSE @]
    IN  IF fault = "write" THEN {put}
        ELSE IF done < hole THEN {saved}
        ELSE reg40_check_body(saved, plug, saved.size, fault)

WriteFile ==
    \E o \in Files, off \in 0..(MaxSize - 1), n \in 1..MaxSize,
       fault \in Faults({"write", "convert", "short"}) :
        /\ off + n <= MaxSize
        /\ \E done \in 0..(off + n - Min({off, objs[o].size})) :
             /\ fault \in {"write", "short"} \equiv done < off + n - Min({off, objs[o].size})
             /\ \E reg \in reg40_write(objs[o], off, n, done, fault) :
                  Becomes([objs EXCEPT ![o] = reg])
        /\ Fault(fault)
        /\ UNCHANGED <<oid, scene>>

(***************************************************************************)
(* Truncating to size n.  A file that grows gets its new size even if the  *)
(* write was short; one that shrinks is cut behind n.                      *)
(***************************************************************************)
obj40_truncate(reg, plug, n, done) ==
    CASE n > reg.size ->
            [reg EXCEPT !.body = @ \cup reiser4_flow_write(plug, reg.size, reg.size + done), !.form = plug]
      [] n < reg.size -> [reg EXCEPT !.body = @ \ reiser4_flow_cut(plug, n, n + done)]
      [] OTHER -> reg

reg40_truncate(reg, n, done, fault) ==
    LET plug == reg40_open(reg)
        moved == obj40_truncate(reg, plug, n, done)
        short == n > reg.size /\ done < n - reg.size
    IN  IF fault = "write"
        THEN {[moved EXCEPT !.broke = IF n > reg.size THEN Worse(reg, "write") ELSE "lost"]}
        ELSE reg40_check_body([moved EXCEPT !.size = n, !.broke = IF short THEN "lost" ELSE @],
                              plug, n, fault)

trunc_cmd ==
    \E o \in Files, n \in 0..MaxSize, fault \in Faults({"write", "convert", "short"}) :
        /\ \E done \in 0..UpToBlock(MaxSize) :
             /\ IF fault = "write" \/ (fault = "short" /\ n > objs[o].size)
                THEN done < IF n > objs[o].size THEN n - objs[o].size ELSE objs[o].size - n
                ELSE done = IF n > objs[o].size THEN n - objs[o].size
                            ELSE UpToBlock(MaxSize)   \* all that there can be
             /\ \E reg \in reg40_truncate(objs[o], n, done, fault) :
                  Becomes([objs EXCEPT ![o] = reg])
        /\ Fault(fault)
        /\ UNCHANGED <<oid, scene>>

-----------------------------------------------------------------------------
\* The root as mkfs makes it: created, linked to itself and attached to
\* itself; and a file of the kernel's with two names of one key.
MadeRoot ==
    [dir40_create(Root) EXCEPT !.nlink = 3]

RootEntries ==
    SortSeq(<<Entry(".", Root), Entry("..", Root)>> \o SetToSeq({Entry(n, 1) : n \in Foreign}),
            LAMBDA e, f : e.key < f.key)

Init ==
    /\ objs = [o \in Oids |->
                 CASE o = Root -> [MadeRoot EXCEPT !.ents = RootEntries,
                                                   !.size = Len(RootEntries)]
                   [] o = 1 /\ Foreign # {} ->
                        [reg40_create EXCEPT !.nlink = Cardinality(Foreign)]
                   [] OTHER -> NoObject]
    /\ oid = IF Foreign = {} THEN 1 ELSE 2
    /\ scan = [state |-> "closed", position |-> dir40_reset, met |-> {}, stay |-> {}]
    /\ faults = 0
    /\ scene \in Scenes

Next == create_cmd \/ ln_cmd \/ rm_cmd \/ WriteFile \/ trunc_cmd \/ StartScan \/ dir40_readdir

Spec == Init /\ [][Next]_vars

-----------------------------------------------------------------------------
Directories == {o \in Oids : IsDir(objs, o)}

EntriesNaming(o) ==
    UNION {{<<d, i>> : i \in {k \in DOMAIN objs[d].ents : objs[d].ents[k].obj = o}} : d \in Directories}

\* The entries below the root name a directory from where its ".." leads, and
\* from there only.
ParentExact ==
    \A c \in Directories \ {Root} :
        {objs[c].ents[i].obj : i \in {k \in DOMAIN objs[c].ents : objs[c].ents[k].name = ".."}}
        = {d \in Directories : \E i \in DOMAIN objs[d].ents :
              objs[d].ents[i].obj = c /\ objs[d].ents[i].name \notin {".", ".."}}

\* After every operation, and every one that failed and was undone, the links
\* an object counts are the entries that name it, of which the root, linked to
\* itself by mkfs, counts one more; so no entry names an erased object.  A
\* directory's size is the number of its entries, which are ordered and unique,
\* and its ".." names the one directory that has an entry for it.
CountsExact ==
    /\ \A o \in Oids : objs[o].nlink = Cardinality(EntriesNaming(o)) + (IF o = Root THEN 1 ELSE 0)
    /\ \A d \in Directories :
          /\ objs[d].size = Len(objs[d].ents)
          /\ Cardinality(NamesIn(objs[d].ents)) = Len(objs[d].ents)
          /\ \A i \in 2..Len(objs[d].ents) : objs[d].ents[i - 1].key <= objs[d].ents[i].key
    /\ ParentExact

\* An entry that stays in the directory while it is read, by dir40_readdir(),
\* is returned, whatever is added and removed around it and however many
\* names have its key.
NoneMissed == scan.state = "over" => scan.stay \subseteq scan.met

\* A file whose operations succeeded has in the tree just its units, up to a
\* whole block, in the form its policy wants for its size; one on which a
\* write failed still has all units up to its size.
FileExact ==
    \A o \in Oids : objs[o].kind = "reg" =>
        LET reg == objs[o] IN
        /\ reg.broke # "lost" => 0..(reg.size - 1) \subseteq reg.body
        /\ reg.broke = "no" => reg.body \subseteq 0..(UpToBlock(reg.size) - 1)
        /\ reg.broke = "no" /\ reg.size > 0 => reg.form = reg40_policy_plug(reg.size)
=============================================================================
