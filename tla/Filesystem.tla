----------------------------- MODULE Filesystem -----------------------------
(***************************************************************************)
(* mkfs.reiser4 and fsck.reiser4 over the whole of a device: how a file    *)
(* system is made, opened, repaired and closed, and in which order its     *)
(* parts reach the device.  Every block is written by a step of its own    *)
(* and the power may fail between any two of them; blocks may be damaged   *)
(* while no program runs.                                                  *)
(*                                                                         *)
(* The device (dev) has a master, a format super block, a status block, an *)
(* allocator map, a tree, a journal that is empty or holds one committed   *)
(* transaction with a copy of the format super block, and the places of    *)
(* the backup copies.  Tree and map carry the generation, the number of    *)
(* the mkfs that made them; the root of a format super block is the        *)
(* generation of the tree it points to, InvalBlk, or garbage.  counts says *)
(* whether the free blocks and object ids of the format are right.  The    *)
(* passes over the tree are Repair.tla's; here they are what they promise. *)
(***************************************************************************)
EXTENDS SuperBlocks

CONSTANTS
  Lens,         \* the sizes mkfs is asked for
  MaxTrouble    \* how much may happen to the device, see Trouble

ASSUME InstanceAssumption ==
  /\ Lens \subseteq MinLen..DevLen
  /\ MaxTrouble \in Nat /\ 2 * MaxTrouble < DevLen - MinLen
  /\ MaxTrouble < 49   \* what is damaged, from 100 on, is no number of an mkfs

VARIABLES
  dev,      \* what is on the device
  fs,       \* the handle of the program that runs
  pc,       \* what it does next
  job,      \* which program it is, with the modes of fsck
  todo,     \* the blocks reiser4_fs_sync() still has to write
  err,      \* the errors fsck has counted
  report,   \* what the last program said when it ended
  truth,    \* the backup of the file system the last completed mkfs made
  hurt,     \* blocks damaged and not written since
  trust,    \* whether fsck opened a device it can be expected to know: known,
            \* unknown, or scratch when it had nothing to go by
  gen, damages, crashes

vars == <<dev, fs, pc, job, todo, err, report, truth, hurt, trust, gen,
          damages, crashes>>

Modes == {[sb |-> CHECK, fs |-> CHECK], [sb |-> FIX, fs |-> FIX],
          [sb |-> BUILD, fs |-> CHECK], [sb |-> CHECK, fs |-> BUILD],
          [sb |-> BUILD, fs |-> BUILD]}

Checking == [sb |-> CHECK, fs |-> CHECK]

Places == BackupLayout(DevLen)
NoTx   == None

\* The bound: crashes, further calls of mkfs and damages, where the n-th of a
\* kind weighs n
Upto(n) == (n * (n + 1)) \div 2
Trouble == Upto(crashes) + Upto(gen - 1) + Upto(damages)

\* A block the programs write by name, and the copy at a place
Part(name) == [part |-> name, at |-> 0]
CopyAt(p)  == [part |-> "copy", at |-> p]

-----------------------------------------------------------------------------
(* The device after a completed mkfs of generation g *)

format40_create(g, len, version) ==
  [magic |-> TRUE, len |-> len, mkid |-> g, policy |-> g, flags |-> g,
   version |-> version, upd |-> FALSE, root |-> g, counts |-> TRUE]

reiser4_master_create(g) ==
  [magic |-> TRUE, blksize |-> 1, pid |-> Fmt40, uuid |-> g, label |-> g]

reiser4_status_create == [magic |-> TRUE, state |-> "ok"]

MadeTree(g) == [gen |-> g, rootdir |-> TRUE, pset |-> g]

\* The first file system may have been made by older programs and brought to
\* this release by the kernel, which asks for the backup to be updated; and
\* it may have a transaction to replay.
Init ==
  \E len \in Lens, old \in BOOLEAN, tx \in BOOLEAN :
    LET made    == format40_create(1, len, Release)
        format  == [made EXCEPT !.upd = old]
        backup  == reiser4_fs_backup(reiser4_master_create(1), made, 1)
    IN  /\ dev = [master  |-> reiser4_master_create(1),
                  format  |-> IF tx THEN [format EXCEPT !.root = 0] ELSE format,
                  status  |-> reiser4_status_create,
                  alloc   |-> [gen |-> 1, crc |-> TRUE],
                  tree    |-> MadeTree(1),
                  journal |-> IF tx THEN format ELSE NoTx,
                  copy    |-> [p \in Places |->
                                 IF p \notin BackupLayout(len) THEN None
                                 ELSE IF old THEN [backup EXCEPT !.version = 0,
                                                                 !.pset = 0]
                                             ELSE backup]]
        /\ ~(old /\ tx)
        /\ truth = backup
        /\ fs = None /\ pc = "idle" /\ job = [sb |-> "none", fs |-> "none"]
        /\ todo = <<>> /\ err = {} /\ report = "none"
        /\ hurt = {} /\ trust = "unknown"
        /\ gen = 1 /\ damages = 0 /\ crashes = 0

-----------------------------------------------------------------------------
(* Damage: a field of one block becomes a value nothing else has *)

Bad     == 100 + damages
BadLens == {MinLen + damages, DevLen - damages}

DamagedMaster ==
  {[dev.master EXCEPT !.magic = FALSE], [dev.master EXCEPT !.blksize = 0],
   [dev.master EXCEPT !.blksize = 2], [dev.master EXCEPT !.pid = Bad],
   [dev.master EXCEPT !.uuid = Bad], [dev.master EXCEPT !.label = Bad]}

DamagedFormat ==
  {[dev.format EXCEPT !.magic = FALSE],
   [dev.format EXCEPT !.magic = FALSE, !.root = Bad],
   [dev.format EXCEPT !.len = DevLen + 1], [dev.format EXCEPT !.mkid = Bad],
   [dev.format EXCEPT !.policy = Bad], [dev.format EXCEPT !.flags = Bad],
   [dev.format EXCEPT !.version = Release + Bad, !.upd = FALSE],
   [dev.format EXCEPT !.root = Bad]}
  \cup {[dev.format EXCEPT !.len = l] : l \in BadLens}

\* (a copy of version 0 has no plugin set to damage)
DamagedCopy(b) ==
  {None, [b EXCEPT !.uuid = Bad], [b EXCEPT !.mkid = Bad],
   [b EXCEPT !.version = Release + Bad],
   [b EXCEPT !.pset = IF b.version = 0 THEN 0 ELSE Bad]}
  \cup {[b EXCEPT !.len = l] : l \in BadLens}

MayDamage == pc = "idle" /\ Trouble + damages + 1 <= MaxTrouble

Damaged(part, block) ==
  /\ damages' = damages + 1
  /\ hurt' = hurt \cup {part}
  /\ report' = "none"
  /\ dev' = block
  /\ dev' # dev
  /\ UNCHANGED <<fs, pc, job, todo, err, truth, trust, gen, crashes>>

DamageMaster ==
  /\ MayDamage /\ dev.master.magic
  /\ \E m \in DamagedMaster : Damaged(Part("master"), [dev EXCEPT !.master = m])

DamageFormat ==
  /\ MayDamage /\ dev.format.magic
  /\ \E f \in DamagedFormat : Damaged(Part("format"), [dev EXCEPT !.format = f])

DamageCopy ==
  /\ MayDamage
  /\ \E p \in {q \in Places : dev.copy[q].magic} :
       \E b \in DamagedCopy(dev.copy[p]) :
         Damaged(CopyAt(p), [dev EXCEPT !.copy[p] = b])

DamageStatus ==
  MayDamage /\ Damaged(Part("status"), [dev EXCEPT !.status.magic = FALSE])

DamageMap ==
  MayDamage /\ Damaged(Part("alloc"), [dev EXCEPT !.alloc.crc = FALSE])

-----------------------------------------------------------------------------
(* reiser4_fs_sync() *)

\* the copies of a file system of len blocks, from the first to the last
CopyPlaces(len) ==
  LET places == BackupLayout(len)
  IN  [i \in 1..Cardinality(places) |->
         CopyAt(CHOOSE p \in places : Cardinality({q \in places : q < p}) = i - 1)]

\* The blocks to write, in the order the parts are synchronized
SyncOrder(h) ==
  LET One(part) == IF part \in h.dirty THEN <<Part(part)>> ELSE <<>>
  IN  One("tree") \o One("journal") \o One("alloc")
        \o (IF "backup" \in h.dirty THEN CopyPlaces(h.format.len) ELSE <<>>)
        \o One("format") \o One("status") \o One("master")

format40_sync(d, h)        == [d EXCEPT !.format = h.format]
reiser4_status_sync(d, h)  == [d EXCEPT !.status = h.status]
reiser4_master_sync(d, h)  == [d EXCEPT !.master = h.master]
cb_write_backup(d, h, p)   == [d EXCEPT !.copy[p] = h.backup]

Written(d, h, w) ==
  CASE w.part = "tree"    -> [d EXCEPT !.tree = h.tree]
    [] w.part = "journal" -> [d EXCEPT !.journal = NoTx]
    [] w.part = "alloc"   -> [d EXCEPT !.alloc = [h.alloc EXCEPT !.crc = TRUE]]
    [] w.part = "format"  -> format40_sync(d, h)
    [] w.part = "status"  -> reiser4_status_sync(d, h)
    [] w.part = "master"  -> reiser4_master_sync(d, h)
    [] w.part = "copy"    -> cb_write_backup(d, h, w.at)

Write ==
  /\ todo # <<>>
  /\ dev' = Written(dev, fs, Head(todo))
  /\ hurt' = IF job.sb = CHECK THEN hurt ELSE hurt \ {Head(todo)}
  /\ todo' = Tail(todo)
  /\ UNCHANGED <<fs, pc, job, err, report, truth, trust, gen, damages, crashes>>

\* Start to synchronize; the parts are clean from then on.
Sync(h, next) ==
  /\ todo' = SyncOrder(h)
  /\ fs' = [h EXCEPT !.dirty = {}]
  /\ pc' = next

\* The power fails: the handle is lost, the device keeps what was written.
Crash ==
  /\ pc # "idle" /\ Trouble + crashes + 1 <= MaxTrouble
  /\ crashes' = crashes + 1
  /\ pc' = "idle" /\ fs' = None /\ todo' = <<>> /\ err' = {}
  /\ UNCHANGED <<dev, job, report, truth, hurt, trust, gen, damages>>

-----------------------------------------------------------------------------
(* mkfs.reiser4 *)

\* Mutant: format40_create() leaves the blocks before its own alone
ClobberedNothing(d) == d

\* format40_clobber_block() on everything before the format super block, the old
\* master included
Clobbered(d) == [d EXCEPT !.master = None]

\* reiser4_fs_create(); format40_create() clobbers before anything is written
Mkfs ==
  /\ pc = "idle" /\ Trouble + gen <= MaxTrouble
  /\ \E len \in Lens :
       fs' = [magic   |-> TRUE,
              master  |-> reiser4_master_create(gen + 1),
              format  |-> [format40_create(gen + 1, len, Release) EXCEPT
                             !.root = InvalBlk],
              status  |-> reiser4_status_create,
              alloc   |-> [gen |-> gen + 1, crc |-> TRUE],
              tree    |-> [gen |-> 0, rootdir |-> FALSE, pset |-> 0],
              backup  |-> None,
              dirty   |-> {"journal", "alloc", "format", "status", "master"}]
  /\ gen' = gen + 1
  /\ dev' = Clobbered(dev)
  /\ pc' = "mkfs" /\ job' = [sb |-> "mkfs", fs |-> "mkfs"]
  /\ truth' = None /\ report' = "none"
  /\ UNCHANGED <<todo, err, hurt, trust, damages, crashes>>

\* with the root directory, its plugin set and the backup
Filled(h) ==
  LET format == [h.format EXCEPT !.root = gen]
  IN  [h EXCEPT !.tree = MadeTree(gen), !.format = format,
                !.backup = reiser4_fs_backup(h.master, format, gen),
                !.dirty = @ \cup {"tree", "backup"}]

\* reiser4_fs_close() of all of it
MkfsFill ==
  /\ pc = "mkfs"
  /\ Sync(Filled(fs), "made")
  /\ UNCHANGED <<dev, job, err, report, truth, hurt, trust, gen, damages,
                 crashes>>

\* error_free_fs: the journal, the root, its link to itself or the lost+found
\* directory could not be made; what there is is closed, and so synchronized.
MkfsFails ==
  /\ pc = "mkfs"
  /\ LET rooted == [fs EXCEPT !.tree = [MadeTree(gen) EXCEPT !.rootdir = FALSE],
                               !.format.root = gen,
                               !.dirty = @ \cup {"tree"}]
     IN  \E h \in {fs, rooted, Filled(fs)} : Sync(h, "failed")
  /\ UNCHANGED <<dev, job, err, report, truth, hurt, trust, gen, damages,
                 crashes>>

MkfsEnds ==
  /\ pc \in {"made", "failed"} /\ todo = <<>>
  /\ truth' = IF pc = "made" THEN fs.backup ELSE None
  /\ hurt' = IF pc = "made" THEN {} ELSE hurt
  /\ pc' = "idle" /\ fs' = None
  /\ UNCHANGED <<dev, job, todo, err, report, trust, gen, damages, crashes>>

-----------------------------------------------------------------------------
(* fsck.reiser4 *)

\* a status block that is lost is made anew
repair_status_open(d) ==
  IF reiser4_status_open(d) THEN d.status ELSE reiser4_status_create

\* repair_status_state(): what fsck will leave in the status block
repair_status_state(errors) ==
  IF "fatal" \in errors THEN "damaged"
  ELSE IF errors # {} THEN "corrupted" ELSE "ok"

End(say) == pc' = "idle" /\ fs' = None /\ report' = say /\ err' = {}

\* Most copies are as mkfs left them and none of them claims another length;
\* a file system the kernel has just upgraded still has its format block.
Trusted ==
  /\ truth.magic
  /\ LET mine == BackupLayout(truth.len)
         bad  == {p \in mine : CopyAt(p) \in hurt}
     IN  /\ 2 * Cardinality(bad) < Cardinality(mine)
         /\ \A p \in bad : dev.copy[p].magic => dev.copy[p].len = truth.len
         /\ \/ Part("format") \notin hurt /\ dev.format.upd
            \/ \A p \in mine \ bad : dev.copy[p] = truth
  /\ dev.journal.magic => dev.journal.mkid = truth.mkid

\* What a run does on a device it cannot know, and what it leaves in the super
\* blocks because it was told not to repair them, goes into the next backup:
\* from then on nobody knows what mkfs wrote.

\* repair_fs_open() in a mode, with a master m and a format super block f that
\* could be opened and the choice s of a backup: nothing is written, but for the
\* blocks format40_create() wipes when a build has neither a format nor a backup
FsckOpenBy(m, f, s, mode) ==
  LET b  == RepairBackupOpen(s, mode.sb)
      mc == RepairMasterCheck(m, b, f.magic, mode.sb)
      fo == IF reiser4_format_open(dev, mc.sb) THEN dev.format ELSE None
      fc == RepairFormatCheck(fo, b, mode.sb, 50)
      small == (IF dev.status.magic THEN {} ELSE {"status"})
                 \cup (IF dev.alloc.crc THEN {} ELSE {"alloc"})
      lost  == ~b.magic /\ mode.sb # BUILD
      fatal == lost \/ "fatal" \in mc.err \cup fc.err
      minor == mc.err \cup fc.err
                 \cup (IF small # {} /\ mode.sb = CHECK THEN {"fixable"} ELSE {})
      dirty == (IF mc.sb # dev.master THEN {"master"} ELSE {})
                 \cup (IF fc.sb # fo THEN {"format"} ELSE {})
                 \cup (IF mode.sb = CHECK THEN {} ELSE small)
                 \cup (IF BackupIncomplete(s, b) THEN {"backup"} ELSE {})
  IN  /\ job' = mode
      /\ trust' = CASE ~fo.magic /\ ~b.magic -> "scratch"
                    [] (fo.magic \/ b.magic) /\ Trusted  -> "known"
                    [] (fo.magic \/ b.magic) /\ ~Trusted -> "unknown"
      /\ IF fatal
         THEN End("fatal") /\ UNCHANGED dev
         ELSE /\ fs' = [magic |-> TRUE, master |-> mc.sb, format |-> fc.sb,
                        status |-> repair_status_open(dev),
                        alloc |-> dev.alloc, tree |-> dev.tree, backup |-> b,
                        dirty |-> dirty]
              /\ dev' = IF ~fo.magic /\ ~b.magic THEN Clobbered(dev) ELSE dev
              /\ pc' = "replay" /\ report' = "none"
              /\ err' = IF minor = {} THEN {} ELSE {"sb_fixable"}

\* repair_fs_open(), with the backup repair_backup_open() settles for
FsckOpen ==
  /\ pc = "idle"
  /\ LET m == IF dev.master.magic THEN dev.master ELSE None
         f == IF reiser4_format_open(dev, m) THEN dev.format ELSE None
     IN  \E s \in Heaviest(dev, m, f), mode \in Modes : FsckOpenBy(m, f, s, mode)
  /\ truth' = IF /\ job' # Checking /\ pc' # "idle"
                 /\ ~Trusted \/ (job'.sb = CHECK /\ err' # {})
              THEN None ELSE truth
  /\ UNCHANGED <<todo, hurt, gen, damages, crashes>>

\* repair_fs_replay() and the synchronization after it.  The transaction holds
\* a whole format block; of it only root, height and flushes are taken over,
\* from the block on the device whatever its magic is.
FsckReplay ==
  /\ pc = "replay"
  /\ LET d == IF dev.journal.magic
              THEN [dev EXCEPT !.format = dev.journal] ELSE dev
     IN  /\ dev' = [d EXCEPT !.journal = NoTx]
         /\ Sync([fs EXCEPT !.format.root = d.format.root,
                            !.format.counts = @ \/ dev.journal.magic,
                            !.dirty = @ \cup {"format"}], "passes")
  /\ UNCHANGED <<job, err, report, truth, hurt, trust, gen, damages, crashes>>

\* repair_pset_root_check(): the plugin set of the root against the backup's
PsetDiffers(h) ==
  h.backup.magic /\ h.backup.version > 0 /\ h.backup.pset # h.tree.pset

\* Mutant: a map that differs is added to but not an error
MapAstrayNever(h) == FALSE

\* repair_sem_fini(): the map and the blocks really in use differ.  (The bytes
\* repair_bitmap_compare() does not see are Repair's subject.)
MapAstray(h) == h.alloc.gen # h.tree.gen

\* A map that is not the tree's but knows its blocks, of no single mkfs
MixedMap == 0

\* repair_sem_prepare() of a fix: the blocks in use are added to the map, which
\* makes it the tree's only when it had no others.
United(h) ==
  IF h.alloc.gen = h.tree.gen THEN {h.alloc}
  ELSE {[h.alloc EXCEPT !.gen = g] : g \in {h.tree.gen, MixedMap}}

\* repair_check().  A build finds the tree wherever it is, takes the plugin set
\* of the root from the backup and counts anew.  Otherwise a root that leads
\* nowhere ends the program; no root directory, a plugin set that differs from
\* the backup, and a map that differs from what is used are fatal, and then
\* repair_update() does not correct the counts.
RepairCheck ==
  /\ pc = "passes" /\ todo = <<>>
  /\ LET found   == fs.format.root = fs.tree.gen
         setless == ~fs.tree.rootdir \/ PsetDiffers(fs)
         fatal   == setless \/ MapAstray(fs)
     IN
     \/ /\ job.fs = BUILD
        /\ Sync([fs EXCEPT !.format.root = fs.tree.gen,
                           !.format.counts = TRUE,
                           !.tree.rootdir = TRUE,
                           !.tree.pset = IF PsetDiffers(fs)
                                         THEN fs.backup.pset ELSE @,
                           !.alloc.gen = fs.tree.gen,
                           !.dirty = @ \cup {"tree", "alloc", "format"}],
                "fini")
        /\ UNCHANGED err
     \/ /\ job.fs # BUILD /\ found
        /\ \/ /\ job.fs = FIX
              /\ \E map \in United(fs) :
                   Sync([fs EXCEPT !.format.counts = @ \/ ~fatal,
                                   !.alloc = map,
                                   !.dirty = @ \cup {"alloc", "format"}], "fini")
           \/ job.fs = CHECK /\ pc' = "fini" /\ UNCHANGED <<fs, todo>>
        /\ err' = err \cup (IF fatal THEN {"fatal"} ELSE {})
                      \cup (IF setless THEN {"setless"} ELSE {})
                      \cup (IF job.fs = CHECK /\ ~fatal /\ ~fs.format.counts
                            THEN {"fixable"} ELSE {})
     \/ /\ job.fs # BUILD /\ ~found
        /\ err' = err \cup {"fatal", "failed"}
        /\ pc' = "fini" /\ UNCHANGED <<fs, todo>>
  /\ UNCHANGED <<dev, job, report, truth, hurt, trust, gen, damages, crashes>>

repair_backup_reopen(h) == reiser4_fs_backup(h.master, h.format, h.tree.pset)

\* fsck_check_fini(): the status, then a fresh backup unless nothing changed.
\* The plugin set of the tree is not loaded when there was no root directory or
\* its own did not match: the program dies.
FsckFini ==
  /\ pc = "fini" /\ todo = <<>>
  /\ LET state == repair_status_state(err)
         fresh == repair_backup_reopen(fs)
         back  == "failed" \notin err /\ job # Checking
         newst == IF state = fs.status.state THEN {} ELSE {"status"}
         h     == [fs EXCEPT !.status.state = state, !.dirty = newst]
     IN
     IF back /\ "setless" \in err
     THEN /\ End("died") /\ todo' = <<>>
          /\ dev' = IF newst = {} THEN dev ELSE reiser4_status_sync(dev, h)
     ELSE /\ dev' = IF newst = {} THEN dev ELSE reiser4_status_sync(dev, h)
          /\ IF back /\ fs.backup # fresh
             THEN Sync([h EXCEPT !.backup = fresh, !.dirty = {"backup"}],
                       "close")
             ELSE Sync([h EXCEPT !.dirty = {}], "close")
          /\ UNCHANGED <<err, report>>
  /\ UNCHANGED <<job, truth, hurt, trust, gen, damages, crashes>>

\* reiser4_fs_close() has nothing left to write; the report
FsckEnds ==
  /\ pc = "close" /\ todo = <<>>
  /\ End(IF "failed" \in err THEN "failed"
         ELSE IF "fatal" \in err THEN "fatal"
         ELSE IF err # {} THEN "fixable" ELSE "consistent")
  /\ UNCHANGED <<dev, job, todo, truth, hurt, trust, gen, damages, crashes>>

Next ==
  \/ DamageMaster \/ DamageFormat \/ DamageCopy \/ DamageStatus \/ DamageMap
  \/ Write \/ Crash
  \/ Mkfs \/ MkfsFill \/ MkfsFails \/ MkfsEnds
  \/ FsckOpen \/ FsckReplay \/ RepairCheck \/ FsckFini \/ FsckEnds

Spec == Init /\ [][Next]_vars

-----------------------------------------------------------------------------
(* Properties *)

\* When fsck says that the file system is consistent, in whatever mode, the
\* other programs can open it: every block reiser4_fs_open() looks at is there,
\* the backup copies agree with the super blocks and the plugin set, and the
\* allocator map is that of the tree.
ConsistentOpens ==
  report = "consistent" /\ trust # "scratch" =>
    FsOpens(dev) /\ dev.alloc.gen = dev.tree.gen

\* A completed fsck --build-sb brings back what mkfs wrote, in both super
\* blocks and in every copy, as long as most of the copies survived, even
\* when earlier repairs were cut off by a crash (weights of
\* repair_backup_open(), checks of master and format against the backup).
IdentityKept ==
  report = "consistent" /\ job.sb = BUILD /\ trust = "known" =>
    /\ reiser4_fs_backup(dev.master, dev.format, dev.tree.pset) = truth
    /\ \A p \in BackupLayout(truth.len) : dev.copy[p] = truth

\* After an mkfs that was cut off or that failed the device can only be opened
\* when all of the new file system is there: never the old one, nor a mixture
\* (the master is wiped first and written last, and the copies carry the id of
\* their mkfs).
OpensWhole ==
  job.sb = "mkfs" /\ pc = "idle" /\ ~truth.magic /\ FsOpens(dev) =>
    {dev.tree.gen, dev.alloc.gen, dev.format.mkid, dev.master.uuid} = {gen}

\* On such a device a build of super blocks and file system goes through to the
\* end and says that all is well: it neither gives up nor leaves something for
\* another run.
FullBuildSucceeds ==
  job = [sb |-> BUILD, fs |-> BUILD] /\ trust = "known" =>
    report \in {"none", "consistent"}
=============================================================================
