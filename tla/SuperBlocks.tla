---------------------------- MODULE SuperBlocks ----------------------------
(***************************************************************************)
(* The blocks that say what a file system is, and what fsck makes of them  *)
(* when it opens a device: the master and the format super block, their    *)
(* backup copies, and the decisions of repair_fs_open().  Everything here  *)
(* is a function of what is on the device and of the mode, so the module   *)
(* has no variables; Filesystem.tla runs mkfs and fsck over it.            *)
(*                                                                         *)
(* A super block is a record.  Block numbers are scaled: a bitmap block    *)
(* describes RegionLen blocks and the first block a copy may use is        *)
(* BackupStart.  Block sizes are 1, the size the file system is made with, *)
(* 2, another valid size, and 0, an invalid one.  The values of the other  *)
(* fields only have to be told apart; policies from 100 on have no plugin. *)
(***************************************************************************)
EXTENDS Integers, FiniteSets, SequencesExt

CONSTANTS
  DevLen,       \* blocks of the device
  RegionLen,    \* blocks one bitmap block describes
  BackupStart,  \* REISER4_BACKUP_START
  MinLen,       \* REISER4_FS_MIN_SIZE
  Release       \* minor number of the format release of these programs

ASSUME ParameterAssumption ==
  /\ {DevLen, RegionLen, BackupStart, MinLen, Release} \subseteq Nat
  /\ 2 < BackupStart /\ BackupStart < RegionLen
  /\ BackupStart < MinLen /\ MinLen <= DevLen

None    == [magic |-> FALSE]
Fmt40   == 0
InvalBlk == -1
CHECK   == "check"
FIX     == "fix"
BUILD   == "build"

-----------------------------------------------------------------------------
(* Where the copies are *)

\* 2, 3, 4, 6, 9, 13, ...: BACKUP_EXP_LAYOUT
ExpLayout[i \in 0..DevLen] ==
  IF i = 0 THEN 2 ELSE (ExpLayout[i - 1] * 3) \div 2

\* alloc40_region() and cb_region(): the block after the first one of the
\* region, for an allocator of `total` blocks
RegionCopy(blk, total) ==
  LET start == (blk \div RegionLen) * RegionLen
      size  == IF start + RegionLen > total THEN total - start ELSE RegionLen
      copy  == IF size = 1 THEN 0 ELSE start + 1
  IN  IF copy < BackupStart THEN BackupStart ELSE copy

\* The loop takes every copy beyond the one before it and stops at the first
\* one beyond the end; the copies grow with blk, so it is a set.
LayoutBody ==
  [len \in MinLen..DevLen |-> [total \in MinLen..DevLen |->
     {c \in {RegionCopy(ExpLayout[i], total) :
               i \in {j \in 1..DevLen : ExpLayout[j] <= len}} : c <= len}]]

\* The layout of a file system of len blocks
BackupLayout(len) == LayoutBody[len][len]

-----------------------------------------------------------------------------
(* Opening what is on the device *)

PolicyKnown(policy) == policy < 100

reiser4_master_open(d) == d.master.magic
reiser4_master_valid(d) == d.master.blksize # 0
reiser4_status_open(d) == d.status.magic

\* reiser4_format_open() and format40_super_open(): another block size reads
\* another place, where no format super block is
reiser4_format_open(d, m) ==
  /\ m.magic /\ m.pid = Fmt40 /\ m.blksize = 1
  /\ d.format.magic

format40_valid(f) == f.len <= DevLen /\ f.root # InvalBlk /\ f.version <= Release

\* The root of the tree is found, and in it the root directory with its plugins.
reiser4_pset_tree(d) == d.format.root = d.tree.gen /\ d.tree.rootdir

\* What the parts put into a backup
reiser4_master_backup(m) ==
  [magic |-> TRUE, blksize |-> m.blksize, pid |-> m.pid, uuid |-> m.uuid,
   label |-> m.label]

format40_backup(f) ==
  [len |-> f.len, mkid |-> f.mkid, policy |-> f.policy, flags |-> f.flags,
   version |-> f.version]

\* only versions since 4.0.1 have one
reiser4_pset_backup(f, pset) ==
  IF f.version = 0 THEN 0 ELSE pset

reiser4_fs_backup(m, f, pset) ==
  LET master == reiser4_master_backup(m)
      format == format40_backup(f)
  IN  [magic |-> master.magic, blksize |-> master.blksize, pid |-> master.pid,
       uuid |-> master.uuid, label |-> master.label, len |-> format.len,
       mkid |-> format.mkid, policy |-> format.policy, flags |-> format.flags,
       version |-> format.version, pset |-> reiser4_pset_backup(f, pset)]

\* Every copy of the layout is read, and all are compared with a fresh one.
reiser4_backup_valid(d) ==
  \A p \in BackupLayout(d.format.len) :
    d.copy[p] = reiser4_fs_backup(d.master, d.format, d.tree.pset)

\* reiser4_fs_open() with its checks: what every program but fsck asks of a
\* device before it works on it
FsOpens(d) ==
  /\ reiser4_master_open(d) /\ reiser4_master_valid(d)
  /\ reiser4_status_open(d)
  /\ reiser4_format_open(d, d.master) /\ format40_valid(d.format)
  /\ d.alloc.crc
  /\ reiser4_pset_tree(d)
  /\ reiser4_backup_valid(d)

-----------------------------------------------------------------------------
(* repair_backup_open(): which backup to believe *)

repair_master_check_backup(b) == b.magic /\ b.blksize = 1 /\ b.pid = Fmt40

\* format40_check_backup(), then the length against the device
format40_check_backup(b) == PolicyKnown(b.policy)
repair_format_check_backup(b) ==
  format40_check_backup(b) /\ b.len \in MinLen..DevLen

\* repair_fs_check_backup() for the block number nr
BackupOk(b, nr) ==
  /\ repair_master_check_backup(b)
  /\ b.len > nr
  /\ repair_format_check_backup(b)

\* cb_save_backup(): every place a copy of a file system of any length can be
Hints(d) == {d.copy[p] : p \in {q \in DOMAIN d.copy : BackupOk(d.copy[q], q)}}

\* counted with the allocator of the whole device
HintTotal(h) == Cardinality(LayoutBody[h.len][DevLen])

HintCount(d, h) ==
  LET found == Cardinality({p \in DOMAIN d.copy : d.copy[p] = h})
  IN  IF found > HintTotal(h) THEN HintTotal(h) ELSE found

\* What is compared with the super blocks ends before the plugin set, which
\* is not known until the tree is open.
Matched(h, ondisk) ==
  ondisk.magic /\ [h EXCEPT !.pset = 0] = [ondisk EXCEPT !.pset = 0]

Ondisk(m, f) ==
  LET fresh == reiser4_fs_backup(m, f, 0)
  IN  IF m.magic /\ f.magic /\ BackupOk(fresh, 0) THEN fresh ELSE None

\* The loop over the list of hints: what one of them makes of the best so far.
Weighed(d, ondisk, s, h) ==
  LET matched == Matched(h, ondisk)
      found   == IF s.found = 0 /\ matched THEN 1 ELSE s.found
      weight  == (HintCount(d, h) * 66) \div HintTotal(h)
                   + (IF matched THEN 33 ELSE 0)
  IN  IF weight > s.max \/ (weight = s.max /\ matched)
      THEN [max |-> weight, app |-> h,
            found |-> IF found # 0 /\ ~matched THEN 2 ELSE found]
      ELSE [s EXCEPT !.found = found]

\* The list is in the order of the bytes, which the model leaves open.
Weigh(d, ondisk, order) ==
  LET best[i \in 0..Len(order)] ==
        IF i = 0 THEN [max |-> 0, app |-> None, found |-> 0]
                 ELSE Weighed(d, ondisk, best[i - 1], order[i])
  IN  best[Len(order)]

\* The backups the loop may leave, with what else it knows of them
Heaviest(d, m, f) ==
  LET ondisk == Ondisk(m, f)
      Chosen(s) == [app |-> s.app, found |-> s.found, ondisk |-> ondisk.magic,
                    count |-> IF s.app.magic THEN HintCount(d, s.app) ELSE 0,
                    total |-> IF s.app.magic THEN HintTotal(s.app) ELSE 0]
  IN  {Chosen(Weigh(d, ondisk, order)) : order \in SetToSeqs(Hints(d))}

\* repair_backup_open(): the backup to believe; None when it gives up
RepairBackupOpen(s, mode) ==
  IF \/ s.count # s.total /\ mode # BUILD
     \/ s.ondisk /\ s.found # 1 /\ s.count = 1 /\ s.total # 1
  THEN None ELSE s.app

\* The handle of the backup is dirty when copies are missing.
BackupIncomplete(s, b) == b.magic /\ s.count # s.total

-----------------------------------------------------------------------------
(* repair_master_check_struct(): the master against the backup *)

MasterOf(b) == [magic |-> TRUE, blksize |-> b.blksize, pid |-> b.pid,
                uuid |-> b.uuid, label |-> b.label]

\* What a build makes when there is nothing to make it from; every question
\* is answered as --yes does.
NewMaster == [magic |-> TRUE, blksize |-> 1, pid |-> Fmt40,
              uuid |-> 0, label |-> 0]

\* A master without a backup keeps what can be right.
MasterAlone(m, opened) == [m EXCEPT !.blksize = IF @ = 0 THEN 1 ELSE @,
                                    !.pid = IF opened THEN @ ELSE Fmt40]

RepairMasterCheck(m, b, opened, mode) ==
  LET severe == m.blksize # b.blksize \/ m.pid # b.pid
      minor  == m.uuid # b.uuid \/ m.label # b.label
      Ok(x)  == [err |-> {}, sb |-> x]
  IN  CASE ~m.magic /\ mode # BUILD            -> [err |-> {"fatal"}, sb |-> m]
        [] ~m.magic /\ mode = BUILD /\ b.magic -> Ok(MasterOf(b))
        [] ~m.magic /\ mode = BUILD /\ ~b.magic -> Ok(NewMaster)
        [] m.magic /\ b.magic ->
             IF severe /\ mode # BUILD THEN [err |-> {"fatal"}, sb |-> m]
             ELSE IF minor /\ mode = CHECK
                  THEN [err |-> {"fixable"}, sb |-> m]
                  ELSE Ok(MasterOf(b))
        [] m.magic /\ ~b.magic -> Ok(MasterAlone(m, opened))

-----------------------------------------------------------------------------
(* repair_format_check_struct() and format40_check_struct() *)

\* format40_regenerate(): what the backup does not hold is left empty
Regenerated(b) ==
  [magic |-> TRUE, len |-> b.len, mkid |-> b.mkid, policy |-> b.policy,
   flags |-> b.flags, version |-> b.version, upd |-> FALSE,
   root |-> InvalBlk, counts |-> FALSE]

\* format40_create() for a device of which nothing is known
NewFormat(mkid, len) ==
  [magic |-> TRUE, len |-> len, mkid |-> mkid, policy |-> 0, flags |-> 0,
   version |-> Release, upd |-> FALSE, root |-> InvalBlk, counts |-> FALSE]

\* Mutant: the id of the mkfs is not checked
FormatByBackupAnyMkid(f, b, mode) ==
  [err |-> {}, sb |-> [f EXCEPT !.flags = b.flags, !.len = b.len,
                                !.version = b.version, !.policy = b.policy]]

\* The format against the backup
FormatByBackup(f, b, mode) ==
  LET tooNew == b.version > Release \/ (f.version > Release /\ f.upd)
      update == f.version > b.version /\ f.version <= Release /\ f.upd
      minor  == update \/ f.policy # b.policy
      severe == \/ ~update /\ f.version # b.version
                \/ f.flags # b.flags \/ f.len # b.len \/ f.mkid # b.mkid
      Build  == [f EXCEPT !.flags = b.flags, !.len = b.len, !.mkid = b.mkid,
                          !.version = IF update THEN @ ELSE b.version,
                          !.upd = IF f.version # b.version THEN FALSE ELSE @,
                          !.policy = b.policy]
      Fixed  == [f EXCEPT !.upd = IF update THEN FALSE ELSE @,
                          !.policy = b.policy]
  IN  IF tooNew THEN [err |-> {"fatal"}, sb |-> f]
      ELSE IF mode = BUILD THEN [err |-> {}, sb |-> Build]
      ELSE [err |-> (IF severe THEN {"fatal"} ELSE {})
                      \cup (IF minor /\ mode = CHECK THEN {"fixable"} ELSE {}),
            sb  |-> IF mode = CHECK THEN f ELSE Fixed]

\* The format when there is no backup, which only a build goes on with: the
\* length is believed when it is possible, the key is the profile's.
FormatAlone(f) ==
  [f EXCEPT !.version = IF @ > Release THEN Release ELSE @,
            !.policy  = IF PolicyKnown(@) THEN @ ELSE 0,
            !.flags   = 0,
            !.len     = IF @ \in MinLen..DevLen THEN @ ELSE DevLen]

\* Mutant: a format that is lost is fatal in every mode
RepairFormatCheckStrict(f, b, mode, mkid) ==
  IF f.magic THEN FormatByBackup(f, b, mode) ELSE [err |-> {"fatal"}, sb |-> f]

RepairFormatCheck(f, b, mode, mkid) ==
  CASE f.magic /\ b.magic    -> FormatByBackup(f, b, mode)
    [] f.magic /\ ~b.magic   -> [err |-> {}, sb |-> FormatAlone(f)]
    [] ~f.magic /\ mode # BUILD -> [err |-> {"fatal"}, sb |-> f]
    [] ~f.magic /\ mode = BUILD /\ b.magic ->
         IF b.version > Release THEN [err |-> {"fatal"}, sb |-> f]
                                ELSE [err |-> {}, sb |-> Regenerated(b)]
    [] ~f.magic /\ mode = BUILD /\ ~b.magic ->
         [err |-> {}, sb |-> NewFormat(mkid, DevLen)]
=============================================================================
