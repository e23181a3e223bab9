----------------------------- MODULE Journal40 ------------------------------
(***************************************************************************)
(* fsck's first steps on a device whose journal may hold transactions that *)
(* are committed and not flushed: opening and checking the journal         *)
(* (repair_journal_open()), replaying it (repair_fs_replay()), and saving  *)
(* what changed (reiser4_journal_sync(), reiser4_fs_sync()).  The machine  *)
(* may crash between any two writes, and a write may fail.                 *)
(*                                                                         *)
(* The kernel, which writes the journal while no tool runs, is part of the *)
(* environment; so are media that damage it.                               *)
(***************************************************************************)
EXTENDS JournalCheck

CONSTANTS
  Originals0,    \* the blocks transactions are about
  LogArea,       \* where the kernel puts TxHs, log records and wandered blocks
  FixAlloc,      \* does fsck fix checksums of the block allocator?
  Junk,          \* numbers a damaged field may hold
  MaxCommits, MaxCrashes, MaxDamage   \* bounds

ASSUME Journal40Assumption ==
  /\ Originals0 \cup LogArea \subseteq FormatBlk .. AreaLen - 1
  /\ {FormatBlk, AllocBlk} \subseteq Originals0 /\ Originals0 \cap {HeaderBlk, FooterBlk} = {}
  /\ LogArea \cap (FormatArea \cup Originals0) = {}
  /\ FixAlloc \in BOOLEAN /\ Junk \subseteq Nat
  /\ MaxCommits \in Nat /\ MaxCrashes \in Nat /\ MaxDamage \in Nat

VARIABLES
  disk,       \* the device
  phase,      \* what fsck is about to do
  header, footer,   \* journal->header, journal->footer
  dirty,      \* the journal's dirty bit
  format,     \* root and counters as the format entity holds them
  fdirty,     \* the format's dirty bit
  alloc,      \* the allocator's block as it was read
  adirty,     \* the allocator's dirty bit
  txs,        \* tx_list: the TxHs loaded, with their block numbers
  logblk,     \* log_blk of journal40_traverse_trans()
  pairs,      \* the entries of the loaded log record still to be replayed
  commits, crashes, damage,    \* used up bounds
  refused,    \* replaying or updating found something wrong in the journal
  goal        \* what replaying is to make of the device (history)

toolVars == <<header, footer, dirty, format, fdirty, alloc, adirty, txs, logblk, pairs, refused, goal>>
envVars  == <<commits, crashes, damage>>
vars     == <<disk, phase, toolVars, envVars>>

NoHeader == Header(0)
NoFooter == Footer(0, 0)
NoFormat == [root |-> 0, ctr |-> 0]

FreshBlock(b) == CASE b = FormatBlk -> Super(0, 0)
                   [] b = HeaderBlk -> NoHeader
                   [] b = FooterBlk -> NoFooter
                   [] OTHER         -> Data(0)

Init ==
  /\ disk = [b \in Blocks |-> FreshBlock(b)]
  /\ phase = "off"
  /\ header = NoHeader /\ footer = NoFooter /\ dirty = FALSE
  /\ format = NoFormat /\ fdirty = FALSE
  /\ alloc = Data(0) /\ adirty = FALSE
  /\ txs = <<>> /\ logblk = 0 /\ pairs = <<>>
  /\ commits = 0 /\ crashes = 0 /\ damage = 0
  /\ refused = FALSE /\ goal = <<>>

-----------------------------------------------------------------------------

(* The list of transactions on the device that are not flushed, if the     *)
(* journal has one.                                                        *)
Pending(d) == TxLists(d, d[HeaderBlk].last, d[FooterBlk].flushed)

(* TxH, log records and wandered blocks of a transaction.                  *)
JournalBlocks(d, t) ==
  {t} \cup ToSet(LogRecords(d, t).blks) \cup {p.wandered : p \in PairsOf(d, t)}

InUse(d) == {d[HeaderBlk].last, d[FooterBlk].flushed}
            \cup UNION {JournalBlocks(d, t) : t \in UNION {ToSet(list) : list \in Pending(d)}}

Ascending(S) == [k \in 1 .. Cardinality(S) |->
                   CHOOSE x \in S : Cardinality({y \in S : y < x}) = k - 1]

FreeLog(d) == Ascending(LogArea \ InUse(d))

(* Environment: the kernel commits transaction number v, about the blocks  *)
(* S in this order, with n log records.  It is written to the blocks f:    *)
(* the TxH, the log records, the wandered blocks; at last the header.      *)
Image(b, v) == IF b = FormatBlk THEN Super(v, v) ELSE Data(v)

Pair(S, f, n, i) == [wandered |-> f[1 + n + i], original |-> S[i]]

Record(S, f, n, k) ==
  IF k < n THEN LGR(f[2 + k], <<Pair(S, f, n, k)>>)
  ELSE LGR(f[1], [i \in 1 .. Len(S) - n + 1 |-> Pair(S, f, n, n - 1 + i)])

TransBlock(last, S, f, n, v, k) ==
  IF k = 1 THEN TxH(last, f[2], v)
  ELSE IF k =< n + 1 THEN Record(S, f, n, k - 1)
  ELSE Image(S[k - n - 1], v)

WithTransaction(d, S, f, n, v) ==
  [b \in Blocks |->
     IF b = HeaderBlk THEN Header(f[1])
     ELSE IF \E k \in 1 .. 1 + n + Len(S) : f[k] = b
          THEN TransBlock(d[HeaderBlk].last, S, f, n, v, CHOOSE k \in DOMAIN f : f[k] = b)
          ELSE d[b]]

Commit(S, n) ==
  /\ phase = "off" /\ damage = 0 /\ commits < MaxCommits
  /\ Pending(disk) # {}
  /\ n =< Cardinality(S) /\ 1 + n + Cardinality(S) =< Len(FreeLog(disk))
  /\ disk' = WithTransaction(disk, Ascending(S), FreeLog(disk), n, commits + 1)
  /\ commits' = commits + 1
  /\ UNCHANGED <<phase, toolVars, crashes, damage>>

(* Environment: the kernel writes the oldest pending transaction in place. *)
Flushed(d, t) == [Replayed(d, <<t>>) EXCEPT ![FooterBlk] = Footer(t, d[t].ctr)]

Flush ==
  /\ phase = "off" /\ damage = 0
  /\ \E list \in Pending(disk) : list # <<>> /\ disk' = Flushed(disk, list[1])
  /\ UNCHANGED <<phase, toolVars, envVars>>

(* Environment: one field of the journal, or a magic, is lost.             *)
Damaged(c, n) ==
  CASE c.type = "header" -> {[c EXCEPT !.last = n]}
    [] c.type = "footer" -> {[c EXCEPT !.flushed = n]}
    [] c.type = "txh"    -> {[c EXCEPT !.prev = n], [c EXCEPT !.next = n], Data(0)}
    [] c.type = "lgr"    -> {[c EXCEPT !.next = n], Data(0)}
         \cup {[c EXCEPT !.entries[i].wandered = n] : i \in DOMAIN c.entries}
         \cup {[c EXCEPT !.entries[i].original = n] : i \in DOMAIN c.entries}
    [] OTHER -> {}

Damage ==
  /\ phase = "off" /\ damage < MaxDamage /\ commits = MaxCommits
  /\ \E b \in Blocks, n \in Junk : \E c \in Damaged(disk[b], n) :
       c # disk[b] /\ disk' = [disk EXCEPT ![b] = c]
  /\ damage' = damage + 1
  /\ UNCHANGED <<phase, toolVars, commits, crashes>>

-----------------------------------------------------------------------------

(* What a journal block is read as after something else has been written   *)
(* over it: any numbers.                                                   *)
HeadersRead(c) == IF c.type = "header" THEN {c} ELSE {Header(n) : n \in Junk}
FootersRead(c) == IF c.type = "footer" THEN {c} ELSE {Footer(n, 0) : n \in Junk}

Closed ==
  /\ header' = NoHeader /\ footer' = NoFooter /\ dirty' = FALSE
  /\ format' = NoFormat /\ fdirty' = FALSE
  /\ alloc' = Data(0) /\ adirty' = FALSE
  /\ txs' = <<>> /\ logblk' = 0 /\ pairs' = <<>> /\ goal' = <<>>

(* repair_fs_open() up to journal40_open(): format, allocator, journal.    *)
(* Without a format super block fsck gives up.  The check of the allocator *)
(* makes it dirty if it finds a checksum to be fixed.                      *)
journal40_open ==
  /\ phase = "off" /\ disk[FormatBlk].type = "super" /\ disk[AllocBlk].type = "data"
  /\ header' \in HeadersRead(disk[HeaderBlk]) /\ footer' \in FootersRead(disk[FooterBlk])
  /\ format' = [root |-> disk[FormatBlk].root, ctr |-> disk[FormatBlk].ctr]
  /\ alloc' = disk[AllocBlk] /\ adirty' \in {FALSE, FixAlloc}
  /\ phase' = "opened"
  /\ UNCHANGED <<disk, dirty, fdirty, txs, logblk, pairs, refused, goal, envVars>>

(* repair_journal_check_struct().  A cut changes the header in memory.  If *)
(* the check fails, so does repair_fs_open(), and nothing is written.      *)
Checked(r) ==
  /\ header' = Header(r.last) /\ dirty' = (r.res = "cut")
  /\ phase' = CASE r.res = "eio" -> "closed" [] r.res = "never" -> "hung" [] OTHER -> "ready"

repair_journal_check_struct ==
  /\ phase = "opened"
  /\ \E r \in journal40_check_struct(disk, header.last, footer.flushed) : Checked(r)
  /\ UNCHANGED <<disk, footer, format, fdirty, alloc, adirty, txs, logblk, pairs, refused, goal, envVars>>

(* What is saved next when fsck closes the file system or syncs it: the    *)
(* journal, the allocator, the format (reiser4_fs_sync()).                 *)
Saving(j, a, f) ==
  IF j THEN "header" ELSE IF a THEN "alloc" ELSE IF f THEN "format" ELSE "closed"

(* An error return of the traversal ends the replay; the tool closes the   *)
(* file system, which saves what is dirty.                                 *)
GiveUp == refused' = TRUE /\ phase' = Saving(dirty, adirty, fdirty)

(* journal40_traverse(): the TxHs are loaded before anything is replayed.  *)
Loaded(list) ==
  /\ txs' = [k \in DOMAIN list |-> [nr |-> list[k], next |-> disk[list[k]].next]]
  /\ logblk' = IF list = <<>> THEN 0 ELSE disk[list[1]].next
  /\ goal' = Replayed(disk, list)
  /\ phase' = "replay" /\ UNCHANGED refused

FindTransactions ==
  /\ phase = "ready"
  /\ IF TxLists(disk, header.last, footer.flushed) = {}
     THEN GiveUp /\ UNCHANGED <<txs, logblk, goal>>
     ELSE \E list \in TxLists(disk, header.last, footer.flushed) : Loaded(list)
  /\ UNCHANGED <<disk, header, footer, dirty, format, fdirty, alloc, adirty, pairs, envVars>>

(* journal40_traverse_trans(): loading the next log record, ...            *)
AtRecord == phase = "replay" /\ txs # <<>> /\ pairs = <<>> /\ logblk # txs[1].nr

(* Mutant: log_blk stays where it is.                                      *)
LoadRecordAgain ==
  /\ AtRecord
  /\ IF IsLGR(disk, logblk)
     THEN pairs' = Entries(disk, logblk) /\ UNCHANGED <<logblk, phase, refused>>
     ELSE GiveUp /\ UNCHANGED <<pairs, logblk>>
  /\ UNCHANGED <<disk, header, footer, dirty, format, fdirty, alloc, adirty, txs, goal, envVars>>

LoadRecord ==
  /\ AtRecord
  /\ IF IsLGR(disk, logblk)
     THEN pairs' = Entries(disk, logblk) /\ logblk' = disk[logblk].next /\ UNCHANGED <<phase, refused>>
     ELSE GiveUp /\ UNCHANGED <<pairs, logblk>>
  /\ UNCHANGED <<disk, header, footer, dirty, format, fdirty, alloc, adirty, txs, goal, envVars>>

(* ... replaying one of its pairs, ...                                     *)
cb_replay ==
  /\ phase = "replay" /\ pairs # <<>>
  /\ IF {pairs[1].wandered, pairs[1].original} \subseteq Blocks
     THEN /\ disk' = [disk EXCEPT ![pairs[1].original] = disk[pairs[1].wandered]]
          /\ pairs' = Tail(pairs) /\ UNCHANGED <<phase, refused>>
     ELSE GiveUp /\ UNCHANGED <<disk, pairs>>
  /\ UNCHANGED <<header, footer, dirty, format, fdirty, alloc, adirty, txs, logblk, goal, envVars>>

(* ... a read or write that fails, which ends the replay.  When the write  *)
(* fails the block is freed twice; what the program may do then is either  *)
(* this or what Crash allows.                                              *)
ReplayFails ==
  /\ phase = "replay" /\ pairs # <<>> /\ crashes < MaxCrashes
  /\ phase' = Saving(dirty, adirty, fdirty) /\ crashes' = crashes + 1
  /\ UNCHANGED <<disk, toolVars, commits, damage>>

(* ... and the end of a transaction.                                       *)
NextTransaction ==
  /\ phase = "replay" /\ txs # <<>> /\ pairs = <<>> /\ logblk = txs[1].nr
  /\ txs' = Tail(txs)
  /\ logblk' = IF Len(txs) > 1 THEN txs[2].next ELSE 0
  /\ UNCHANGED <<disk, phase, header, footer, dirty, format, fdirty, alloc, adirty, pairs, refused, goal, envVars>>

(* journal40_update_format(): the counters of the footer, if it has any.   *)
UpdatedFormat == IF footer.flushed = 0 THEN format ELSE [format EXCEPT !.ctr = footer.ctr]

(* journal40_update() accepts the last committed transaction.              *)
UpdateAccepts == header.last = footer.flushed \/ IsTxH(disk, header.last)

(* Mutant: the root stays what it was before the replay.                   *)
format40_update_not(fmt, super) == fmt

(* format40_update(): the root is read again.                              *)
format40_update(fmt, super) ==
  [fmt EXCEPT !.root = IF super.type = "super" THEN super.root ELSE 0]

(* The rest of journal40_replay() and repair_fs_replay(): the counters of  *)
(* the footer go to the format, those of the last TxH to the footer, the   *)
(* journal is invalidated, and the format is updated.                      *)
ReplayDone ==
  /\ phase = "replay" /\ txs = <<>>
  /\ IF UpdateAccepts
     THEN /\ header' = NoHeader /\ footer' = NoFooter /\ dirty' = TRUE
          /\ format' = format40_update(UpdatedFormat, disk[FormatBlk]) /\ fdirty' = TRUE
          /\ phase' = "header" /\ UNCHANGED refused
     ELSE /\ format' = UpdatedFormat /\ fdirty' = (fdirty \/ footer.flushed # 0)
          /\ refused' = TRUE /\ phase' = Saving(dirty, adirty, fdirty')
          /\ UNCHANGED <<header, footer, dirty>>
  /\ UNCHANGED <<disk, alloc, adirty, txs, logblk, pairs, goal, envVars>>

(* journal40_sync(): cb_sync_journal() writes the header, then the footer. *)
SyncHeader ==
  /\ phase = "header" /\ phase' = "footer"
  /\ disk' = [disk EXCEPT ![HeaderBlk] = header]
  /\ UNCHANGED <<toolVars, envVars>>

SyncFooter ==
  /\ phase = "footer" /\ phase' = Saving(FALSE, adirty, fdirty)
  /\ disk' = [disk EXCEPT ![FooterBlk] = footer]
  /\ dirty' = FALSE
  /\ UNCHANGED <<header, footer, format, fdirty, alloc, adirty, txs, logblk, pairs, refused, goal, envVars>>

(* reiser4_alloc_sync()                                                    *)
SyncAlloc ==
  /\ phase = "alloc" /\ phase' = Saving(FALSE, FALSE, fdirty)
  /\ disk' = [disk EXCEPT ![AllocBlk] = alloc]
  /\ adirty' = FALSE
  /\ UNCHANGED <<header, footer, dirty, format, fdirty, alloc, txs, logblk, pairs, refused, goal, envVars>>

(* reiser4_format_sync()                                                   *)
SyncFormat ==
  /\ phase = "format" /\ phase' = "closed"
  /\ disk' = [disk EXCEPT ![FormatBlk] = Super(format.root, format.ctr)]
  /\ fdirty' = FALSE
  /\ UNCHANGED <<header, footer, dirty, format, alloc, adirty, txs, logblk, pairs, refused, goal, envVars>>

(* The rest of fsck does not touch the journal again.                      *)
Close ==
  /\ phase = "closed" /\ phase' = "off"
  /\ Closed
  /\ UNCHANGED <<disk, refused, envVars>>

(* The machine or fsck dies.  A failed write of the journal's own blocks,  *)
(* the allocator or the format ends fsck in the same way.                  *)
Crash ==
  /\ phase # "off" /\ crashes < MaxCrashes
  /\ phase' = "off" /\ crashes' = crashes + 1
  /\ Closed
  /\ UNCHANGED <<disk, refused, commits, damage>>

Tool ==
  \/ repair_journal_check_struct \/ FindTransactions
  \/ LoadRecord \/ cb_replay \/ NextTransaction \/ ReplayDone
  \/ SyncHeader \/ SyncFooter \/ SyncAlloc \/ SyncFormat \/ Close

Next ==
  \/ \E S \in SUBSET Originals0 \ {{}}, n \in 1 .. 2 : Commit(S, n)
  \/ Flush \/ Damage
  \/ journal40_open \/ Tool \/ ReplayFails \/ Crash

(* A running program goes on until it ends.                                *)
Spec == Init /\ [][Next]_vars /\ WF_vars(Tool)

-----------------------------------------------------------------------------

Numbers == Blocks \cup Junk

(* A block has the content that the last transaction committed about it    *)
(* gives it, whether that has been flushed, replayed, is half way through, *)
(* interrupted and done again, or still to be done.                        *)
ContentOf(d, p) == IF p = FormatBlk THEN d[p].root ELSE d[p].val

Effective(d) ==
  CHOOSE e \in {Replayed(d, list) : list \in IF Pending(d) = {} THEN {<<>>} ELSE Pending(d)} : TRUE

StoreOf(d) == [p \in Originals0 |-> ContentOf(d, p)]

Store == INSTANCE CommittedStore WITH
  Places <- Originals0, Values <- 0 .. MaxCommits, store <- StoreOf(Effective(disk))

Implements == Store!Spec

(* After journal40_check_struct() the journal is as the comment at the top *)
(* of journal40_repair.c wants it, whatever was damaged.                   *)
CheckedIsSound == phase = "ready" => Sound(disk, header.last, footer.flushed)

(* The check comes to its end: the nested walk of a log record circle by   *)
(* cb_journal_sec_check() returns unless a second field is damaged, though *)
(* nothing in journal40_traverse_trans() would stop it.                    *)
HangsNeedTwo == phase = "hung" => damage > 1

(* Nothing is cut by journal40_check_struct() from a journal that was      *)
(* right.                                                                  *)
SoundIsKept ==
  phase = "ready" /\ dirty /\ disk[HeaderBlk].type = "header" =>
    ~Sound(disk, disk[HeaderBlk].last, footer.flushed)

(* Replaying never destroys what it replays from: no transaction header or *)
(* log record that passed the check of fsck is missing when the replay     *)
(* comes to it, also when an earlier replay was interrupted.               *)
NeverRefused == ~refused

(* Each wandered block arrives at its original block as it was before the  *)
(* replay began, the later transaction winning, although the replay reads  *)
(* and writes the device block by block.                                   *)
ReplayApplies == [][ReplayDone => disk = goal]_vars

(* fsck's walks over the journal come to an end.                           *)
Terminates == phase # "off" ~> phase = "off"
=============================================================================
