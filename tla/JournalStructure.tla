-------------------------- MODULE JournalStructure --------------------------
(***************************************************************************)
(* What journal40 keeps on the device and how it is walked                 *)
(* (plugin/journal/journal40).  A transaction has a header block (TxH)     *)
(* that points to the previous transaction and to the first of its log     *)
(* records (LGR); the log records form a circle back to the header and     *)
(* list pairs of a wandered block, which holds new content, and the        *)
(* original block it is meant for.  The journal header names the last      *)
(* committed transaction, the footer the last flushed one.                 *)
(*                                                                         *)
(* A device d is a function from blocks to contents.  The counters of free *)
(* blocks and object ids, which always travel together, are one number.    *)
(***************************************************************************)
EXTENDS Integers, Sequences, FiniteSetsExt, SequencesExt

CONSTANTS AreaLen,     \* journal->area.len: number of blocks of the file system
          FormatBlk,   \* the format super block, also journal->area.start
          HeaderBlk, FooterBlk,
          AllocBlk,    \* a block of the block allocator
          OtherArea    \* the other blocks reiser4_fs_layout() enumerates

ASSUME JournalConstants ==
  /\ AreaLen \in Nat /\ FormatBlk \in 1 .. AreaLen - 1
  /\ {HeaderBlk, FooterBlk, AllocBlk} \cup OtherArea \subseteq 0 .. AreaLen - 1
  /\ Cardinality({FormatBlk, HeaderBlk, FooterBlk, AllocBlk}) = 4

Blocks == 0 .. AreaLen - 1

(* reiser4_fs_layout()                                                     *)
FormatArea == {FormatBlk, HeaderBlk, FooterBlk, AllocBlk} \cup OtherArea

Data(v)                == [type |-> "data", val |-> v]
Super(root, ctr)       == [type |-> "super", root |-> root, ctr |-> ctr]
Header(last)           == [type |-> "header", last |-> last]
Footer(flushed, ctr)   == [type |-> "footer", flushed |-> flushed, ctr |-> ctr]
TxH(prev, next, ctr)   == [type |-> "txh", prev |-> prev, next |-> next, ctr |-> ctr]
LGR(next, entries)     == [type |-> "lgr", next |-> next, entries |-> entries]

(* TXH_MAGIC and LGR_MAGIC; a block outside the device cannot be loaded.   *)
IsTxH(d, b) == b \in Blocks /\ d[b].type = "txh"
IsLGR(d, b) == b \in Blocks /\ d[b].type = "lgr"

(* The pairs of a log record, up to the first one without a wandered block.*)
Used(entries)  == {i \in DOMAIN entries : \A j \in 1 .. i : entries[j].wandered # 0}
Entries(d, l)  == IF IsLGR(d, l) THEN SubSeq(d[l].entries, 1, Cardinality(Used(d[l].entries)))
                  ELSE <<>>

-----------------------------------------------------------------------------

(* The first loop of journal40_traverse(): the list of transactions from   *)
(* the last committed one back to the last flushed one, oldest first; no   *)
(* list if a block on the way is no TxH or the loop would not end.         *)
TxLists(d, last, flushed) ==
  LET back[steps \in 0 .. AreaLen] ==
        [b \in Nat |->
           IF b = flushed THEN {<<>>}
           ELSE IF steps = 0 \/ ~IsTxH(d, b) THEN {}
           ELSE {Append(txs, b) : txs \in back[steps - 1][d[b].prev]}]
  IN  back[AreaLen][last]

(* The loop of journal40_traverse_trans() over the log records of the      *)
(* transaction t: the blocks it comes to, and how it ends: back at the     *)
(* TxH, at a block that cannot be read, at one without LGR_MAGIC, or never *)
(* because it comes to a record again.                                     *)
LogRecords(d, t) ==
  LET from[steps \in 0 .. AreaLen] ==
        [b \in Nat |->
           IF b = t                THEN [end |-> "good",   blks |-> <<>>]
           ELSE IF b \notin Blocks THEN [end |-> "eio",    blks |-> <<b>>]
           ELSE IF ~IsLGR(d, b)    THEN [end |-> "broken", blks |-> <<b>>]
           ELSE IF steps = 0       THEN [end |-> "never",  blks |-> <<b>>]
           ELSE [from[steps - 1][d[b].next] EXCEPT !.blks = <<b>> \o @]]
  IN  from[AreaLen][d[t].next]

-----------------------------------------------------------------------------

(* The pairs of wandered and original blocks, in the order of replaying.   *)
PairsIn(d, blks)  == FlattenSeq([k \in DOMAIN blks |-> Entries(d, blks[k])])
PairsOf(d, t)     == UNION {ToSet(PairsIn(d, r.blks)) : r \in {LogRecords(d, t)}}
AllPairs(d, list) == FlattenSeq([k \in DOMAIN list |-> PairsIn(d, LogRecords(d, list[k]).blks)])

(* Device d with the wandered blocks put in their places: the last pair    *)
(* about a block wins.                                                     *)
About(pairs, b) == {k \in DOMAIN pairs : pairs[k].original = b}

Put(d, pairs) ==
  [b \in Blocks |-> IF About(pairs, b) = {} THEN d[b] ELSE d[pairs[Max(About(pairs, b))].wandered]]

(* What replaying the transactions list is to make of device d.            *)
Replayed(d, list) == CHOOSE e \in {Put(d, pairs) : pairs \in {AllPairs(d, list)}} : TRUE
=============================================================================
