---------------------------- MODULE JournalCheck ----------------------------
(***************************************************************************)
(* journal40_check_struct() (journal40_repair.c): fsck's search for the    *)
(* oldest transaction that must not be replayed, and what it is to make    *)
(* sure of.                                                                *)
(***************************************************************************)
EXTENDS JournalStructure

(* journal40_blk_format_check()                                            *)
Illegal(blk, type) ==
  \/ blk \notin FormatBlk .. AreaLen - 1
  \/ type # "ORG" /\ blk \in FormatArea

Visit(t, blk, type) == [tx |-> t, blk |-> blk, type |-> type]

(* What journal40_traverse_trans() hands to its callback, in that order.   *)
PairVisits(t, p)      == <<Visit(t, p.wandered, "WAN"), Visit(t, p.original, "ORG")>>
PairsVisits(t, pairs) == FlattenSeq([i \in DOMAIN pairs |-> PairVisits(t, pairs[i])])
RecordVisits(d, t, l) == <<Visit(t, l, "LGR")>> \o PairsVisits(t, Entries(d, l))
RecordsVisits(d, t, blks) == FlattenSeq([k \in DOMAIN blks |-> RecordVisits(d, t, blks[k])])
TransVisits(d, t)     == RecordsVisits(d, t, LogRecords(d, t).blks)
Visits(d, txs)        == FlattenSeq([k \in DOMAIN txs |-> TransVisits(d, txs[k])])

-----------------------------------------------------------------------------

(* What a callback answers: nothing is wrong, or the transaction to cut    *)
(* the journal at, or that the nested walk fails or never returns.         *)
Fine    == [res |-> "fine", tx |-> 0]
Cut(t)  == [res |-> "cut", tx |-> t]
Ends(r) == [res |-> r, tx |-> 0]

(* cb_find_sec_blk(): where a nested walk that looks for the block of the  *)
(* i-th visit stops.                                                       *)
FirstVisit(v, i) == v[Min({j \in 1 .. i : v[j].blk = v[i].blk})]

(* cb_find_txh_blk(): is blk a TxH?  With TF_SAME_TXH_BREAK only of the    *)
(* current transaction and of the ones after it.                           *)
AmongTxH(txs, blk)     == Contains(txs, blk)
FromTxHOn(txs, t, blk) == \E j, k \in DOMAIN txs : txs[j] = t /\ txs[k] = blk /\ j =< k

(* The bits of journal_layout and current_layout at the i-th visit.        *)
MetInJournal(txs, v, i) == AmongTxH(txs, v[i].blk) \/ \E j \in 1 .. i - 1 : v[j].blk = v[i].blk
MetInCurrent(v, i) == \E j \in 1 .. i - 1 : v[j].blk = v[i].blk /\ v[j].tx = v[i].tx

(* A log record that was met before: is the circle of this one good?       *)
LgrMet(end, t, first) ==
  CASE end = "good"   -> Cut(first.tx)
    [] end = "broken" -> Cut(t)
    [] OTHER          -> Ends(end)

(* Mutant: a wandered block may have been met in an earlier transaction.   *)
WanMetAlways(txs, t, first) == Fine

WanMet(txs, t, first) ==
  IF ~AmongTxH(txs, first.blk) /\ first.type \in {"WAN", "ORG"} THEN Cut(first.tx) ELSE Cut(t)

(* Mutant: no block may be met again.                                      *)
OrgMetNever(txs, t, blk) == Cut(t)

OrgMet(txs, t, blk) == IF FromTxHOn(txs, t, blk) THEN Cut(t) ELSE Fine

(* Mutant: a block may be met in one transaction more than once.           *)
cb_journal_sec_check_current(d, txs, v, i) ==
  IF Illegal(v[i].blk, v[i].type) THEN Cut(v[i].tx)
  ELSE IF v[i].type = "LGR" /\ ~IsLGR(d, v[i].blk) THEN Cut(v[i].tx)
  ELSE IF ~MetInJournal(txs, v, i) \/ MetInCurrent(v, i) THEN Fine
  ELSE CASE v[i].type = "LGR" -> LgrMet(LogRecords(d, v[i].tx).end, v[i].tx, FirstVisit(v, i))
         [] v[i].type = "WAN" -> WanMet(txs, v[i].tx, FirstVisit(v, i))
         [] v[i].type = "ORG" -> OrgMet(txs, v[i].tx, v[i].blk)

(* Mutant: the circle is walked before the current transaction is looked   *)
(* at.                                                                     *)
cb_journal_sec_check_walks(d, txs, v, i) ==
  IF Illegal(v[i].blk, v[i].type) THEN Cut(v[i].tx)
  ELSE IF v[i].type = "LGR" /\ ~IsLGR(d, v[i].blk) THEN Cut(v[i].tx)
  ELSE IF ~MetInJournal(txs, v, i) THEN Fine
  ELSE IF v[i].type = "LGR" THEN LgrMet(LogRecords(d, v[i].tx).end, v[i].tx, FirstVisit(v, i))
  ELSE IF MetInCurrent(v, i) THEN Cut(v[i].tx)
  ELSE CASE v[i].type = "WAN" -> WanMet(txs, v[i].tx, FirstVisit(v, i))
         [] v[i].type = "ORG" -> OrgMet(txs, v[i].tx, v[i].blk)

(* cb_journal_sec_check() for the i-th visit.                              *)
cb_journal_sec_check(d, txs, v, i) ==
  IF Illegal(v[i].blk, v[i].type) THEN Cut(v[i].tx)
  ELSE IF v[i].type = "LGR" /\ ~IsLGR(d, v[i].blk) THEN Cut(v[i].tx)
  ELSE IF ~MetInJournal(txs, v, i) THEN Fine
  ELSE IF MetInCurrent(v, i) THEN Cut(v[i].tx)
  ELSE CASE v[i].type = "LGR" -> LgrMet(LogRecords(d, v[i].tx).end, v[i].tx, FirstVisit(v, i))
         [] v[i].type = "WAN" -> WanMet(txs, v[i].tx, FirstVisit(v, i))
         [] v[i].type = "ORG" -> OrgMet(txs, v[i].tx, v[i].blk)

(* The second loop of journal40_traverse() with that callback: the first   *)
(* answer that is not fine.                                                *)
CheckVisits(d, txs, v) ==
  LET from[i \in 1 .. Len(v) + 1] ==
        IF i > Len(v) THEN Fine
        ELSE IF cb_journal_sec_check(d, txs, v, i) = Fine THEN from[i + 1]
        ELSE cb_journal_sec_check(d, txs, v, i)
  IN  from[1]

(* cb_journal_txh_check() refuses a TxH in an illegal block.               *)
BrokenList(list) == \E k \in DOMAIN list : Illegal(list[k], "TXH")

(* The last committed transaction after the check: the one before the      *)
(* oldest problem, or the last flushed one if the list of transactions     *)
(* itself is broken.                                                       *)
CheckedTo(d, last, answer) ==
  [res |-> answer.res, last |-> IF answer.res = "cut" THEN d[answer.tx].prev ELSE last]

CheckList(d, last, list) ==
  UNION {{CheckedTo(d, last, answer) : answer \in {CheckVisits(d, list, v)}} : v \in {Visits(d, list)}}

(* Mutant: a broken list of transactions is left alone.                    *)
journal40_check_struct_trusting(d, last, flushed) ==
  LET lists == {list \in TxLists(d, last, flushed) : ~BrokenList(list)}
  IN  IF lists = {} THEN {[res |-> "fine", last |-> last]}
      ELSE UNION {CheckList(d, last, list) : list \in lists}

journal40_check_struct(d, last, flushed) ==
  LET lists == {list \in TxLists(d, last, flushed) : ~BrokenList(list)}
  IN  IF lists = {} THEN {[res |-> "cut", last |-> flushed]}
      ELSE UNION {CheckList(d, last, list) : list \in lists}

-----------------------------------------------------------------------------

(* The description of a right journal at the top of journal40_repair.c.    *)
(* a: nothing points before the format or behind the end; b: TxH, log      *)
(* records and wandered blocks are met once in the journal, do not lie in  *)
(* the format area and are not original blocks of the same or an earlier   *)
(* transaction; c: an original block is met once in its transaction.       *)
SoundVisits(txs, v) ==
  /\ \A i \in DOMAIN v : ~Illegal(v[i].blk, v[i].type)
  /\ \A i \in DOMAIN v : v[i].type # "ORG" => ~AmongTxH(txs, v[i].blk)
  /\ \A i, j \in DOMAIN v :
       i # j /\ v[i].blk = v[j].blk =>
         \/ v[i].type = "ORG" /\ v[j].type = "ORG" /\ v[i].tx # v[j].tx
         \/ v[i].type # "ORG" /\ v[j].type = "ORG" /\ i < j /\ v[i].tx # v[j].tx
         \/ v[j].type # "ORG" /\ v[i].type = "ORG" /\ j < i /\ v[i].tx # v[j].tx
  /\ \A i \in DOMAIN v : v[i].type = "ORG" => ~FromTxHOn(txs, v[i].tx, v[i].blk)

SoundList(d, list) ==
  /\ ~BrokenList(list)
  /\ \A k \in DOMAIN list : LogRecords(d, list[k]).end = "good"
  /\ SoundVisits(list, Visits(d, list))

Sound(d, last, flushed) == \E list \in TxLists(d, last, flushed) : SoundList(d, list)
=============================================================================
