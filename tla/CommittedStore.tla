--------------------------- MODULE CommittedStore ---------------------------
(***************************************************************************)
(* What a journal promises: the content of the blocks changes only when a  *)
(* transaction commits, in all its blocks at once.  Flushing, replaying,   *)
(* crashing and starting again change nothing.                             *)
(***************************************************************************)
EXTENDS Integers

CONSTANTS Places, Values   \* contents are numbered by transactions

VARIABLE store

Init == store \in [Places -> Values]

(* Some of the places get the content of a transaction newer than all.     *)
Commits(old, new) ==
  \E v \in Values : \A p \in Places : new[p] \in {old[p], v} /\ old[p] < v

Next == Commits(store, store')

Spec == Init /\ [][Next]_store
=============================================================================
