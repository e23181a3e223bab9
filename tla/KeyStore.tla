------------------------------ MODULE KeyStore ------------------------------
(***************************************************************************)
(* What the tree promises to the object plugins above it: units stored     *)
(* under keys, one unit per key, that change only where a caller asks.     *)
(* An item of several units has consecutive keys, the bytes of a tail.     *)
(***************************************************************************)
EXTENDS Integers

CONSTANT KeySpace    \* all the keys

VARIABLE store       \* function: the stored keys -> kind of the unit there

Run(key, count) == key .. key + count - 1

Init == store = [k \in {} |-> ""]

Put(key, count, kind) ==
  /\ Run(key, count) \subseteq KeySpace \ DOMAIN store
  /\ store' = [k \in DOMAIN store \cup Run(key, count) |->
                 IF k \in DOMAIN store THEN store[k] ELSE kind]

Drop(key, count) ==
  /\ Run(key, count) \subseteq DOMAIN store
  /\ store' = [k \in DOMAIN store \ Run(key, count) |-> store[k]]

Keep == UNCHANGED store
=============================================================================
