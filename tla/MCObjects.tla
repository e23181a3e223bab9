------------------------------ MODULE MCObjects ------------------------------
(* Instances of Objects for TLC. *)
EXTENDS Objects

\* The names of the programs have keys of their own, the kernel's share one.
DistinctKeys == "." :> 0 @@ ".." :> 1 @@ "a" :> 3 @@ "f" :> 4 @@ "g" :> 4 @@ "b" :> 5
=============================================================================
