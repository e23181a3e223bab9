------------------------------ MODULE MCRepair ------------------------------
(* A tree of three levels: two twigs, each with leaves and extents, one of  *)
(* them a hole, so that no two damages can take all items of a twig.  Key 2 *)
(* is nobody's: an item that gets it by damage comes between two others of  *)
(* a leaf.                                                                  *)
EXTENDS Repair

MCDisk ==
  [b \in Blocks |->
    CASE b = 1 -> Node(3, <<Item("ptr", 1, 2), Item("ptr", 6, 3)>>)
      [] b = 2 -> Node(2, <<Item("ptr", 1, 4), Item("ext", 4, 7), Item("ptr", 5, 5)>>)
      [] b = 3 -> Node(2, <<Item("ptr", 6, 6), Item("ext", 7, 8), Item("ext", 8, 0)>>)
      [] b = 4 -> Node(1, <<Item("sd", 1, 0), Item("sd", 3, 0)>>)
      [] b = 5 -> Node(1, <<Item("sd", 5, 0)>>)
      [] b = 6 -> Node(1, <<Item("sd", 6, 0)>>)
      [] OTHER -> NoNode]

MCAlloc == 0 .. 8
=============================================================================
