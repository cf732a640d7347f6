---------------------------- MODULE MCDiskAttach ----------------------------
(***************************************************************************)
(* Instances of DiskAttach: one region of the node list, other users of    *)
(* alloc that take one or two sectors.                                     *)
(***************************************************************************)
EXTENDS DiskAttach, TLC

OneRegion == (0 :> [start |-> 0, end |-> NumNodes]) @@ (1 :> [start |-> 0, end |-> 0])

FreshIds == [h \in Handle |-> h + 1]

Fields(type, max_regions, max_backups) ==
  [header |-> [type |-> type, max_regions |-> max_regions, max_backups |-> max_backups],
   next_data_pos |-> 0]

(* A disk, and what the sectors of its lists read as in the place of the   *)
(* header.                                                                 *)
FormattedDisk(valid, own, lists) ==
  [valid |-> valid, sectors |-> [s \in Sector |-> IF s = 0 THEN own ELSE lists]]

Zeros == Fields(0, 0, 0)

(* Lists of one and three sectors, and of two and two; dbfmt writes type   *)
(* 2, design.txt calls a disk database type 3, and type 5 is nobody's. In  *)
(* the lists zeros, another header of type 2, or counts that are too large *)
(* for the stack. Lists whose bytes, in an int, are nothing or negative.   *)
SmallDisks ==
  {FormattedDisk(TRUE, Fields(2, 32, 4), Zeros),
   FormattedDisk(TRUE, Fields(3, 33, 2), Fields(2, 32, 2)),
   FormattedDisk(TRUE, Fields(5, 33, 2), Fields(0, 0, 20)),
   FormattedDisk(TRUE, Fields(3, IntRange \div 16, 2), Zeros),
   FormattedDisk(TRUE, Fields(3, 3 * (IntRange \div 64), 2), Zeros),
   FormattedDisk(FALSE, Fields(3, 32, 4), Zeros)}

(* What dbfmt writes: 32 regions, 32 backups.                              *)
DbfmtDisk == {FormattedDisk(TRUE, Fields(2, 32, 32), Zeros)}

==============================================================================
