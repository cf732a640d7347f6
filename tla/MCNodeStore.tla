---------------------------- MODULE MCNodeStore ----------------------------
(***************************************************************************)
(* Small instances of NodeStore.                                           *)
(***************************************************************************)
EXTENDS NodeStore, TLC

(* A region of two nodes, one of one node, and the null entry that ends    *)
(* the walk of node_add.                                                   *)
SmallRegions == (0 :> [start |-> 0, end |-> 2]) @@ (1 :> [start |-> 2, end |-> 3])
             @@ (2 :> [start |-> 0, end |-> 0])

(* Memory at the node list before the kernel writes it: zeros.             *)
ZeroedMemory == {NullNode}

(* Ids that do not repeat.                                                 *)
FreshIds == [h \in Handle |-> 2 * (h + 1)]

==============================================================================
