---------------------------- MODULE MCBackupRefs ----------------------------
(***************************************************************************)
(* Instances of BackupRefs: three databases, two backup entries each. The  *)
(* first entries form no cycle (NodeLookup says why); the second ones may. *)
(***************************************************************************)
EXTENDS BackupRefs

CONSTANTS d1, d2, d3

List(a, b, c) == [d \in Db |-> [s \in Slot |-> (CASE d = d1 -> a [] d = d2 -> b [] OTHER -> c)[s + 1]]]

(* A chain, one by second entries, a way back, and an entry that does not  *)
(* open in front of one that does.                                         *)
SmallLists ==
  {List(<<d2, d3>>, <<d3, Null>>, <<Null, Null>>),
   List(<<Null, d2>>, <<d3, d1>>, <<Null, d2>>),
   List(<<d2, Null>>, <<Broken, d3>>, <<d2, d1>>)}

==============================================================================
