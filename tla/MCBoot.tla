------------------------------- MODULE MCBoot -------------------------------
(***************************************************************************)
(* Instances of Boot: no file, an empty one among others, one file for     *)
(* each node, and one file too many.                                       *)
(***************************************************************************)
EXTENDS Boot

SomeCommandLines == {<<>>, <<2>>, <<1, 0, 3>>, [k \in 1 .. 64 |-> 1], [k \in 1 .. 65 |-> 1]}

==============================================================================
