------------------------------ MODULE BlockHeap ------------------------------
(***************************************************************************)
(* What the callers of alloc and free rely on, with no nodes, regions or   *)
(* ids: an allocation is a run of bytes that no other live allocation      *)
(* uses, and it stays where it is until its owner frees it.                *)
(***************************************************************************)
EXTENDS Integers

CONSTANTS
  Handle,   \* the names of the allocations, one per successful alloc
  Sizes,    \* the sizes callers ask for
  Addr      \* the byte positions of the data area

VARIABLES
  blocks,   \* blocks[h]: the bytes that allocation h owns, {} when it owns none
  issued    \* the allocations ever made: a name is used once

vars == <<blocks, issued>>

TypeOK ==
  /\ blocks \in [Handle -> SUBSET Addr]
  /\ issued \subseteq Handle

Init ==
  /\ blocks = [h \in Handle |-> {}]
  /\ issued = {}

(* alloc: a fresh name gets size consecutive bytes that nobody owns.       *)
Allocate(h, size) ==
  /\ h \notin issued
  /\ issued' = issued \cup {h}
  /\ \E base \in Addr :
       LET block == base .. (base + size - 1)
       IN  /\ block \subseteq Addr
           /\ \A g \in Handle : blocks[g] \cap block = {}
           /\ blocks' = [blocks EXCEPT ![h] = block]

(* free by the owner of a live block.                                      *)
Release(h) ==
  /\ blocks[h] # {}
  /\ blocks' = [blocks EXCEPT ![h] = {}]
  /\ UNCHANGED issued

Next ==
  \/ \E h \in Handle, size \in Sizes : Allocate(h, size)
  \/ \E h \in Handle : Release(h)

Spec == Init /\ [][Next]_vars

==============================================================================
