--------------------------- MODULE MCIdGenerator ---------------------------
EXTENDS IdGenerator

(* static uint64_t next = 44                                               *)
KernelSeed == [hi |-> 0, lo |-> 44]

==============================================================================
