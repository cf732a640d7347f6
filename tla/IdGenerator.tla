---------------------------- MODULE IdGenerator ----------------------------
(***************************************************************************)
(* The ids of nodes: rand, rand64 (src/src/rand.c) and node_generate_id    *)
(* (src/src/node.c).                                                       *)
(*                                                                         *)
(* The generator state is the low 31 bits of `next`, the only ones a later *)
(* result depends on, in two halves: hi (bits 16 .. 30, what rand returns) *)
(* and lo (bits 0 .. 15). Only bits 0 .. 14 and 32 .. 46 of an id can be   *)
(* set; it is kept as the number these 30 bits make side by side.          *)
(*                                                                         *)
(* Two things the C code leaves to the build are chosen once, at boot: the *)
(* order in which rand64 calls rand twice, and what 2 << i is for i >= 32. *)
(***************************************************************************)
EXTENDS Integers, FiniteSetsExt

CONSTANTS
  Seed,     \* the seed: [hi : 0 .. 2^15 - 1, lo : 0 .. 2^16 - 1]
  MaxIds    \* bound: how many ids are drawn

ASSUME IdAssumption ==
  /\ MaxIds \in Nat
  /\ Seed \in [hi : 0 .. 32767, lo : 0 .. 65535]

VARIABLES
  next,         \* the generator state
  ids,          \* the ids drawn so far
  drawn,        \* how many draws that was
  hi_first,     \* rand64 calls the rand of the high half first
  shift_wraps   \* a shift count of 32 or more is taken modulo 32 (x86)

vars == <<next, ids, drawn, hi_first, shift_wraps>>

Bit  == 0 .. 63

-----------------------------------------------------------------------------
(* A bug the code could have had.                                          *)

ReturnsLowBits(n) == n.lo % 32768

-----------------------------------------------------------------------------
(* next * 1103515245 + 12345, on halves: 1103515245 = 16838 * 65536 + 20077. *)
Advance(n) ==
  LET low == n.lo * 20077 + 12345
  IN  [hi |-> (n.hi * 20077 + n.lo * 16838 + low \div 65536) % 32768,
       lo |-> low % 65536]

(* (next / 65536) % 32768                                                  *)
rand(n) == n.hi

(* Bit b of the 15-bit number r.                                           *)
HasBit(r, b) == b \in 0 .. 14 /\ (r \div 2 ^ b) % 2 = 1

(* The bits of 2 << i, an int converted to 64 bits: 2 << 30 is negative    *)
(* and 2 << 31 is 0.                                                       *)
Mask(i) ==
  LET k == IF shift_wraps THEN i % 32 ELSE i
  IN  {b \in Bit : (k < 30 /\ b = k + 1) \/ (k = 30 /\ b >= 31)}

(* One iteration of the loop of node_generate_id: out |= rand64() & (2 << i) *)
LoopState == [i : 0 .. 64, next : [hi : 0 .. 32767, lo : 0 .. 65535], out : SUBSET Bit]

Iterate(s) ==
  LET n1 == Advance(s.next)
      n2 == Advance(n1)
      hi == IF hi_first THEN rand(n1) ELSE rand(n2)
      lo == IF hi_first THEN rand(n2) ELSE rand(n1)
  IN  [i |-> s.i + 1, next |-> n2,
       out |-> s.out \cup {b \in Mask(s.i) : HasBit(lo, b) \/ HasBit(hi, b - 32)}]

(* 2^k iterations: the first half of them, then the second half.           *)
Iterations[k \in 0 .. 6, s \in LoopState] ==
  IF k = 0 THEN Iterate(s) ELSE Iterations[k - 1, Iterations[k - 1, s]]

node_generate_id(n) == Iterations[6, [i |-> 0, next |-> n, out |-> {}]]

Packed(bits) == MapThenSumSet(LAMBDA b : 2 ^ (IF b < 32 THEN b ELSE b - 17), bits)

-----------------------------------------------------------------------------
Init ==
  /\ next = Seed
  /\ ids = {}
  /\ drawn = 0
  /\ hi_first \in BOOLEAN
  /\ shift_wraps \in BOOLEAN

Generate ==
  /\ drawn < MaxIds    \* bound
  /\ LET id == node_generate_id(next)
     IN  /\ next' = id.next
         /\ ids' = ids \cup {Packed(id.out)}
  /\ drawn' = drawn + 1
  /\ UNCHANGED <<hi_first, shift_wraps>>

Next == Generate

Spec == Init /\ [][Next]_vars

-----------------------------------------------------------------------------
(* No id is drawn twice, and 0 never: what a lookup by id and region takes *)
(* for granted, as node_add does not look whether the id is in use, and a  *)
(* node with id 0 is a null node, which the next node_add would hand out.  *)
IdsDiffer == Cardinality(ids \ {0}) = drawn

==============================================================================
