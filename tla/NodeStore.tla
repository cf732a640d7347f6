------------------------------ MODULE NodeStore ------------------------------
(***************************************************************************)
(* The in-memory node database of the kernel (src/src/node.c, a database   *)
(* whose header has type 1) and the allocator on top of it                 *)
(* (src/src/alloc.c).                                                      *)
(*                                                                         *)
(* An allocation is a node: node_add takes the first null node of the      *)
(* first region that has one, draws an id for it and gives it bytes of the *)
(* data area; alloc then looks the id up again to find the pointer it      *)
(* returns; free deletes the node it finds under the same id and region.   *)
(* The kernel is single-threaded with interrupts off, so a call of alloc   *)
(* or free is one step.                                                    *)
(*                                                                         *)
(* Not here: the backup list is all null (it is, from the time kmain       *)
(* formats the database until it attaches the disk), so a lookup that      *)
(* misses searches nothing else.                                           *)
(***************************************************************************)
EXTENDS Integers

CONSTANTS
  NumNodes,    \* nodes in the node list
  regions,     \* the region list: regions[r].start (included) .. end (excluded)
  Formatted,   \* the nodes that kmain sets to null before the first alloc
  ColdNodes,   \* what a node that nobody initialised may hold
  Sizes,       \* the sizes callers ask alloc for
  IdStream,    \* IdStream[k]: the k-th result of node_generate_id since boot
  MaxDraws,    \* bound: how many ids are drawn
  DataCap,     \* bound: how many bytes of data area are used
  Zero,        \* the byte 0
  Junk         \* a byte nobody chose: cold memory, an uninitialised buffer

NodeIdx == 0 .. NumNodes - 1
Region  == DOMAIN regions
Handle  == 0 .. MaxDraws - 1     \* an allocation is named by the id it drew
Node    == [id : Nat, size : Nat, data_pos : Nat]
NullNode == [id |-> 0, size |-> 0, data_pos |-> 0]

ASSUME StoreAssumption ==
  /\ NumNodes \in Nat /\ MaxDraws \in Nat /\ DataCap \in Nat
  /\ Region \subseteq Nat
  /\ regions \in [Region -> [start : Nat, end : 0 .. NumNodes]]
  /\ Formatted \subseteq NodeIdx
  /\ ColdNodes \subseteq Node
  /\ Sizes \subseteq Nat \ {0}
  /\ IdStream \in [Handle -> Nat \ {0}]
  /\ Zero \notin Handle /\ Junk \notin Handle /\ Zero # Junk

VARIABLES
  nodes,          \* the node list
  next_data_pos,  \* header->next_data_pos: where the data area is used up to
  data,           \* the data area; a byte is Zero, Junk or its writer's name
  drawn,          \* how many ids have been drawn
  handles,        \* handles[h]: the alloc_t the caller got, and what it did with it
  res             \* what the last call of alloc or free returned

vars == <<nodes, next_data_pos, data, drawn, handles, res>>

Results == {"OK", "NOT_FOUND"}   \* the values of error_t these calls return

(* An alloc_t as its holder keeps it: what alloc returned, and what became *)
(* of the block since.                                                     *)
Allocation == [state : {"none", "live", "freed"}, id : Nat, region : Nat,
               ptr : Nat, size : Nat, filled : BOOLEAN]
NoHandle == [state |-> "none", id |-> 0, region |-> 0, ptr |-> 0, size |-> 0,
             filled |-> FALSE]

TypeOK ==
  /\ nodes \in [NodeIdx -> Node]
  /\ next_data_pos \in 0 .. DataCap
  /\ data \in [0 .. DataCap -> Handle \cup {Zero, Junk}]
  /\ drawn \in 0 .. MaxDraws
  /\ handles \in [Handle -> Allocation]
  /\ res \in Results

-----------------------------------------------------------------------------
(* Bugs the code could have had: mutated forms of the helpers below, used  *)
(* to see that the properties would notice.                                *)

SearchesUsedNodes(r) == {i \in NodeIdx : regions[r].start <= i /\ i < regions[r].end}

MatchesAnyNode(list, id, r) ==
  {i \in NodeIdx : regions[r].start <= i /\ i < regions[r].end /\ list[i].id # 0}

CopiesOneTooMany(b, bytes, s, n) ==
  [a \in DOMAIN bytes |-> IF s <= a /\ a <= s + n THEN b ELSE bytes[a]]

GrowsWhenSmaller(old, size)  == size < old.size
GrowsWhenNotEmpty(old, size) == old.size # 0 /\ old.size < size

StoresTheGrowth(old, id, size) ==
  [id |-> id, size |-> size - old.size,
   data_pos |-> IF old.size < size THEN next_data_pos ELSE old.data_pos]

ForgetsToStore(node) == node

-----------------------------------------------------------------------------
(* Helpers.                                                                *)

(* The loops search in index order and stop at the first hit.              *)
First(x, S) == x \in S /\ \A y \in S : x <= y

InRegion(r) == {i \in NodeIdx : regions[r].start <= i /\ i < regions[r].end}

(* node_add walks the region list up to the first entry whose end is 0.    *)
Walked == {r \in Region : \A q \in Region : q <= r => regions[q].end # 0}

FreeIn(r) == {i \in InRegion(r) : nodes[i].id = 0}

(* node_lookup and node_set: the nodes of a region that carry an id.       *)
Matches(list, id, r) == {i \in InRegion(r) : list[i].id = id}

(* memset(s, 0, n) of string.c stores s[n] n times: it clears the one byte *)
(* after the block and none inside it.                                     *)
memset(bytes, s, n) == IF n > 0 THEN [bytes EXCEPT ![s + n] = Zero] ELSE bytes

(* memcpy copies n bytes to position s, all of them the byte b here.       *)
memcpy(b, bytes, s, n) ==
  [a \in DOMAIN bytes |-> IF s <= a /\ a < s + n THEN b ELSE bytes[a]]

(* The node node_add stores in a null node: it keeps the bytes of the null *)
(* node when they suffice and takes new ones otherwise.                    *)
Grows(old, size) == old.size < size
NewNode(old, id, size) ==
  [id |-> id, size |-> size,
   data_pos |-> IF Grows(old, size) THEN next_data_pos ELSE old.data_pos]

(* The null node node_delete stores: only the id changes.                  *)
Deleted(node) == [node EXCEPT !.id = 0]

-----------------------------------------------------------------------------
Init ==
  /\ nodes \in [NodeIdx -> ColdNodes \cup {NullNode}]
  /\ \A i \in Formatted : nodes[i] = NullNode
  /\ next_data_pos = 0
  /\ data = [a \in 0 .. DataCap |-> Junk]
  /\ drawn = 0
  /\ handles = [h \in Handle |-> NoHandle]
  /\ res = "OK"

(* alloc that succeeds: node_add takes null node i of region r, and the    *)
(* lookup of the new id finds node k, whose bytes the caller gets. The     *)
(* buffer alloc copies into the node is not cleared (memset), so what the  *)
(* block holds is Junk.                                                    *)
AllocAt(size, r, i, k) ==
  /\ drawn < MaxDraws                                          \* bound
  /\ Grows(nodes[i], size) => next_data_pos + size <= DataCap  \* bound
  /\ First(r, {q \in Walked : FreeIn(q) # {}})
  /\ First(i, FreeIn(r))
  /\ nodes' = [nodes EXCEPT ![i] = NewNode(nodes[i], IdStream[drawn], size)]
  /\ next_data_pos' = IF Grows(nodes[i], size) THEN next_data_pos + size
                                               ELSE next_data_pos
  /\ data' = memcpy(Junk, data, nodes'[i].data_pos, size)
  /\ First(k, Matches(nodes', IdStream[drawn], r))
  /\ handles' = [handles EXCEPT ![drawn] =
       [state |-> "live", id |-> IdStream[drawn], region |-> r,
        ptr |-> nodes'[k].data_pos, size |-> size, filled |-> FALSE]]
  /\ drawn' = drawn + 1
  /\ res' = "OK"

Alloc(size) == \E r \in Walked, i, k \in NodeIdx : AllocAt(size, r, i, k)

(* alloc when no walked region has a null node.                            *)
AllocFull ==
  /\ \A r \in Walked : FreeIn(r) = {}
  /\ res' = "NOT_FOUND"
  /\ UNCHANGED <<nodes, next_data_pos, data, drawn, handles>>

(* The holder of a block writes all of it.                                 *)
Fill(h) ==
  /\ handles[h].state = "live"
  /\ data' = memcpy(h, data, handles[h].ptr, handles[h].size)
  /\ handles' = [handles EXCEPT ![h].filled = TRUE]
  /\ UNCHANGED <<nodes, next_data_pos, drawn, res>>

(* free of an alloc_t, by its holder or once more later: node_delete looks *)
(* the node up, clears its data and stores it back with id 0.              *)
FreeAt(h, i) ==
  /\ handles[h].state # "none"
  /\ First(i, Matches(nodes, handles[h].id, handles[h].region))
  /\ nodes' = [nodes EXCEPT ![i] = Deleted(nodes[i])]
  /\ data' = memset(data, nodes[i].data_pos, nodes[i].size)
  /\ handles' = [handles EXCEPT ![h].state = "freed"]
  /\ res' = "OK"
  /\ UNCHANGED <<next_data_pos, drawn>>

Free(h) == \E i \in NodeIdx : FreeAt(h, i)

(* free of an alloc_t whose node is gone.                                  *)
FreeMiss(h) ==
  /\ handles[h].state # "none"
  /\ Matches(nodes, handles[h].id, handles[h].region) = {}
  /\ handles' = [handles EXCEPT ![h].state = "freed"]
  /\ res' = "NOT_FOUND"
  /\ UNCHANGED <<nodes, next_data_pos, data, drawn>>

Next ==
  \/ \E size \in Sizes : Alloc(size)
  \/ AllocFull
  \/ \E h \in Handle : Fill(h) \/ Free(h) \/ FreeMiss(h)

Spec == Init /\ [][Next]_vars

-----------------------------------------------------------------------------
(* Properties.                                                             *)

Live == {h \in Handle : handles[h].state = "live"}

(* The bytes of a live allocation, as its holder sees them.                *)
Block(h) == handles[h].ptr .. (handles[h].ptr + handles[h].size - 1)

(* Every node's bytes, null nodes included, lie in the used part of the    *)
(* data area: what a null node keeps for its next user was really handed   *)
(* out to it (the reuse test and the bump of next_data_pos in node_add).   *)
ExtentsBelowNext ==
  \A i \in NodeIdx : nodes[i].data_pos + nodes[i].size <= next_data_pos

(* No two nodes own a common byte, whatever was added, deleted and reused  *)
(* with another size in between.                                           *)
ExtentsDisjoint ==
  \A i, j \in NodeIdx :
    i # j /\ nodes[i].size > 0 /\ nodes[j].size > 0 =>
      \/ nodes[i].data_pos + nodes[i].size <= nodes[j].data_pos
      \/ nodes[j].data_pos + nodes[j].size <= nodes[i].data_pos

(* The alloc_t a caller holds still leads to its own node: the id and the  *)
(* region find, first of all matches, a node with the holder's pointer and *)
(* size (node_get_data and node_delete go through this lookup).            *)
LiveHandleResolves ==
  \A h \in Live : \E i \in NodeIdx :
    /\ First(i, Matches(nodes, handles[h].id, handles[h].region))
    /\ nodes[i].data_pos = handles[h].ptr
    /\ nodes[i].size = handles[h].size

(* A node that is not null belongs to an allocation somebody holds: no     *)
(* sequence of calls leaks one, so alloc fails only when the callers hold  *)
(* every node of the walked regions.                                       *)
NoLeakedNode ==
  \A r \in Walked : \A i \in InRegion(r) :
    nodes[i].id # 0 =>
      \E h \in Live : /\ handles[h].id = nodes[i].id
                      /\ handles[h].ptr = nodes[i].data_pos

(* design.txt:76-77: "once a node is created, it's contents in the data    *)
(* area do not change"; only its holder writes them.                       *)
ContentsStable ==
  \A h \in Live : handles[h].filled => \A a \in Block(h) : data[a] = h

(* What a free nearby can do to a block its holder has written: clear its  *)
(* first byte (the memset of node_delete), and nothing else.               *)
DamageIsFirstByte ==
  \A h \in Live : handles[h].filled =>
    \A a \in Block(h) : data[a] = h \/ (a = handles[h].ptr /\ data[a] = Zero)

(* A call that makes a node null ends exactly one live allocation, the one *)
(* that owned the node: a second free of an alloc_t, even after its node   *)
(* was given to somebody else, deletes nothing.                            *)
OnlyOwnerFrees ==
  [][\A i \in NodeIdx : nodes[i].id # 0 /\ nodes'[i].id = 0 =>
       \E h \in Live : /\ handles'[h].state = "freed"
                       /\ handles[h].id = nodes[i].id
                       /\ handles[h].ptr = nodes[i].data_pos]_vars

(* design.txt:20-21: when a node is deleted its id becomes 0 while its     *)
(* size and index are preserved; here, no call ever changes the bytes of a *)
(* node that stays in use.                                                 *)
ExtentsStable ==
  [][\A i \in NodeIdx :
       nodes[i].id # 0 => /\ nodes'[i].id \in {0, nodes[i].id}
                          /\ nodes'[i].size = nodes[i].size
                          /\ nodes'[i].data_pos = nodes[i].data_pos]_vars

(* The allocator implements BlockHeap: a live block is the holder's        *)
(* pointer and size, and no two live blocks share a byte.                  *)
Heap == INSTANCE BlockHeap WITH
          Addr   <- 0 .. DataCap,
          blocks <- [h \in Handle |-> IF h \in Live THEN Block(h) ELSE {}],
          issued <- 0 .. drawn - 1

ImplementsBlockHeap == Heap!Spec

==============================================================================
