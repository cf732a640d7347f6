-------------------------- MODULE NodeStoreProofs --------------------------
(***************************************************************************)
(* What holds of NodeStore for every number of nodes, every region list,   *)
(* every set of sizes and every stream of ids.                             *)
(***************************************************************************)
EXTENDS NodeStore, TLAPS

(* The memory of the node list reads as zeros before kmain writes it.      *)
Zeroed == ColdNodes \subseteq {NullNode}

(* Intervals that end before the other begins have no common number.       *)
LEMMA IntervalsApart ==
  ASSUME NEW a \in Nat, NEW m \in Nat, NEW b \in Nat, NEW n \in Nat,
         a + m <= b \/ b + n <= a
  PROVE  (a .. (a + m - 1)) \cap (b .. (b + n - 1)) = {}
  OBVIOUS

USE StoreAssumption DEF Region, Handle, NodeIdx

-----------------------------------------------------------------------------
(* memset and memcpy only store bytes where there are bytes.               *)
LEMMA MemTypes ==
  ASSUME NEW B, NEW bytes \in [0 .. DataCap -> B], NEW s, NEW n, NEW b \in B
  PROVE  /\ Zero \in B => memset(bytes, s, n) \in [0 .. DataCap -> B]
         /\ memcpy(b, bytes, s, n) \in [0 .. DataCap -> B]
  BY DEF memset, memcpy

(* The node stored by node_add is well typed.                              *)
LEMMA NewNodeType ==
  ASSUME next_data_pos \in Nat, NEW old \in Node, NEW id \in Nat, NEW size \in Nat \ {0}
  PROVE  NewNode(old, id, size) \in Node
  BY DEF NewNode, Node

-----------------------------------------------------------------------------
(* Every variable keeps its type; the ids and sizes are those of the       *)
(* callers and the generator, next_data_pos stays within its bound.        *)
LEMMA TypeInit == Init => TypeOK
  <1> SUFFICES ASSUME Init PROVE TypeOK
    OBVIOUS
  <1>1. nodes \in [NodeIdx -> Node]
    BY DEF Init, Node, NullNode
  <1>2. NoHandle \in Allocation
    BY DEF NoHandle, Allocation
  <1> QED
    BY <1>1, <1>2 DEF Init, TypeOK, Results

(* The types of the list and of the allocations, without the data area.    *)
StoreTyped ==
  /\ nodes \in [NodeIdx -> Node] /\ next_data_pos \in Nat
  /\ drawn \in 0 .. MaxDraws /\ handles \in [Handle -> Allocation]

(* What the other modules need of TypeOK.                                  *)
LEMMA TypeIsStore == TypeOK => StoreTyped
  BY DEF TypeOK, StoreTyped

(* An allocation keeps the node list and the handles well typed.           *)
LEMMA StoreAlloc ==
  ASSUME StoreTyped, NEW size \in Nat \ {0}, NEW r \in Walked, NEW i \in NodeIdx,
         NEW k \in NodeIdx, AllocAt(size, r, i, k)
  PROVE  StoreTyped'
  <1> USE DEF StoreTyped
  <1>1. drawn \in Handle /\ IdStream[drawn] \in Nat /\ size \in Nat /\ r \in Nat
    BY DEF AllocAt, Walked
  <1>2. nodes' \in [NodeIdx -> Node]
    BY <1>1, NewNodeType DEF AllocAt
  <1>3. next_data_pos' \in Nat
    BY <1>1 DEF AllocAt
  <1>4. [state |-> "live", id |-> IdStream[drawn], region |-> r,
         ptr |-> nodes'[k].data_pos, size |-> size, filled |-> FALSE] \in Allocation
    BY <1>1, <1>2 DEF Allocation, Node
  <1>5. handles' \in [Handle -> Allocation]
    BY <1>1, <1>4 DEF AllocAt
  <1>6. drawn' \in 0 .. MaxDraws
    BY DEF AllocAt
  <1> QED
    BY <1>2, <1>3, <1>5, <1>6

(* An allocation keeps TypeOK.                                             *)
LEMMA TypeAlloc ==
  ASSUME TypeOK, NEW size \in Nat \ {0}, NEW r \in Walked, NEW i \in NodeIdx,
         NEW k \in NodeIdx, AllocAt(size, r, i, k)
  PROVE  TypeOK'
  <1>1. StoreTyped'
    BY StoreAlloc, TypeIsStore
  <1>2. size \in Nat
    OBVIOUS
  <1>3. next_data_pos' \in 0 .. DataCap
    BY <1>2 DEF AllocAt, TypeOK
  <1>4. data' \in [0 .. DataCap -> Handle \cup {Zero, Junk}]
    BY MemTypes DEF AllocAt, TypeOK
  <1> QED
    BY <1>1, <1>3, <1>4 DEF AllocAt, TypeOK, StoreTyped, Results

(* A free keeps TypeOK.                                                    *)
LEMMA TypeFree ==
  ASSUME TypeOK, NEW h \in Handle, NEW i \in NodeIdx, FreeAt(h, i)
  PROVE  TypeOK'
  <1> USE DEF TypeOK
  <1>1. nodes' \in [NodeIdx -> Node]
    BY DEF FreeAt, Deleted, Node
  <1>2. data' \in [0 .. DataCap -> Handle \cup {Zero, Junk}]
    BY MemTypes DEF FreeAt
  <1>3. handles' \in [Handle -> Allocation]
    BY ZenonT(30) DEF FreeAt, Allocation
  <1> QED
    BY <1>1, <1>2, <1>3 DEF FreeAt, Results

(* Every step keeps TypeOK.                                                *)
LEMMA TypeNext == TypeOK /\ [Next]_vars => TypeOK'
  <1> SUFFICES ASSUME TypeOK, [Next]_vars PROVE TypeOK'
    OBVIOUS
  <1>1. ASSUME NEW size \in Sizes, Alloc(size) PROVE TypeOK'
    BY <1>1, TypeAlloc DEF Alloc
  <1>2. CASE AllocFull
    BY <1>2 DEF AllocFull, TypeOK, Results
  <1>3. ASSUME NEW h \in Handle, Fill(h) PROVE TypeOK'
    <2>1. data' \in [0 .. DataCap -> Handle \cup {Zero, Junk}]
      BY <1>3, MemTypes DEF Fill, TypeOK
    <2>2. handles' \in [Handle -> Allocation]
      BY ZenonT(30), <1>3 DEF Fill, TypeOK, Allocation
    <2> QED
      BY <1>3, <2>1, <2>2 DEF Fill, TypeOK
  <1>4. ASSUME NEW h \in Handle, Free(h) PROVE TypeOK'
    BY <1>4, TypeFree DEF Free
  <1>5. ASSUME NEW h \in Handle, FreeMiss(h) PROVE TypeOK'
    BY ZenonT(30), <1>5 DEF FreeMiss, TypeOK, Allocation, Results
  <1>6. CASE UNCHANGED vars
    BY <1>6 DEF vars, TypeOK
  <1> QED
    BY <1>1, <1>2, <1>3, <1>4, <1>5, <1>6 DEF Next

(* TypeOK is invariant, for every node list, region list and set of sizes. *)
THEOREM TypeCorrect == Spec => []TypeOK
  BY TypeInit, TypeNext, PTL DEF Spec

-----------------------------------------------------------------------------
(* No two nodes share a byte. The invariant is inductive with its two      *)
(* parts together: a node that grows is put at next_data_pos, which is     *)
(* apart from the others only because they all end at or before it. Nothing *)
(* is asked of the ids.                                                    *)
Extents == ExtentsBelowNext /\ ExtentsDisjoint

(* Null nodes own no bytes.                                                *)
LEMMA ExtentsInit == ASSUME Zeroed PROVE Init => Extents
  <1> SUFFICES ASSUME Init PROVE Extents
    OBVIOUS
  <1>1. \A i \in NodeIdx : nodes[i] = NullNode
    BY DEF Init, Zeroed
  <1> QED
    BY <1>1 DEF Init, Extents, ExtentsBelowNext, ExtentsDisjoint, NullNode

(* It is enough that the one node that changed is apart from the others.   *)
LEMMA DisjointButOne ==
  ASSUME ExtentsDisjoint, NEW i \in NodeIdx,
         \A j \in NodeIdx : j # i => nodes'[j] = nodes[j],
         \A j \in NodeIdx : j # i /\ nodes[j].size > 0 =>
            \/ nodes'[i].data_pos + nodes'[i].size <= nodes[j].data_pos
            \/ nodes[j].data_pos + nodes[j].size <= nodes'[i].data_pos
  PROVE  ExtentsDisjoint'
  <1> SUFFICES ASSUME NEW a \in NodeIdx, NEW b \in NodeIdx, a # b,
                      nodes'[a].size > 0, nodes'[b].size > 0
               PROVE  \/ nodes'[a].data_pos + nodes'[a].size <= nodes'[b].data_pos
                      \/ nodes'[b].data_pos + nodes'[b].size <= nodes'[a].data_pos
    BY DEF ExtentsDisjoint
  <1>1. CASE a = i
    <2>1. nodes'[b] = nodes[b]
      BY <1>1
    <2> QED
      BY <1>1, <2>1
  <1>2. CASE b = i
    <2>1. nodes'[a] = nodes[a]
      BY <1>2
    <2> QED
      BY <1>2, <2>1
  <1>3. CASE a # i /\ b # i
    <2>1. nodes'[a] = nodes[a] /\ nodes'[b] = nodes[b]
      BY <1>3
    <2> QED
      BY <2>1 DEF ExtentsDisjoint
  <1> QED
    BY <1>1, <1>2, <1>3

(* Only the node that node_add takes changes, to bytes of its own or to    *)
(* bytes past next_data_pos.                                               *)
LEMMA ExtentsAlloc ==
  ASSUME StoreTyped, Extents, NEW size \in Nat \ {0}, NEW r \in Walked, NEW i \in NodeIdx,
         NEW k \in NodeIdx, AllocAt(size, r, i, k)
  PROVE  Extents'
  <1>1. size \in Nat /\ size > 0 /\ next_data_pos \in Nat
    <2>1. size \in Nat \ {0}
      OBVIOUS
    <2> QED
      BY <2>1 DEF StoreTyped
  <1>2. \A j \in NodeIdx : nodes[j].size \in Nat /\ nodes[j].data_pos \in Nat
    BY DEF StoreTyped, Node
  <1>3. \A j \in NodeIdx : j # i => nodes'[j] = nodes[j]
    BY DEF AllocAt, StoreTyped
  <1>4. nodes'[i].size = size
    BY DEF AllocAt, StoreTyped, NewNode
  <1>5. CASE Grows(nodes[i], size)
    <2>1. nodes'[i].data_pos = next_data_pos /\ next_data_pos' = next_data_pos + size
      BY <1>5 DEF AllocAt, StoreTyped, NewNode
    <2>2. ASSUME NEW j \in NodeIdx
          PROVE  nodes'[j].data_pos + nodes'[j].size <= next_data_pos'
      <3>1. CASE j = i
        BY <1>1, <1>4, <2>1, <3>1
      <3>2. CASE j # i
        <4> DEFINE p == nodes[j].data_pos
                   n == nodes[j].size
        <4>1. p + n <= next_data_pos /\ p \in Nat /\ n \in Nat
          BY <1>2 DEF Extents, ExtentsBelowNext
        <4> HIDE DEF p, n
        <4>2. p + n <= next_data_pos + size
          BY <1>1, <4>1
        <4> QED
          BY <1>3, <2>1, <3>2, <4>2 DEF p, n
      <3> QED
        BY <3>1, <3>2
    <2>3. \A j \in NodeIdx : j # i => nodes[j].data_pos + nodes[j].size <= nodes'[i].data_pos
      BY <2>1 DEF Extents, ExtentsBelowNext
    <2>4. ExtentsDisjoint'
      BY <1>3, <2>3, DisjointButOne DEF Extents
    <2> QED
      BY <2>2, <2>4 DEF Extents, ExtentsBelowNext
  <1>6. CASE ~ Grows(nodes[i], size)
    <2>1. nodes'[i].data_pos = nodes[i].data_pos /\ next_data_pos' = next_data_pos
      BY <1>6 DEF AllocAt, StoreTyped, NewNode
    <2>2. size <= nodes[i].size
      BY <1>1, <1>2, <1>6 DEF Grows
    <2>3. ExtentsBelowNext'
      BY SMTT(30), <1>1, <1>2, <1>3, <1>4, <2>1, <2>2 DEF Extents, ExtentsBelowNext
    <2>4. \A j \in NodeIdx : j # i /\ nodes[j].size > 0 =>
            \/ nodes[i].data_pos + size <= nodes[j].data_pos
            \/ nodes[j].data_pos + nodes[j].size <= nodes[i].data_pos
      <3> SUFFICES ASSUME NEW j \in NodeIdx, j # i, nodes[j].size > 0
                   PROVE  \/ nodes[i].data_pos + size <= nodes[j].data_pos
                          \/ nodes[j].data_pos + nodes[j].size <= nodes[i].data_pos
        OBVIOUS
      <3> DEFINE p == nodes[i].data_pos
                 n == nodes[i].size
                 q == nodes[j].data_pos
                 m == nodes[j].size
      <3>1. p \in Nat /\ n \in Nat /\ q \in Nat /\ m \in Nat /\ n > 0
        BY <1>1, <1>2, <2>2
      <3>2. p + n <= q \/ q + m <= p
        BY <3>1 DEF Extents, ExtentsDisjoint
      <3>3. size <= n
        BY <2>2
      <3> HIDE DEF p, n, q, m
      <3>4. p + size <= q \/ q + m <= p
        BY <1>1, <3>1, <3>2, <3>3
      <3> QED
        BY <3>4 DEF p, q, m
    <2>5. ExtentsDisjoint'
      BY <1>3, <1>4, <2>1, <2>4, DisjointButOne DEF Extents
    <2> QED
      BY <2>3, <2>5 DEF Extents
  <1> QED
    BY <1>5, <1>6

(* A call that leaves every size and data_pos and next_data_pos alone      *)
(* keeps the extents.                                                      *)
LEMMA ExtentsSame ==
  ASSUME StoreTyped, Extents, next_data_pos' = next_data_pos,
         \A i \in NodeIdx : /\ nodes'[i].size = nodes[i].size
                            /\ nodes'[i].data_pos = nodes[i].data_pos
  PROVE  Extents'
  BY DEF Extents, ExtentsBelowNext, ExtentsDisjoint

(* Every step keeps Extents: only node_add moves a node, and next_data_pos *)
(* with it.                                                                *)
LEMMA ExtentsNext == StoreTyped /\ Extents /\ [Next]_vars => Extents'
  <1> SUFFICES ASSUME StoreTyped, Extents, [Next]_vars PROVE Extents'
    OBVIOUS
  <1>1. ASSUME NEW size \in Sizes, Alloc(size) PROVE Extents'
    BY <1>1, ExtentsAlloc DEF Alloc
  <1>2. ASSUME NEW h \in Handle, Free(h) PROVE Extents'
    <2> PICK i \in NodeIdx : FreeAt(h, i)
      BY <1>2 DEF Free
    <2>1. \A j \in NodeIdx : /\ nodes'[j].size = nodes[j].size
                             /\ nodes'[j].data_pos = nodes[j].data_pos
      BY DEF FreeAt, Deleted, StoreTyped, Node
    <2> QED
      BY <2>1, ExtentsSame DEF FreeAt
  <1>3. ASSUME UNCHANGED <<nodes, next_data_pos>> PROVE Extents'
    BY <1>3, ExtentsSame
  <1> QED
    BY <1>1, <1>2, <1>3 DEF Next, AllocFull, Fill, FreeMiss, vars

(* No two nodes ever own a common byte and none reaches past               *)
(* next_data_pos, for every instance whose memory was zero at boot: the    *)
(* reuse rule of node_add is sound.                                        *)
THEOREM NoOverlap ==
  ASSUME Zeroed
  PROVE  Spec => [](ExtentsBelowNext /\ ExtentsDisjoint)
  <1>1. Init => TypeOK /\ Extents
    BY TypeInit, ExtentsInit
  <1>2. TypeOK /\ Extents /\ [Next]_vars => (TypeOK /\ Extents)'
    BY TypeNext, TypeIsStore, ExtentsNext
  <1>3. Extents => ExtentsBelowNext /\ ExtentsDisjoint
    BY DEF Extents
  <1> QED
    BY <1>1, <1>2, <1>3, PTL DEF Spec

-----------------------------------------------------------------------------
(* From here on the ids do not repeat: node_generate_id has not come round *)
(* (module IdGenerator shows how long that lasts).                         *)
Fresh == \A g, h \in Handle : IdStream[g] = IdStream[h] => g = h

(* Node i is the node of allocation h.                                     *)
Owns(h, i) ==
  /\ i \in InRegion(handles[h].region)
  /\ nodes[i].id = handles[h].id
  /\ nodes[i].data_pos = handles[h].ptr
  /\ nodes[i].size = handles[h].size

(* The strengthening of LiveHandleResolves and NoLeakedNode that a step    *)
(* preserves: live allocations and used nodes belong to each other one to  *)
(* one, and an allocation is known by the id it drew, so that a stale      *)
(* alloc_t matches no node.                                                *)
HandlesDrawn ==
  \A h \in Handle : /\ handles[h].state = "none" <=> drawn <= h
                    /\ h < drawn => /\ handles[h].id = IdStream[h]
                                    /\ handles[h].size \in Nat \ {0}
UniqueIds  == \A i, j \in NodeIdx :
                nodes[i].id # 0 /\ nodes[i].id = nodes[j].id => i = j
LiveOwns   == \A h \in Live : \E i \in NodeIdx : Owns(h, i)
NodesOwned == \A i \in NodeIdx : nodes[i].id # 0 => \E h \in Live : Owns(h, i)

Ownership == HandlesDrawn /\ UniqueIds /\ LiveOwns /\ NodesOwned

(* No id is drawn and no node used at the start.                           *)
LEMMA OwnershipInit == ASSUME Zeroed PROVE Init => Ownership
  <1> SUFFICES ASSUME Init PROVE Ownership
    OBVIOUS
  <1>1. \A i \in NodeIdx : nodes[i].id = 0
    BY DEF Init, Zeroed, NullNode
  <1>2. \A h \in Handle : handles[h].state = "none" /\ 0 <= h
    BY DEF Init, NoHandle
  <1> QED
    BY <1>1, <1>2 DEF Init, Ownership, HandlesDrawn, UniqueIds, LiveOwns,
       NodesOwned, Live

(* A live allocation has drawn its id.                                     *)
LEMMA LiveDrawn ==
  ASSUME StoreTyped, Ownership, NEW h \in Handle, handles[h].state # "none"
  PROVE  h < drawn /\ handles[h].id = IdStream[h] /\ handles[h].size \in Nat \ {0}
  BY DEF StoreTyped, Ownership, HandlesDrawn

(* Under the ownership invariant an id leads to one allocation only.       *)
LEMMA OwnerIsHolder ==
  ASSUME Fresh, StoreTyped, Ownership, NEW h \in Handle, handles[h].state # "none",
         NEW i \in NodeIdx, i \in Matches(nodes, handles[h].id, handles[h].region)
  PROVE  h \in Live /\ Owns(h, i)
  <1>1. nodes[i].id = IdStream[h] /\ handles[h].id = IdStream[h]
    BY LiveDrawn DEF Matches
  <1>2. nodes[i].id # 0
    BY <1>1
  <1>3. PICK g \in Live : Owns(g, i)
    BY <1>2 DEF Ownership, NodesOwned
  <1>4. g \in Handle /\ IdStream[g] = IdStream[h]
    BY <1>1, <1>3, LiveDrawn DEF Owns, Live
  <1> QED
    BY <1>3, <1>4 DEF Fresh

(* The lookup alloc makes after node_add finds the node node_add took.     *)
LEMMA AllocFindsItsNode ==
  ASSUME Fresh, StoreTyped, Ownership, NEW size \in Nat \ {0}, NEW r \in Walked,
         NEW i \in NodeIdx, NEW k \in NodeIdx, AllocAt(size, r, i, k)
  PROVE  /\ k = i
         /\ \A j \in NodeIdx : nodes[j].id # IdStream[drawn]
  <1>1. drawn \in Handle /\ IdStream[drawn] # 0
    BY DEF AllocAt, StoreTyped
  <1>2. ASSUME NEW j \in NodeIdx, nodes[j].id = IdStream[drawn] PROVE FALSE
    <2>1. PICK g \in Live : Owns(g, j)
      BY <1>1, <1>2 DEF Ownership, NodesOwned
    <2>2. g < drawn /\ IdStream[g] = IdStream[drawn] /\ g \in Handle
      BY <1>2, <2>1, LiveDrawn DEF Owns, Live
    <2> QED
      BY <1>1, <2>2 DEF Fresh
  <1>3. nodes'[k].id = IdStream[drawn]
    BY DEF AllocAt, First, Matches
  <1>4. k # i => nodes'[k] = nodes[k]
    BY DEF AllocAt, StoreTyped
  <1> QED
    BY <1>2, <1>3, <1>4

(* alloc adds one allocation and the node it owns.                         *)
LEMMA OwnershipAlloc ==
  ASSUME Fresh, StoreTyped, Ownership, NEW size \in Nat \ {0}, NEW r \in Walked,
         NEW i \in NodeIdx, NEW k \in NodeIdx, AllocAt(size, r, i, k)
  PROVE  Ownership'
  <1> PICK d \in Handle : d = drawn
    BY DEF AllocAt, StoreTyped
  <1> DEFINE new == IdStream[d]
  <1>1. d \in Handle /\ new # 0 /\ drawn' = d + 1
    BY DEF AllocAt
  <1>2. k = i /\ \A j \in NodeIdx : nodes[j].id # new
    BY AllocFindsItsNode
  <1>3. nodes[i].id = 0 /\ i \in InRegion(r)
    BY DEF AllocAt, First, FreeIn
  <1>4. /\ nodes'[i].id = new /\ nodes'[i].size = size
        /\ \A j \in NodeIdx : j # i => nodes'[j] = nodes[j]
    BY DEF AllocAt, NewNode, StoreTyped
  <1>5. /\ handles'[d].state = "live" /\ handles'[d].id = new
        /\ handles'[d].region = r /\ handles'[d].size = size
        /\ handles'[d].ptr = nodes'[i].data_pos
        /\ \A h \in Handle : h # d => handles'[h] = handles[h]
    BY <1>1, <1>2 DEF AllocAt, StoreTyped
  <1>6. d \notin Live
    BY <1>1, LiveDrawn DEF Live
  <1>7. \A h \in Live, j \in NodeIdx : Owns(h, j) => j # i /\ Owns(h, j)'
    <2> SUFFICES ASSUME NEW h \in Live, NEW j \in NodeIdx, Owns(h, j)
                 PROVE  j # i /\ Owns(h, j)'
      OBVIOUS
    <2>1. nodes[j].id # 0
      BY LiveDrawn DEF Owns, Live, StoreTyped
    <2>2. j # i /\ h # d /\ h \in Handle
      BY <1>3, <1>6, <2>1 DEF Live
    <2> QED
      BY <1>4, <1>5, <2>2 DEF Owns, InRegion
  <1>8. Live' = Live \cup {d}
    BY <1>1, <1>5 DEF Live
  <1>9. Owns(d, i)'
    BY <1>3, <1>4, <1>5 DEF Owns, InRegion
  <1> HIDE DEF new
  <1>10. HandlesDrawn'
    <2> SUFFICES ASSUME NEW h \in Handle
                 PROVE  /\ handles'[h].state = "none" <=> drawn' <= h
                        /\ h < drawn' => /\ handles'[h].id = IdStream[h]
                                         /\ handles'[h].size \in Nat \ {0}
      BY DEF HandlesDrawn
    <2>1. CASE h = d
      BY <1>1, <1>5, <2>1 DEF new
    <2>2. CASE h # d
      <3>1. (drawn' <= h <=> drawn <= h) /\ (h < drawn' <=> h < drawn)
        BY <1>1, <2>2
      <3>2. handles'[h] = handles[h]
        BY <1>5, <2>2
      <3> QED
        BY <3>1, <3>2 DEF Ownership, HandlesDrawn
    <2> QED
      BY <2>1, <2>2
  <1>11. UniqueIds'
    BY <1>2, <1>4 DEF Ownership, UniqueIds
  <1>12. LiveOwns'
    BY <1>7, <1>8, <1>9 DEF Ownership, LiveOwns
  <1>13. NodesOwned'
    BY <1>4, <1>7, <1>8, <1>9 DEF Ownership, NodesOwned
  <1> QED
    BY <1>10, <1>11, <1>12, <1>13 DEF Ownership

(* free by the holder takes its node and nobody else's; a later free of    *)
(* the same alloc_t finds nothing, so a node is released by its holder.    *)
Releases(h, i) ==
  /\ handles[h].state # "none"
  /\ First(i, Matches(nodes, handles[h].id, handles[h].region))
  /\ nodes' = [nodes EXCEPT ![i] = Deleted(nodes[i])]
  /\ handles' = [handles EXCEPT ![h].state = "freed"]
  /\ drawn' = drawn

(* A free takes the node and the live allocation that own each other,      *)
(* together.                                                               *)
LEMMA OwnershipFree ==
  ASSUME Fresh, StoreTyped, Ownership, NEW h \in Handle, NEW i \in NodeIdx, Releases(h, i)
  PROVE  Ownership'
  <1>1. h \in Live /\ Owns(h, i)
    BY OwnerIsHolder DEF Releases, First
  <1>2. /\ nodes'[i].id = 0
        /\ \A j \in NodeIdx : j # i => nodes'[j] = nodes[j]
    BY DEF Releases, Deleted, StoreTyped, Node
  <1>3. /\ handles'[h].state = "freed" /\ handles'[h].id = handles[h].id
        /\ handles'[h].size = handles[h].size
        /\ \A g \in Handle : g # h => handles'[g] = handles[g]
    BY DEF Releases, StoreTyped, Allocation
  <1>4. Live' = Live \ {h} /\ drawn' = drawn
    BY <1>3 DEF Live, Releases
  <1>5. \A g \in Live : g # h => \A j \in NodeIdx : Owns(g, j) => j # i /\ Owns(g, j)'
    <2> SUFFICES ASSUME NEW g \in Live, g # h, NEW j \in NodeIdx, Owns(g, j)
                 PROVE  j # i /\ Owns(g, j)'
      OBVIOUS
    <2>1. g \in Handle /\ IdStream[g] # IdStream[h]
      BY DEF Live, Fresh
    <2>2. nodes[i].id = IdStream[h] /\ nodes[j].id = IdStream[g]
      BY <1>1, LiveDrawn DEF Owns, Live
    <2>3. j # i
      BY <2>1, <2>2
    <2> QED
      BY <1>2, <1>3, <2>1, <2>3 DEF Owns, InRegion
  <1>6. HandlesDrawn'
    <2> SUFFICES ASSUME NEW g \in Handle
                 PROVE  /\ handles'[g].state = "none" <=> drawn' <= g
                        /\ g < drawn' => /\ handles'[g].id = IdStream[g]
                                         /\ handles'[g].size \in Nat \ {0}
      BY DEF HandlesDrawn
    <2>1. CASE g = h
      <3>1. ~ (drawn <= h)
        BY <1>1 DEF Live, Ownership, HandlesDrawn
      <3> QED
        BY <1>1, <1>3, <1>4, <2>1, <3>1 DEF Ownership, HandlesDrawn
    <2>2. CASE g # h
      BY <1>3, <1>4, <2>2 DEF Ownership, HandlesDrawn
    <2> QED
      BY <2>1, <2>2
  <1>7. UniqueIds'
    BY <1>2 DEF Ownership, UniqueIds
  <1>8. LiveOwns'
    BY <1>4, <1>5 DEF Ownership, LiveOwns
  <1>9. NodesOwned'
    <2> SUFFICES ASSUME NEW j \in NodeIdx, nodes'[j].id # 0
                 PROVE  \E g \in Live' : Owns(g, j)'
      BY DEF NodesOwned
    <2>1. j # i /\ nodes[j] = nodes'[j]
      BY <1>2
    <2>2. PICK g \in Live : Owns(g, j)
      BY <2>1 DEF Ownership, NodesOwned
    <2>3. g # h
      <3> SUFFICES ASSUME g = h PROVE FALSE
        OBVIOUS
      <3>1. nodes[i].id = nodes[j].id
        BY <1>1, <2>2 DEF Owns
      <3> QED
        BY <2>1, <3>1 DEF Ownership, UniqueIds
    <2> QED
      BY <1>4, <1>5, <2>2, <2>3
  <1> QED
    BY <1>6, <1>7, <1>8, <1>9 DEF Ownership

(* Calls that change no node and no alloc_t but for the holder's notes.    *)
LEMMA OwnershipSame ==
  ASSUME Ownership, nodes' = nodes, drawn' = drawn,
         \A h \in Handle : /\ handles'[h].state = handles[h].state
                           /\ handles'[h].id = handles[h].id
                           /\ handles'[h].region = handles[h].region
                           /\ handles'[h].ptr = handles[h].ptr
                           /\ handles'[h].size = handles[h].size
  PROVE  Ownership'
  <1>1. Live' = Live
    BY DEF Live
  <1>2. \A h \in Live, i \in NodeIdx : Owns(h, i) => Owns(h, i)'
    BY DEF Owns, InRegion, Live
  <1>3. HandlesDrawn' /\ UniqueIds'
    BY DEF Ownership, HandlesDrawn, UniqueIds
  <1>4. LiveOwns' /\ NodesOwned'
    BY <1>1, <1>2 DEF Ownership, LiveOwns, NodesOwned
  <1> QED
    BY <1>3, <1>4 DEF Ownership

(* A free that misses is never by the holder of a live block.              *)
LEMMA MissIsStale ==
  ASSUME StoreTyped, Ownership, NEW h \in Handle, FreeMiss(h)
  PROVE  handles[h].state = "freed"
  <1> SUFFICES ASSUME h \in Live PROVE FALSE
    BY DEF FreeMiss, StoreTyped, Allocation, Live
  <1>1. PICK i \in NodeIdx : Owns(h, i)
    BY DEF Ownership, LiveOwns
  <1>2. i \in Matches(nodes, handles[h].id, handles[h].region)
    BY <1>1 DEF Owns, Matches
  <1> QED
    BY <1>2 DEF FreeMiss

(* Every step keeps Ownership.                                             *)
LEMMA OwnershipNext ==
  ASSUME Fresh
  PROVE  StoreTyped /\ Ownership /\ [Next]_vars => Ownership'
  <1> SUFFICES ASSUME StoreTyped, Ownership, [Next]_vars PROVE Ownership'
    OBVIOUS
  <1>1. ASSUME NEW size \in Sizes, Alloc(size) PROVE Ownership'
    BY <1>1, OwnershipAlloc DEF Alloc
  <1>2. CASE AllocFull
    BY <1>2, OwnershipSame DEF AllocFull
  <1>3. ASSUME NEW h \in Handle, Fill(h) PROVE Ownership'
    <2>1. \A g \in Handle : /\ handles'[g].state = handles[g].state
                            /\ handles'[g].id = handles[g].id
                            /\ handles'[g].region = handles[g].region
                            /\ handles'[g].ptr = handles[g].ptr
                            /\ handles'[g].size = handles[g].size
      BY <1>3 DEF Fill, StoreTyped, Allocation
    <2> QED
      BY <1>3, <2>1, OwnershipSame DEF Fill
  <1>4. ASSUME NEW h \in Handle, Free(h) PROVE Ownership'
    BY <1>4, OwnershipFree DEF Free, FreeAt, Releases
  <1>5. ASSUME NEW h \in Handle, FreeMiss(h) PROVE Ownership'
    <2>1. handles[h].state = "freed"
      BY <1>5, MissIsStale
    <2>2. handles' = handles
      BY <1>5, <2>1 DEF FreeMiss, StoreTyped, Allocation
    <2> QED
      BY <1>5, <2>2, OwnershipSame DEF FreeMiss
  <1>6. CASE UNCHANGED vars
    BY <1>6, OwnershipSame DEF vars
  <1> QED
    BY <1>1, <1>2, <1>3, <1>4, <1>5, <1>6 DEF Next

(* Ownership gives the two properties of the runs: live handles resolve,   *)
(* and no used node is without a holder.                                   *)
LEMMA OwnershipImplies ==
  StoreTyped /\ Ownership => LiveHandleResolves /\ NoLeakedNode
  <1> SUFFICES ASSUME StoreTyped, Ownership PROVE LiveHandleResolves /\ NoLeakedNode
    OBVIOUS
  <1>1. ASSUME NEW h \in Live
        PROVE  \E i \in NodeIdx :
                 /\ First(i, Matches(nodes, handles[h].id, handles[h].region))
                 /\ nodes[i].data_pos = handles[h].ptr
                 /\ nodes[i].size = handles[h].size
    <2>1. PICK i \in NodeIdx : Owns(h, i)
      BY DEF Ownership, LiveOwns
    <2>2. i \in Matches(nodes, handles[h].id, handles[h].region)
      BY <2>1 DEF Owns, Matches
    <2>3. nodes[i].id # 0
      <3>1. handles[h].id = IdStream[h] /\ h \in Handle
        BY LiveDrawn DEF Live
      <3> QED
        BY <2>1, <3>1 DEF Owns
    <2>4. \A j \in Matches(nodes, handles[h].id, handles[h].region) : j = i
      BY <2>1, <2>3 DEF Owns, Matches, InRegion, Ownership, UniqueIds
    <2> QED
      BY <2>1, <2>2, <2>4 DEF First, Owns
  <1>2. NoLeakedNode
    BY DEF Ownership, NodesOwned, NoLeakedNode, Owns, InRegion
  <1> QED
    BY <1>1, <1>2 DEF LiveHandleResolves

(* The step that makes a node null is the free by its owner.               *)
OwnerStep ==
  \A i \in NodeIdx : nodes[i].id # 0 /\ nodes'[i].id = 0 =>
    \E h \in Live : /\ handles'[h].state = "freed"
                    /\ handles[h].id = nodes[i].id
                    /\ handles[h].ptr = nodes[i].data_pos

(* A node becomes null only in the step in which its owner frees it.       *)
LEMMA OwnerStepNext ==
  ASSUME Fresh
  PROVE  StoreTyped /\ Ownership /\ [Next]_vars => OwnerStep
  <1> SUFFICES ASSUME StoreTyped, Ownership, [Next]_vars,
                      NEW i \in NodeIdx, nodes[i].id # 0, nodes'[i].id = 0
               PROVE  \E h \in Live : /\ handles'[h].state = "freed"
                                      /\ handles[h].id = nodes[i].id
                                      /\ handles[h].ptr = nodes[i].data_pos
    BY DEF OwnerStep
  <1>1. ASSUME NEW size \in Sizes, Alloc(size) PROVE FALSE
    <2> PICK r \in Walked, j \in NodeIdx, k \in NodeIdx : AllocAt(size, r, j, k)
      BY <1>1 DEF Alloc
    <2>1. nodes'[j].id = IdStream[drawn] /\ drawn \in Handle
      BY DEF AllocAt, NewNode, StoreTyped
    <2>2. j # i => nodes'[i] = nodes[i]
      BY DEF AllocAt, StoreTyped
    <2> QED
      BY <2>1, <2>2
  <1>2. ASSUME NEW h \in Handle, NEW j \in NodeIdx, FreeAt(h, j)
        PROVE  h \in Live /\ handles'[h].state = "freed" /\ Owns(h, i)
    <2>1. h \in Live /\ Owns(h, j)
      BY <1>2, OwnerIsHolder DEF FreeAt, First
    <2>2. j = i
      BY <1>2 DEF FreeAt, StoreTyped
    <2>3. handles'[h].state = "freed"
      BY <1>2 DEF FreeAt, StoreTyped, Allocation
    <2> QED
      BY <2>1, <2>2, <2>3
  <1>3. CASE UNCHANGED nodes
    BY <1>3
  <1> QED
    BY <1>1, <1>2, <1>3 DEF Next, AllocFull, Fill, Free, FreeMiss, vars, Owns

(* Ownership holds in every state.                                         *)
LEMMA OwnershipInv ==
  ASSUME Zeroed, Fresh
  PROVE  Spec => [](TypeOK /\ Ownership)
  <1>1. Init => TypeOK /\ Ownership
    BY TypeInit, OwnershipInit
  <1>2. TypeOK /\ Ownership /\ [Next]_vars => (TypeOK /\ Ownership)'
    BY TypeNext, TypeIsStore, OwnershipNext
  <1> QED
    BY <1>1, <1>2, PTL DEF Spec

(* Whatever was allocated and freed before, the alloc_t of a live          *)
(* allocation leads to its own node.                                       *)
THEOREM HandlesResolve ==
  ASSUME Zeroed, Fresh
  PROVE  Spec => []LiveHandleResolves
  BY OwnershipInv, OwnershipImplies, TypeIsStore, PTL

(* Every used node of a walked region belongs to an allocation somebody    *)
(* holds: no sequence of calls leaks one.                                  *)
THEOREM NodesHaveHolders ==
  ASSUME Zeroed, Fresh
  PROVE  Spec => []NoLeakedNode
  BY OwnershipInv, OwnershipImplies, TypeIsStore, PTL

(* A node is only ever made null by the free of the allocation it belongs  *)
(* to: a second free of an alloc_t deletes nothing.                        *)
THEOREM FreeIsByOwner ==
  ASSUME Zeroed, Fresh
  PROVE  Spec => OnlyOwnerFrees
  <1>1. TypeOK /\ Ownership /\ [Next]_vars => [OwnerStep]_vars
    BY OwnerStepNext, TypeIsStore
  <1>2. OnlyOwnerFrees <=> [][OwnerStep]_vars
    BY PTL DEF OnlyOwnerFrees, OwnerStep
  <1> QED
    BY OwnershipInv, <1>1, <1>2, PTL DEF Spec

-----------------------------------------------------------------------------
(* The allocator implements BlockHeap.                                     *)
held == [h \in Handle |-> IF h \in Live THEN Block(h) ELSE {}]
numbered == 0 .. drawn - 1

(* A live block is the extent of the node its allocation owns.             *)
LEMMA BlockIsExtent ==
  ASSUME StoreTyped, Ownership, NEW h \in Live, NEW i \in NodeIdx, Owns(h, i)
  PROVE  /\ Block(h) = nodes[i].data_pos .. (nodes[i].data_pos + nodes[i].size - 1)
         /\ nodes[i].size > 0
  <1>1. h \in Handle /\ handles[h].size \in Nat \ {0}
    BY LiveDrawn DEF Live
  <1> QED
    BY <1>1 DEF Owns, Block

(* The bytes alloc hands out are nobody's.                                 *)
LEMMA NewBlockApart ==
  ASSUME Fresh, StoreTyped, Ownership, Extents, NEW size \in Nat \ {0}, NEW r \in Walked,
         NEW i \in NodeIdx, NEW k \in NodeIdx, AllocAt(size, r, i, k),
         NEW base, base = nodes'[i].data_pos
  PROVE  /\ base \in Nat /\ base + size <= next_data_pos'
         /\ \A g \in Live : Block(g) \cap (base .. (base + size - 1)) = {}
  <1>1. StoreTyped' /\ Extents' /\ nodes'[i].size = size
    BY StoreAlloc, ExtentsAlloc DEF AllocAt, NewNode, StoreTyped
  <1>2. base \in Nat /\ size \in Nat \ {0} /\ base + size <= next_data_pos'
    BY <1>1 DEF StoreTyped, Node, Extents, ExtentsBelowNext
  <1>3. ASSUME NEW g \in Live PROVE Block(g) \cap (base .. (base + size - 1)) = {}
    <2> PICK j \in NodeIdx : Owns(g, j)
      BY DEF Ownership, LiveOwns
    <2>1. nodes[j].id # 0
      <3>1. g \in Handle /\ handles[g].id = IdStream[g]
        BY LiveDrawn DEF Live
      <3> QED
        BY <3>1 DEF Owns
    <2>2. j # i
      BY <2>1 DEF AllocAt, First, FreeIn
    <2>3. nodes'[j] = nodes[j]
      BY <2>2 DEF AllocAt, StoreTyped
    <2> DEFINE p == nodes[j].data_pos
               n == nodes[j].size
    <2>4. Block(g) = p .. (p + n - 1) /\ n > 0 /\ p \in Nat /\ n \in Nat
      BY BlockIsExtent DEF StoreTyped, Node
    <2>5. p + n <= base \/ base + size <= p
      <3>1. nodes'[j].size > 0 /\ nodes'[i].size > 0
        BY <1>1, <1>2, <2>3, <2>4
      <3>2. \/ nodes'[j].data_pos + nodes'[j].size <= nodes'[i].data_pos
            \/ nodes'[i].data_pos + nodes'[i].size <= nodes'[j].data_pos
        BY <1>1, <2>2, <3>1 DEF Extents, ExtentsDisjoint
      <3> QED
        BY <1>1, <2>3, <3>2
    <2> HIDE DEF p, n
    <2> QED
      BY <1>2, <2>4, <2>5, IntervalsApart
  <1> QED
    BY <1>2, <1>3

(* They are inside the data area.                                          *)
LEMMA NewBlockIsFree ==
  ASSUME Fresh, TypeOK, Ownership, Extents, NEW size \in Nat \ {0}, NEW r \in Walked,
         NEW i \in NodeIdx, NEW k \in NodeIdx, AllocAt(size, r, i, k),
         NEW base, base = nodes'[i].data_pos
  PROVE  /\ base \in 0 .. DataCap
         /\ base .. (base + size - 1) \subseteq 0 .. DataCap
         /\ \A g \in Handle : held[g] \cap (base .. (base + size - 1)) = {}
  <1>1. next_data_pos' \in 0 .. DataCap /\ size \in Nat \ {0}
    BY TypeAlloc DEF TypeOK
  <1>2. /\ base \in Nat /\ base + size <= next_data_pos'
        /\ \A g \in Live : Block(g) \cap (base .. (base + size - 1)) = {}
    BY NewBlockApart, TypeIsStore
  <1>3. \A g \in Handle : held[g] \cap (base .. (base + size - 1)) = {}
    BY <1>2 DEF held
  <1> QED
    BY SMTT(30), <1>1, <1>2, <1>3

(* An allocation is an allocation of the abstract heap: the bytes of its   *)
(* node belong to no other live block.                                     *)
LEMMA HeapAlloc ==
  ASSUME Fresh, TypeOK, Ownership, Extents, NEW size \in Sizes, NEW r \in Walked,
         NEW i \in NodeIdx, NEW k \in NodeIdx, AllocAt(size, r, i, k)
  PROVE  Heap!Next
  <1> PICK d \in Handle : d = drawn
    BY DEF AllocAt, TypeOK
  <1> DEFINE base == nodes'[i].data_pos
  <1>1. k = i
    BY AllocFindsItsNode, TypeIsStore
  <1>2. /\ handles'[d].state = "live" /\ handles'[d].size = size
        /\ handles'[d].ptr = base
        /\ \A h \in Handle : h # d => handles'[h] = handles[h]
    BY <1>1 DEF AllocAt, TypeOK
  <1>3. Live' = Live \cup {d} /\ d \notin Live
    BY <1>2, LiveDrawn, TypeIsStore DEF Live
  <1>4. Block(d)' = base .. (base + size - 1)
    BY <1>2 DEF Block
  <1>5. \A h \in Handle : h # d => Block(h)' = Block(h)
    BY <1>2 DEF Block
  <1>6. held' = [held EXCEPT ![d] = base .. (base + size - 1)]
    BY <1>3, <1>4, <1>5 DEF held
  <1>7. d \notin numbered /\ numbered' = numbered \cup {d}
    BY SMTT(30) DEF AllocAt, TypeOK, numbered
  <1>8. /\ base \in 0 .. DataCap
        /\ base .. (base + size - 1) \subseteq 0 .. DataCap
        /\ \A g \in Handle : held[g] \cap (base .. (base + size - 1)) = {}
    BY NewBlockIsFree
  <1>9. Heap!Allocate(d, size)
    BY <1>6, <1>7, <1>8 DEF Heap!Allocate, held, numbered
  <1> QED
    BY <1>9 DEF Heap!Next

(* A free that finds a node is a release of the abstract heap.             *)
LEMMA HeapRelease ==
  ASSUME Fresh, TypeOK, Ownership, NEW h \in Handle, NEW i \in NodeIdx, FreeAt(h, i)
  PROVE  Heap!Next
  <1>1. h \in Live /\ Owns(h, i)
    BY OwnerIsHolder, TypeIsStore DEF FreeAt, First
  <1>2. Live' = Live \ {h} /\ \A g \in Handle : g # h => handles'[g] = handles[g]
    BY DEF Live, FreeAt, TypeOK, Allocation
  <1>3. Block(h) # {}
    <2>1. nodes[i].data_pos \in Nat /\ nodes[i].size \in Nat
      BY DEF TypeOK, Node
    <2>2. nodes[i].data_pos \in Block(h)
      BY SMTT(30), <1>1, <2>1, BlockIsExtent, TypeIsStore
    <2> QED
      BY <2>2
  <1>4. \A g \in Handle : g # h => Block(g)' = Block(g)
    BY <1>2 DEF Block
  <1>5. held' = [held EXCEPT ![h] = {}]
    BY <1>2, <1>4 DEF held
  <1>6. held[h] # {} /\ numbered' = numbered
    BY <1>1, <1>3 DEF held, numbered, FreeAt
  <1> QED
    BY <1>5, <1>6 DEF Heap!Next, Heap!Release, held, numbered

(* What leaves the states, places and sizes of the blocks alone is a       *)
(* stutter of the abstract heap.                                           *)
LEMMA HeapStutter ==
  ASSUME drawn' = drawn,
         \A h \in Handle : /\ handles'[h].state = handles[h].state
                           /\ handles'[h].ptr = handles[h].ptr
                           /\ handles'[h].size = handles[h].size
  PROVE  UNCHANGED Heap!vars
  <1>1. Live' = Live
    BY DEF Live
  <1>2. \A h \in Handle : Block(h)' = Block(h)
    BY DEF Block
  <1> QED
    BY <1>1, <1>2 DEF Heap!vars

(* Every step of NodeStore is a step of BlockHeap or a stutter.            *)
LEMMA HeapNext ==
  ASSUME Fresh
  PROVE  TypeOK /\ Ownership /\ Extents /\ [Next]_vars => [Heap!Next]_(Heap!vars)
  <1> SUFFICES ASSUME TypeOK, Ownership, Extents, [Next]_vars
               PROVE  Heap!Next \/ UNCHANGED Heap!vars
    OBVIOUS
  <1>1. ASSUME NEW size \in Sizes, Alloc(size) PROVE Heap!Next
    BY <1>1, HeapAlloc DEF Alloc
  <1>2. CASE AllocFull
    BY <1>2, HeapStutter DEF AllocFull
  <1>3. ASSUME NEW h \in Handle, Fill(h) PROVE UNCHANGED Heap!vars
    <2>1. \A g \in Handle : /\ handles'[g].state = handles[g].state
                            /\ handles'[g].ptr = handles[g].ptr
                            /\ handles'[g].size = handles[g].size
      BY <1>3 DEF Fill, TypeOK, Allocation
    <2> QED
      BY <1>3, <2>1, HeapStutter DEF Fill
  <1>4. ASSUME NEW h \in Handle, Free(h) PROVE Heap!Next
    BY <1>4, HeapRelease DEF Free
  <1>5. ASSUME NEW h \in Handle, FreeMiss(h) PROVE UNCHANGED Heap!vars
    <2>1. handles' = handles
      BY ZenonT(30), <1>5, MissIsStale, TypeIsStore DEF FreeMiss, TypeOK, Allocation
    <2> QED
      BY <1>5, <2>1, HeapStutter DEF FreeMiss
  <1>6. CASE UNCHANGED vars
    BY <1>6, HeapStutter DEF vars
  <1> QED
    BY <1>1, <1>2, <1>3, <1>4, <1>5, <1>6 DEF Next

(* No block is held at the start.                                          *)
LEMMA HeapInit == Init => Heap!Init
  <1> SUFFICES ASSUME Init PROVE Heap!Init
    OBVIOUS
  <1>1. Live = {} /\ 0 .. drawn - 1 = {}
    BY DEF Init, NoHandle, Live
  <1> QED
    BY <1>1 DEF Heap!Init

(* What the callers of alloc and free rely on: every allocation is a run   *)
(* of bytes that nobody else holds, from its alloc to the free by its      *)
(* owner.                                                                  *)
THEOREM ImplementsHeap ==
  ASSUME Zeroed, Fresh
  PROVE  Spec => ImplementsBlockHeap
  <1>1. Spec => []Extents
    BY NoOverlap, PTL DEF Extents
  <1> QED
    BY OwnershipInv, HeapInit, HeapNext, <1>1, PTL DEF Spec, ImplementsBlockHeap, Heap!Spec

-----------------------------------------------------------------------------
(* What the memset of node_delete can damage.                              *)

(* Live allocations own different nodes, so their blocks are apart: one    *)
(* ends before the other begins.                                           *)
LEMMA LiveApart ==
  ASSUME Fresh, StoreTyped, Ownership, ExtentsDisjoint, NEW g \in Live, NEW h \in Live, g # h
  PROVE  \/ handles[g].ptr + handles[g].size <= handles[h].ptr
         \/ handles[h].ptr + handles[h].size <= handles[g].ptr
  <1>1. PICK i \in NodeIdx : Owns(g, i)
    BY DEF Ownership, LiveOwns
  <1>2. PICK j \in NodeIdx : Owns(h, j)
    BY DEF Ownership, LiveOwns
  <1>3. /\ g \in Handle /\ handles[g].id = IdStream[g] /\ handles[g].size \in Nat \ {0}
        /\ h \in Handle /\ handles[h].id = IdStream[h] /\ handles[h].size \in Nat \ {0}
    BY LiveDrawn, TypeIsStore DEF Live
  <1>4. i # j
    BY <1>1, <1>2, <1>3 DEF Owns, Fresh
  <1>5. nodes[i].size > 0 /\ nodes[j].size > 0
    BY <1>1, <1>2, <1>3 DEF Owns
  <1> QED
    BY <1>1, <1>2, <1>4, <1>5 DEF Owns, ExtentsDisjoint

(* The bytes of a live allocation, as numbers.                             *)
LEMMA LiveSized ==
  ASSUME StoreTyped, Ownership, NEW h \in Live
  PROVE  /\ h \in Handle /\ handles[h].ptr \in Nat /\ handles[h].size \in Nat \ {0}
         /\ \A a : a \in Block(h) => /\ a \in Nat /\ handles[h].ptr <= a
                                     /\ a < handles[h].ptr + handles[h].size
  <1>1. h \in Handle /\ handles[h].size \in Nat \ {0}
    BY LiveDrawn, TypeIsStore DEF Live
  <1> DEFINE p == handles[h].ptr
             n == handles[h].size
  <1>2. p \in Nat /\ n \in Nat \ {0}
    BY <1>1 DEF StoreTyped, Allocation
  <1>3. Block(h) = p .. (p + n - 1)
    BY DEF Block
  <1> HIDE DEF p, n
  <1>4. \A a : a \in Block(h) => a \in Nat /\ p <= a /\ a < p + n
    BY <1>2, <1>3
  <1> QED
    BY <1>1, <1>2, <1>4 DEF p, n

(* They are bytes of the data area.                                        *)
LEMMA LiveBytes ==
  ASSUME TypeOK, Ownership, Extents, NEW h \in Live, NEW a \in Block(h)
  PROVE  a \in DOMAIN data
  <1>1. PICK j \in NodeIdx : Owns(h, j)
    BY DEF Ownership, LiveOwns
  <1>2. nodes[j].data_pos + nodes[j].size <= next_data_pos /\ next_data_pos \in 0 .. DataCap
    BY DEF Extents, ExtentsBelowNext, TypeOK
  <1>3. /\ handles[h].ptr + handles[h].size <= next_data_pos
        /\ a \in Nat /\ a < handles[h].ptr + handles[h].size
        /\ handles[h].ptr \in Nat /\ handles[h].size \in Nat
    BY <1>1, <1>2, LiveSized, TypeIsStore, TypeIsStore DEF Owns
  <1>4. a \in 0 .. DataCap
    <2> DEFINE e == handles[h].ptr + handles[h].size
    <2>1. e \in Nat /\ e <= next_data_pos /\ a < e
      BY SMTT(30), <1>3
    <2> HIDE DEF e
    <2> QED
      BY <1>2, <1>3, <2>1
  <1> QED
    BY <1>4 DEF TypeOK

(* Byte a of h's block is as h wrote it, or is the first and was cleared.  *)
Kept(h, a) == data[a] = h \/ (a = handles[h].ptr /\ data[a] = Zero)

(* alloc stores into bytes that are nobody's yet.                          *)
LEMMA DamageAlloc ==
  ASSUME Fresh, TypeOK, Ownership, Extents, DamageIsFirstByte, NEW size \in Nat \ {0},
         NEW r \in Walked, NEW i \in NodeIdx, NEW k \in NodeIdx, AllocAt(size, r, i, k)
  PROVE  DamageIsFirstByte'
  <1> PICK d \in Handle : d = drawn
    BY DEF AllocAt, TypeOK
  <1> DEFINE base == nodes'[i].data_pos
  <1>1. /\ handles'[d].filled = FALSE
        /\ \A h \in Handle : h # d => handles'[h] = handles[h]
    BY DEF AllocAt, TypeOK
  <1>2. /\ base \in 0 .. DataCap
        /\ \A g \in Handle : held[g] \cap (base .. (base + size - 1)) = {}
    BY NewBlockIsFree
  <1>3. data' = memcpy(Junk, data, base, size)
    BY DEF AllocAt
  <1> HIDE DEF base
  <1> SUFFICES ASSUME NEW h \in Live', handles'[h].filled, NEW a \in Block(h)'
               PROVE  Kept(h, a)'
    BY DEF DamageIsFirstByte, Kept
  <1>4. h \in Handle /\ h # d /\ handles'[h] = handles[h]
    BY <1>1 DEF Live
  <1>5. h \in Live /\ handles[h].filled /\ a \in Block(h) /\ Block(h) = held[h]
    BY <1>4 DEF Live, Block, held
  <1>6. Kept(h, a)
    BY <1>5 DEF DamageIsFirstByte, Kept
  <1>7. /\ a \notin base .. (base + size - 1) /\ a \in Int /\ base \in Int /\ size \in Int
    BY <1>2, <1>4, <1>5, LiveSized, TypeIsStore
  <1>8. ~ (base <= a /\ a < base + size)
    BY <1>7
  <1>9. data'[a] = data[a] \/ a \notin DOMAIN data
    BY <1>3, <1>8 DEF memcpy
  <1>10. a \in DOMAIN data
    BY <1>5, LiveBytes
  <1> QED
    BY <1>4, <1>6, <1>9, <1>10 DEF Kept

(* A holder writes its own bytes and nobody else's.                        *)
LEMMA DamageFill ==
  ASSUME Fresh, TypeOK, Ownership, Extents, DamageIsFirstByte, NEW g \in Handle, Fill(g)
  PROVE  DamageIsFirstByte'
  <1>1. /\ g \in Live /\ data' = memcpy(g, data, handles[g].ptr, handles[g].size)
        /\ \A h \in Handle : /\ handles'[h].ptr = handles[h].ptr
                             /\ handles'[h].size = handles[h].size
                             /\ handles'[h].state = handles[h].state
                             /\ h # g => handles'[h].filled = handles[h].filled
    BY DEF Fill, Live, TypeOK, Allocation
  <1> SUFFICES ASSUME NEW h \in Live', handles'[h].filled, NEW a \in Block(h)'
               PROVE  Kept(h, a)'
    BY DEF DamageIsFirstByte, Kept
  <1>2. h \in Live /\ h \in Handle /\ a \in Block(h)
    BY <1>1 DEF Live, Block
  <1>3. /\ a \in Nat /\ a \in DOMAIN data
        /\ handles[h].ptr <= a /\ a < handles[h].ptr + handles[h].size
    BY <1>2, LiveSized, LiveBytes, TypeIsStore
  <1>4. CASE h = g
    <2>1. handles[g].ptr <= a /\ a < handles[g].ptr + handles[g].size
      BY <1>3, <1>4
    <2>2. data'[a] = h
      BY <1>1, <1>3, <1>4, <2>1 DEF memcpy
    <2> QED
      BY <2>2 DEF Kept
  <1>5. CASE h # g
    <2>1. ~ (handles[g].ptr <= a /\ a < handles[g].ptr + handles[g].size)
      <3>1. \/ handles[g].ptr + handles[g].size <= handles[h].ptr
            \/ handles[h].ptr + handles[h].size <= handles[g].ptr
        BY <1>1, <1>2, <1>5, LiveApart, TypeIsStore DEF Extents
      <3>2. /\ handles[g].ptr \in Nat /\ handles[g].size \in Nat
            /\ handles[h].ptr \in Nat /\ handles[h].size \in Nat
        BY <1>1, <1>2, LiveSized, TypeIsStore
      <3> DEFINE p == handles[g].ptr
                 n == handles[g].size
                 q == handles[h].ptr
                 m == handles[h].size
      <3>3. /\ p \in Nat /\ n \in Nat /\ q \in Nat /\ m \in Nat
            /\ p + n <= q \/ q + m <= p
            /\ a \in Nat /\ q <= a /\ a < q + m
        BY <1>3, <3>1, <3>2
      <3> HIDE DEF p, n, q, m
      <3>4. ~ (p <= a /\ a < p + n)
        BY <3>3
      <3> QED
        BY <3>4 DEF p, n
    <2>2. data'[a] = data[a]
      BY <1>1, <1>3, <2>1 DEF memcpy
    <2>3. Kept(h, a)
      BY <1>1, <1>2, <1>5 DEF DamageIsFirstByte, Kept
    <2> QED
      BY <1>1, <1>2, <2>2, <2>3 DEF Kept
  <1> QED
    BY <1>4, <1>5

(* The one byte that memset stores is the first after a block, so in       *)
(* another block it can only be the first.                                 *)
LEMMA DamageFree ==
  ASSUME Fresh, TypeOK, Ownership, Extents, DamageIsFirstByte,
         NEW g \in Handle, NEW i \in NodeIdx, FreeAt(g, i)
  PROVE  DamageIsFirstByte'
  <1>1. g \in Live /\ Owns(g, i)
    BY OwnerIsHolder, TypeIsStore DEF FreeAt, First
  <1>2. /\ data' = [data EXCEPT ![handles[g].ptr + handles[g].size] = Zero]
        /\ handles'[g].state = "freed"
        /\ \A h \in Handle : h # g => handles'[h] = handles[h]
    BY <1>1, LiveSized, TypeIsStore DEF FreeAt, memset, Owns, TypeOK, Allocation
  <1> SUFFICES ASSUME NEW h \in Live', handles'[h].filled, NEW a \in Block(h)'
               PROVE  Kept(h, a)'
    BY DEF DamageIsFirstByte, Kept
  <1>3. h # g /\ h \in Live /\ handles'[h] = handles[h] /\ a \in Block(h)
    BY <1>2 DEF Live, Block
  <1>4. Kept(h, a)
    BY <1>2, <1>3 DEF DamageIsFirstByte, Kept
  <1>5. CASE a = handles[g].ptr + handles[g].size
    <2>1. a = handles[h].ptr
      <3>1. \/ handles[g].ptr + handles[g].size <= handles[h].ptr
            \/ handles[h].ptr + handles[h].size <= handles[g].ptr
        BY <1>1, <1>3, LiveApart, TypeIsStore DEF Extents
      <3>2. /\ handles[g].ptr \in Nat /\ handles[g].size \in Nat \ {0}
            /\ handles[h].ptr \in Nat /\ handles[h].size \in Nat
            /\ handles[h].ptr <= a /\ a < handles[h].ptr + handles[h].size
            /\ a \in Nat
        BY <1>1, <1>3, LiveSized, TypeIsStore
      <3> DEFINE p == handles[g].ptr
                 n == handles[g].size
                 q == handles[h].ptr
                 m == handles[h].size
      <3>3. /\ p \in Nat /\ n \in Nat \ {0} /\ q \in Nat /\ m \in Nat
            /\ p + n <= q \/ q + m <= p
            /\ a \in Nat /\ q <= a /\ a < q + m /\ a = p + n
        BY <1>5, <3>1, <3>2
      <3> HIDE DEF p, n, q, m
      <3>4. a = q
        BY <3>3
      <3> QED
        BY <3>4 DEF q
    <2>2. data'[a] = Zero
      BY <1>2, <1>3, <1>5, LiveBytes
    <2> QED
      BY <1>3, <2>1, <2>2 DEF Kept
  <1>6. CASE a # handles[g].ptr + handles[g].size
    <2>1. data'[a] = data[a]
      BY <1>2, <1>6
    <2> QED
      BY <1>3, <1>4, <2>1 DEF Kept
  <1> QED
    BY <1>5, <1>6

(* Every step keeps DamageIsFirstByte: memset of a free clears one byte    *)
(* past the node, which can only be the first of another block.            *)
LEMMA DamageNext ==
  ASSUME Fresh
  PROVE  TypeOK /\ Ownership /\ Extents /\ DamageIsFirstByte /\ [Next]_vars
           => DamageIsFirstByte'
  <1> SUFFICES ASSUME TypeOK, Ownership, Extents, DamageIsFirstByte, [Next]_vars
               PROVE  DamageIsFirstByte'
    OBVIOUS
  <1>1. ASSUME NEW size \in Sizes, Alloc(size) PROVE DamageIsFirstByte'
    BY <1>1, DamageAlloc DEF Alloc
  <1>2. ASSUME NEW h \in Handle, Fill(h) PROVE DamageIsFirstByte'
    BY <1>2, DamageFill
  <1>3. ASSUME NEW h \in Handle, Free(h) PROVE DamageIsFirstByte'
    BY <1>3, DamageFree DEF Free
  <1>4. ASSUME NEW h \in Handle, FreeMiss(h) PROVE DamageIsFirstByte'
    <2>1. handles' = handles /\ data' = data
      BY ZenonT(30), <1>4, MissIsStale, TypeIsStore DEF FreeMiss, TypeOK, Allocation
    <2> QED
      BY <2>1 DEF DamageIsFirstByte, Live, Block
  <1>5. CASE AllocFull \/ UNCHANGED vars
    BY <1>5 DEF AllocFull, vars, DamageIsFirstByte, Live, Block
  <1> QED
    BY <1>1, <1>2, <1>3, <1>4, <1>5 DEF Next

(* The misplaced byte of memset can clear the first byte of a block that   *)
(* somebody has written and can do nothing else to it; nor can any other   *)
(* call of alloc or free, for every number of nodes and every sizes.       *)
THEOREM DamageBounded ==
  ASSUME Zeroed, Fresh
  PROVE  Spec => []DamageIsFirstByte
  <1>1. Init => DamageIsFirstByte
    BY DEF Init, DamageIsFirstByte, Live, NoHandle
  <1>2. Spec => []Extents
    BY NoOverlap, PTL DEF Extents
  <1> QED
    BY OwnershipInv, DamageNext, <1>1, <1>2, PTL DEF Spec

(* No call changes the id, the size or the position of a node in use, but  *)
(* for the id that a free sets to 0: only null nodes are taken and given   *)
(* new bytes. Neither zeroed memory nor fresh ids are needed.              *)
THEOREM ExtentsKept == Spec => ExtentsStable
  <1> DEFINE A == \A i \in NodeIdx :
                    nodes[i].id # 0 => /\ nodes'[i].id \in {0, nodes[i].id}
                                       /\ nodes'[i].size = nodes[i].size
                                       /\ nodes'[i].data_pos = nodes[i].data_pos
  <1>1. ASSUME TypeOK, [Next]_vars PROVE A
    <2>1. ASSUME NEW size \in Sizes, Alloc(size) PROVE A
      <3> PICK r \in Walked, i \in NodeIdx, k \in NodeIdx : AllocAt(size, r, i, k)
        BY <2>1 DEF Alloc
      <3>1. nodes[i].id = 0 /\ \A j \in NodeIdx : j # i => nodes'[j] = nodes[j]
        BY <1>1 DEF AllocAt, First, FreeIn, TypeOK
      <3> QED
        BY <3>1
    <2>2. ASSUME NEW h \in Handle, Free(h) PROVE A
      <3> PICK i \in NodeIdx : FreeAt(h, i)
        BY <2>2 DEF Free
      <3> QED
        BY <1>1 DEF FreeAt, Deleted, TypeOK, Node
    <2>3. CASE UNCHANGED nodes
      BY <2>3
    <2> QED
      BY <1>1, <2>1, <2>2, <2>3 DEF Next, AllocFull, Fill, FreeMiss, vars
  <1>2. TypeOK /\ [Next]_vars => [A]_vars
    BY <1>1
  <1> QED
    BY <1>2, TypeCorrect, PTL DEF Spec, ExtentsStable

==============================================================================
