-------------------------- MODULE BackupRefsProofs --------------------------
(***************************************************************************)
(* What holds of BackupRefs for every set of databases, every backup list  *)
(* and every length of them.                                               *)
(*                                                                         *)
(* None of it depends on where node_lookup looks: whatever database its    *)
(* search through the entries ends in, node_set changes a node only where  *)
(* it finds the id itself.                                                 *)
(***************************************************************************)
EXTENDS BackupRefs, NatSets, FiniteSetTheorems, TLAPS

Bytewise == [0 .. DataCap -> Id \cup {Zero, Junk}]

(* The part of TypeOK that the rest stands on: the last pointer given to a *)
(* reader is left out, as nothing reads it.                                *)
StoreTyped ==
  /\ handle \in Db
  /\ nodes \in [Db -> [NodeIdx -> Node]]
  /\ next \in [Db -> 0 .. DataCap]
  /\ data \in [Db -> Bytewise]
  /\ issued \in 0 .. MaxIds /\ deleted \subseteq 1 .. issued

-----------------------------------------------------------------------------
(* One database: a node list whose nodes share no byte and end before      *)
(* `free`, as numbers.                                                     *)
Ends(list, free) == \A i \in NodeIdx : list[i].data_pos + list[i].size <= free

Separate(list) ==
  \A i, j \in NodeIdx :
    i # j /\ list[i].size > 0 /\ list[j].size > 0 =>
      \/ list[i].data_pos + list[i].size <= list[j].data_pos
      \/ list[j].data_pos + list[j].size <= list[i].data_pos

(* What node_add stores in a node gets bytes of its own.                   *)
LEMMA AddSeparates ==
  ASSUME NEW list \in [NodeIdx -> Node], NEW free \in Nat, Ends(list, free), Separate(list),
         NEW i \in NodeIdx, NEW id \in Nat, NEW size \in Nat \ {0},
         NEW new, new = NewNode(list[i], id, size, free),
         NEW list2, list2 = [list EXCEPT ![i] = new],
         NEW free2, free2 = IF Grows(list[i], size) THEN free + size ELSE free
  PROVE  new \in Node /\ list2 \in [NodeIdx -> Node] /\ Ends(list2, free2) /\ Separate(list2)
<1>1. \A j \in NodeIdx : list[j].size \in Nat /\ list[j].data_pos \in Nat
  BY DEF Node
<1>2. new.size = size /\ new \in Node
  BY <1>1 DEF NewNode, Node
<1>3. list2[i] = new /\ \A j \in NodeIdx : j # i => list2[j] = list[j]
  OBVIOUS
<1>4. list2 \in [NodeIdx -> Node]
  BY <1>2
<1> DEFINE p == new.data_pos
<1>5. /\ p \in Nat /\ free2 \in Nat /\ free <= free2 /\ p + size <= free2
      /\ \A j \in NodeIdx : j # i /\ list[j].size > 0 =>
           p + size <= list[j].data_pos \/ list[j].data_pos + list[j].size <= p
  <2>1. CASE Grows(list[i], size)
    <3>1. p = free /\ free2 = free + size
      BY <2>1 DEF NewNode
    <3> QED
      BY <3>1 DEF Ends
  <2>2. CASE ~ Grows(list[i], size)
    <3>1. p = list[i].data_pos /\ free2 = free /\ size <= list[i].size
      BY <1>1, <2>2 DEF NewNode, Grows
    <3>2. p + size <= free
      <4> DEFINE n == list[i].size
      <4>1. p + n <= free /\ p \in Nat /\ n \in Nat /\ size <= n
        BY <1>1, <3>1 DEF Ends
      <4> HIDE DEF p, n
      <4> QED
        BY <4>1
    <3>3. ASSUME NEW j \in NodeIdx, j # i, list[j].size > 0
          PROVE  p + size <= list[j].data_pos \/ list[j].data_pos + list[j].size <= p
      <4> DEFINE n == list[i].size
                 q == list[j].data_pos
                 m == list[j].size
      <4>1. /\ p \in Nat /\ n \in Nat /\ q \in Nat /\ m \in Nat /\ size <= n
            /\ p + n <= q \/ q + m <= p
        BY <1>1, <3>1, <3>3 DEF Separate
      <4> HIDE DEF p, n, q, m
      <4>2. p + size <= q \/ q + m <= p
        BY <4>1
      <4> QED
        BY <4>2 DEF q, m
    <3> QED
      BY <1>1, <3>1, <3>2, <3>3
  <2> QED
    BY <2>1, <2>2
<1>6. Ends(list2, free2)
  <2> SUFFICES ASSUME NEW j \in NodeIdx PROVE list2[j].data_pos + list2[j].size <= free2
    BY DEF Ends
  <2>1. CASE j = i
    BY <1>2, <1>3, <1>5, <2>1
  <2>2. CASE j # i
    <3> DEFINE e == list[j].data_pos + list[j].size
    <3>1. e \in Nat /\ e <= free
      BY <1>1 DEF Ends
    <3> HIDE DEF e
    <3>2. e <= free2
      BY <1>5, <3>1
    <3> QED
      BY <1>3, <2>2, <3>2 DEF e
  <2> QED
    BY <2>1, <2>2
<1>7. Separate(list2)
  <2> SUFFICES ASSUME NEW a \in NodeIdx, NEW b \in NodeIdx, a # b,
                      list2[a].size > 0, list2[b].size > 0
               PROVE  \/ list2[a].data_pos + list2[a].size <= list2[b].data_pos
                      \/ list2[b].data_pos + list2[b].size <= list2[a].data_pos
    BY DEF Separate
  <2>1. CASE a = i
    BY <1>2, <1>3, <1>5, <2>1
  <2>2. CASE b = i
    BY <1>2, <1>3, <1>5, <2>2
  <2>3. CASE a # i /\ b # i
    BY <1>3, <2>3 DEF Separate
  <2> QED
    BY <2>1, <2>2, <2>3
<1> QED
  BY <1>2, <1>4, <1>6, <1>7

(* An id that becomes null leaves its bytes to the node.                   *)
LEMMA SameExtents ==
  ASSUME NEW list, NEW list2, NEW free, Ends(list, free), Separate(list),
         \A i \in NodeIdx : list2[i].size = list[i].size /\ list2[i].data_pos = list[i].data_pos
  PROVE  Ends(list2, free) /\ Separate(list2)
  BY DEF Ends, Separate

-----------------------------------------------------------------------------
(* The inductive invariant: every database's nodes are separate; an id     *)
(* that was issued and not deleted is that of one node, in one database,   *)
(* and no node has another id.                                             *)
Extents == \A db \in Db : Ends(nodes[db], next[db]) /\ Separate(nodes[db])

OnlyPlace ==
  \A d, e \in Db : \A i, j \in NodeIdx :
    nodes[d][i].id # 0 /\ nodes[d][i].id = nodes[e][j].id => d = e /\ i = j

InUse == \A d \in Db : \A i \in NodeIdx : nodes[d][i].id \in {0} \cup (1 .. issued \ deleted)

HasPlace == \A id \in 1 .. issued \ deleted : \E d \in Db : Holds(d, id)

BackupInv == StoreTyped /\ Extents /\ OnlyPlace /\ InUse /\ HasPlace

(* At the start no database has a node, so every part of the invariant     *)
(* holds.                                                                  *)
LEMMA BackupInit == Init => BackupInv
<1> SUFFICES ASSUME Init PROVE BackupInv
  OBVIOUS
<1>1. \A d \in Db : \A i \in NodeIdx : nodes[d][i] = [id |-> 0, size |-> 0, data_pos |-> 0]
  BY DEF Init
<1>2. StoreTyped
  <2>1. nodes \in [Db -> [NodeIdx -> Node]] /\ handle \in Db
    BY BackupAssumption DEF Init, Node
  <2>2. next \in [Db -> 0 .. DataCap] /\ data \in [Db -> Bytewise]
    BY BackupAssumption DEF Init, Bytewise
  <2>3. issued \in 0 .. MaxIds /\ deleted \subseteq 1 .. issued
    BY BackupAssumption DEF Init
  <2> QED
    BY <2>1, <2>2, <2>3 DEF StoreTyped
<1>3. Extents
  BY <1>1 DEF Init, Extents, Ends, Separate
<1>4. OnlyPlace /\ InUse
  BY <1>1 DEF OnlyPlace, InUse
<1>5. HasPlace
  BY DEF Init, HasPlace
<1> QED
  BY <1>2, <1>3, <1>4, <1>5 DEF BackupInv

(* node_add: one node of the handle's database gets the new id.            *)
LEMMA AddKeeps ==
  ASSUME BackupInv, NEW size \in Sizes, Add(size)
  PROVE  BackupInv'
<1> USE DEF BackupInv
<1> DEFINE id == issued + 1
<1>1. PICK i \in Unused :
        LET old == nodes[handle][i]
            new == NewNode(old, id, size, next[handle])
        IN  /\ Grows(old, size) => next[handle] + size <= DataCap
            /\ nodes' = [nodes EXCEPT ![handle][i] = new]
            /\ next' = [next EXCEPT ![handle] = IF Grows(old, size) THEN @ + size ELSE @]
            /\ data' = [data EXCEPT ![handle] = memcpy(new.id, @, new.data_pos, size)]
  BY DEF Add
<1>2. /\ issued' = id /\ UNCHANGED <<handle, deleted>>
      /\ issued \in Nat /\ id \in Id /\ id \in 0 .. MaxIds
  BY BackupAssumption DEF Add, StoreTyped, Id
<1>3. /\ i \in NodeIdx /\ nodes[handle][i].id = 0 /\ handle \in Db /\ size \in Nat \ {0}
      /\ nodes[handle] \in [NodeIdx -> Node] /\ next[handle] \in 0 .. DataCap
      /\ data[handle] \in Bytewise
  BY BackupAssumption DEF Unused, StoreTyped
<1> DEFINE new   == NewNode(nodes[handle][i], id, size, next[handle])
           list2 == [nodes[handle] EXCEPT ![i] = new]
           free2 == IF Grows(nodes[handle][i], size) THEN next[handle] + size ELSE next[handle]
<1>4. /\ nodes' = [nodes EXCEPT ![handle] = list2] /\ next' = [next EXCEPT ![handle] = free2]
      /\ data' = [data EXCEPT ![handle] = memcpy(new.id, data[handle], new.data_pos, size)]
      /\ free2 <= DataCap
  <2>1. next[handle] <= DataCap /\ next[handle] \in Nat
    BY <1>3
  <2> QED
    BY <1>1, <1>3, <2>1
<1>5. new \in Node /\ list2 \in [NodeIdx -> Node] /\ Ends(list2, free2) /\ Separate(list2)
  <2>1. Ends(nodes[handle], next[handle]) /\ Separate(nodes[handle])
    BY <1>3 DEF Extents
  <2>2. next[handle] \in Nat /\ id \in Nat
    BY <1>2, <1>3
  <2> QED
    BY <1>3, <2>1, <2>2, AddSeparates
<1>6. new.id = id /\ free2 \in 0 .. DataCap
  BY <1>2, <1>3, <1>4 DEF NewNode
<1>7. memcpy(new.id, data[handle], new.data_pos, size) \in Bytewise
  BY <1>2, <1>3, <1>6 DEF memcpy, Bytewise
<1> HIDE DEF new, free2, id
<1>8. StoreTyped'
  <2>1. nodes' \in [Db -> [NodeIdx -> Node]]
    <3> HIDE DEF list2
    <3> QED
      BY <1>4, <1>5 DEF StoreTyped
  <2>2. next' \in [Db -> 0 .. DataCap]
    BY <1>4, <1>6 DEF StoreTyped
  <2>3. data' \in [Db -> Bytewise]
    BY <1>4, <1>7 DEF StoreTyped
  <2>4. issued' \in 0 .. MaxIds /\ deleted' \subseteq 1 .. issued'
    BY <1>2 DEF StoreTyped, id
  <2> QED
    BY <1>2, <1>3, <2>1, <2>2, <2>3, <2>4 DEF StoreTyped
<1>9. Extents'
  <2> SUFFICES ASSUME NEW d \in Db PROVE Ends(nodes'[d], next'[d]) /\ Separate(nodes'[d])
    BY DEF Extents
  <2> HIDE DEF list2
  <2>1. CASE d = handle
    BY <1>3, <1>4, <1>5, <2>1 DEF StoreTyped
  <2>2. CASE d # handle
    BY <1>4, <2>2 DEF StoreTyped, Extents
  <2> QED
    BY <2>1, <2>2
<1>10. /\ nodes'[handle][i].id = id
       /\ \A d \in Db, j \in NodeIdx : ~ (d = handle /\ j = i) => nodes'[d][j] = nodes[d][j]
  BY <1>3, <1>4, <1>6 DEF StoreTyped
<1>11. id # 0 /\ id \notin 1 .. issued /\ (1 .. issued' \ deleted') = (1 .. issued \ deleted) \cup {id}
  <2>1. id \notin 1 .. issued /\ id # 0 /\ 1 .. issued' = 1 .. issued \cup {id}
    BY <1>2 DEF id
  <2> QED
    BY <1>2, <2>1 DEF StoreTyped
<1>12. \A d \in Db, j \in NodeIdx : nodes[d][j].id # id
  BY <1>11 DEF InUse
<1>13. OnlyPlace'
  <2> SUFFICES ASSUME NEW d \in Db, NEW e \in Db, NEW j \in NodeIdx, NEW k \in NodeIdx,
                      nodes'[d][j].id # 0, nodes'[d][j].id = nodes'[e][k].id
               PROVE  d = e /\ j = k
    BY DEF OnlyPlace
  <2>1. CASE d = handle /\ j = i
    BY <1>10, <1>12, <2>1
  <2>2. CASE e = handle /\ k = i
    BY <1>10, <1>12, <2>2
  <2>3. CASE ~ (d = handle /\ j = i) /\ ~ (e = handle /\ k = i)
    BY <1>10, <2>3 DEF OnlyPlace
  <2> QED
    BY <2>1, <2>2, <2>3
<1>14. InUse'
  BY <1>10, <1>11 DEF InUse
<1>15. HasPlace'
  <2> SUFFICES ASSUME NEW h \in 1 .. issued' \ deleted' PROVE \E d \in Db : Holds(d, h)'
    BY DEF HasPlace
  <2>1. CASE h = id
    BY <1>3, <1>10, <2>1 DEF Holds
  <2>2. CASE h # id
    <3>1. PICK d \in Db : Holds(d, h)
      BY <1>11, <2>2 DEF HasPlace
    <3>2. PICK j \in NodeIdx : nodes[d][j].id = h
      BY <3>1 DEF Holds
    <3>3. h # 0
      BY <1>2
    <3> QED
      BY <1>3, <1>10, <3>2, <3>3 DEF Holds
  <2> QED
    BY <2>1, <2>2
<1> QED
  BY <1>8, <1>9, <1>13, <1>14, <1>15

(* What a call of node_delete does to the nodes: nothing, and it does not  *)
(* say OK, or it makes the node null wherever it is held.                  *)
Erases(id) ==
  \/ nodes' = nodes /\ deleted' = deleted
  \/ \E d \in Db : Holds(d, id) /\ SetNull(d, id) /\ deleted' = deleted \cup {id}

(* memset writes bytes of blocks only.                                     *)
LEMMA ClearedBytes ==
  ASSUME NEW bytes \in Bytewise, NEW s, NEW n
  PROVE  memset(bytes, s, n) \in Bytewise
  BY DEF memset, Bytewise

(* Without a backup: node_set looks only where the handle points, so that  *)
(* a node found in an entry's database stays, and the caller is told.      *)
LEMMA HereErases ==
  ASSUME StoreTyped, NEW id \in 1 .. issued, DeleteHere(id)
  PROVE  /\ Erases(id) /\ data' \in [Db -> Bytewise]
         /\ UNCHANGED <<handle, next, issued>>
<1>1. UNCHANGED <<handle, next, issued>> /\ handle \in Db
  BY DEF DeleteHere, StoreTyped
<1> DEFINE home == Found(id)[handle]
           node == NodeOf(home, id)
<1>2. CASE home = None
  BY <1>1, <1>2 DEF DeleteHere, StoreTyped, Erases
<1>3. CASE home # None
  <2>1. /\ data' = [data EXCEPT ![handle] = memset(data[handle], node.data_pos, node.size)]
        /\ SetNull(handle, id)
        /\ deleted' = IF Holds(handle, id) THEN deleted \cup {id} ELSE deleted
    BY <1>3 DEF DeleteHere
  <2> HIDE DEF node, home
  <2>2. data' \in [Db -> Bytewise]
    <3>1. memset(data[handle], node.data_pos, node.size) \in Bytewise
      BY <1>1, ClearedBytes DEF StoreTyped
    <3> QED
      BY <1>1, <2>1, <3>1 DEF StoreTyped
  <2>3. CASE Holds(handle, id)
    BY <1>1, <2>1, <2>2, <2>3 DEF Erases
  <2>4. CASE ~ Holds(handle, id)
    <3>1. nodes[handle] =
            [i \in NodeIdx |-> IF nodes[handle][i].id = id THEN Deleted(nodes[handle][i])
                                                           ELSE nodes[handle][i]]
      BY <1>1, <2>4 DEF StoreTyped, Holds
    <3>2. nodes' = [nodes EXCEPT ![handle] = nodes[handle]]
      BY <2>1, <3>1 DEF SetNull
    <3>3. nodes' = nodes
      BY <1>1, <3>2 DEF StoreTyped
    <3> QED
      BY <1>1, <2>1, <2>2, <2>4, <3>3 DEF Erases
  <2> QED
    BY <2>3, <2>4
<1> QED
  BY <1>2, <1>3

(* With a backup: node_delete and node_set end in the same database.       *)
LEMMA ByBackupErases ==
  ASSUME StoreTyped, NEW id \in 1 .. issued, NEW backup, DeleteByBackup(id, backup)
  PROVE  /\ Erases(id) /\ data' \in [Db -> Bytewise] /\ handle' \in Db
         /\ UNCHANGED <<next, issued>>
<1> DEFINE real == Opened(handle, backup - 1)
           home == ByIndex(real, backup, id)
           node == NodeOf(home, id)
<1>1. UNCHANGED <<next, issued>> /\ handle \in Db /\ data \in [Db -> Bytewise]
  BY DEF DeleteByBackup, StoreTyped
<1>2. CASE real \notin Db
  <2>1. UNCHANGED <<handle, nodes, data, deleted>>
    BY <1>2 DEF DeleteByBackup
  <2> QED
    BY <1>1, <2>1 DEF Erases
<1>3. CASE real \in Db /\ home = None
  <2>1. handle' = real /\ UNCHANGED <<nodes, data, deleted>>
    BY <1>3 DEF DeleteByBackup
  <2> QED
    BY <1>1, <1>3, <2>1 DEF Erases
<1>4. CASE real \in Db /\ home # None
  <2>1. /\ data' = [data EXCEPT ![real] = memset(data[real], node.data_pos, node.size)]
        /\ handle' = home /\ SetNull(home, id) /\ deleted' = deleted \cup {id}
    BY <1>4 DEF DeleteByBackup
  <2>2. home \in Db /\ Holds(home, id)
    BY <1>4 DEF ByIndex
  <2> HIDE DEF node, home, real
  <2>3. data' \in [Db -> Bytewise]
    <3>1. memset(data[real], node.data_pos, node.size) \in Bytewise
      BY <1>1, <1>4, ClearedBytes
    <3> QED
      BY <1>1, <2>1, <3>1
  <2> QED
    BY <1>1, <2>1, <2>2, <2>3 DEF Erases
<1> QED
  BY <1>2, <1>3, <1>4

(* A call that erases keeps the invariant: the id had one place.           *)
LEMMA EraseKeeps ==
  ASSUME BackupInv, NEW id \in 1 .. issued, Erases(id),
         data' \in [Db -> Bytewise], handle' \in Db, UNCHANGED <<next, issued>>
  PROVE  BackupInv'
<1> USE DEF BackupInv
<1>1. CASE nodes' = nodes /\ deleted' = deleted
  BY <1>1 DEF StoreTyped, Extents, OnlyPlace, InUse, HasPlace, Holds
<1>2. ASSUME NEW d \in Db, Holds(d, id), SetNull(d, id), deleted' = deleted \cup {id}
      PROVE  BackupInv'
  <2>1. id \in Nat /\ id # 0 /\ issued \in Nat
    BY DEF StoreTyped
  <2>2. PICK i \in NodeIdx : nodes[d][i].id = id
    BY <1>2 DEF Holds
  <2>3. \A e \in Db, j \in NodeIdx : nodes[e][j].id = id <=> e = d /\ j = i
    BY <2>1, <2>2 DEF OnlyPlace
  <2>4. \A j \in NodeIdx : nodes[d][j] \in Node /\ Deleted(nodes[d][j]) \in Node
    <3>1. \A n \in Node : Deleted(n) \in Node
      BY DEF Deleted, Node
    <3>2. nodes[d] \in [NodeIdx -> Node]
      BY DEF StoreTyped
    <3> QED
      BY <3>1, <3>2
  <2> DEFINE list2 == [j \in NodeIdx |-> IF nodes[d][j].id = id THEN Deleted(nodes[d][j])
                                                               ELSE nodes[d][j]]
  <2>5. nodes' = [nodes EXCEPT ![d] = list2] /\ list2 \in [NodeIdx -> Node]
    BY <1>2, <2>4 DEF SetNull
  <2>6. \A e \in Db, j \in NodeIdx :
          nodes'[e][j] = IF e = d /\ j = i THEN Deleted(nodes[e][j]) ELSE nodes[e][j]
    BY <2>3, <2>5 DEF StoreTyped
  <2>7. nodes' \in [Db -> [NodeIdx -> Node]]
    <3> HIDE DEF list2
    <3> QED
      BY <2>5 DEF StoreTyped
  <2> HIDE DEF list2
  <2>8. \A e \in Db, j \in NodeIdx :
          /\ nodes'[e][j].id = IF e = d /\ j = i THEN 0 ELSE nodes[e][j].id
          /\ nodes'[e][j].size = nodes[e][j].size
          /\ nodes'[e][j].data_pos = nodes[e][j].data_pos
    <3> SUFFICES ASSUME NEW e \in Db, NEW j \in NodeIdx
                 PROVE  /\ nodes'[e][j].id = IF e = d /\ j = i THEN 0 ELSE nodes[e][j].id
                        /\ nodes'[e][j].size = nodes[e][j].size
                        /\ nodes'[e][j].data_pos = nodes[e][j].data_pos
      OBVIOUS
    <3>1. nodes[e][j] \in Node
      BY DEF StoreTyped
    <3> QED
      BY <2>6, <3>1 DEF Deleted, Node
  <2>9. StoreTyped'
    <3>1. deleted' \subseteq 1 .. issued'
      BY <1>2 DEF StoreTyped
    <3> QED
      BY <2>7, <3>1 DEF StoreTyped
  <2>10. Extents'
    <3> SUFFICES ASSUME NEW e \in Db PROVE Ends(nodes'[e], next'[e]) /\ Separate(nodes'[e])
      BY DEF Extents
    <3>1. Ends(nodes[e], next[e]) /\ Separate(nodes[e])
      BY DEF Extents
    <3> QED
      BY <2>8, <3>1, SameExtents
  <2>11. OnlyPlace'
    <3> SUFFICES ASSUME NEW e \in Db, NEW f \in Db, NEW j \in NodeIdx, NEW k \in NodeIdx,
                        nodes'[e][j].id # 0, nodes'[e][j].id = nodes'[f][k].id
                 PROVE  e = f /\ j = k
      BY DEF OnlyPlace
    <3>1. nodes'[e][j].id = nodes[e][j].id /\ nodes'[f][k].id = nodes[f][k].id
      BY <2>8
    <3>2. nodes[e][j].id # 0 /\ nodes[e][j].id = nodes[f][k].id
      BY <3>1
    <3>3. \A d1, d2 \in Db : \A i1, i2 \in NodeIdx :
            nodes[d1][i1].id # 0 /\ nodes[d1][i1].id = nodes[d2][i2].id => d1 = d2 /\ i1 = i2
      BY Zenon DEF OnlyPlace, BackupInv
    <3> HIDE DEF BackupInv
    <3> QED
      BY <3>2, <3>3
  <2>12. InUse'
    <3> SUFFICES ASSUME NEW e \in Db, NEW j \in NodeIdx
                 PROVE  nodes'[e][j].id \in {0} \cup (1 .. issued' \ deleted')
      BY DEF InUse
    <3>1. CASE e = d /\ j = i
      BY <2>8, <3>1
    <3>2. CASE ~ (e = d /\ j = i)
      BY <1>2, <2>3, <2>8, <3>2 DEF InUse
    <3> QED
      BY <3>1, <3>2
  <2>13. HasPlace'
    <3> SUFFICES ASSUME NEW h \in 1 .. issued' \ deleted' PROVE \E e \in Db : Holds(e, h)'
      BY DEF HasPlace
    <3>1. h \in 1 .. issued \ deleted /\ h # id
      BY <1>2
    <3>2. PICK e \in Db : Holds(e, h)
      BY <3>1 DEF HasPlace
    <3>3. PICK j \in NodeIdx : nodes[e][j].id = h
      BY <3>2 DEF Holds
    <3>4. nodes'[e][j].id = h
      BY <2>2, <2>8, <3>1, <3>3
    <3> QED
      BY <3>4 DEF Holds
  <2> QED
    BY <2>9, <2>10, <2>11, <2>12, <2>13
<1> QED
  BY <1>1, <1>2 DEF Erases

(* Every operation on any database keeps the invariant.                    *)
LEMMA BackupNext == BackupInv /\ [Next]_vars => BackupInv'
<1> SUFFICES ASSUME BackupInv, [Next]_vars PROVE BackupInv'
  OBVIOUS
<1>1. StoreTyped
  BY DEF BackupInv
<1>2. ASSUME NEW size \in Sizes, Add(size) PROVE BackupInv'
  BY <1>2, AddKeeps
<1>3. ASSUME NEW id \in 1 .. issued, DeleteHere(id) PROVE BackupInv'
  <2>1. /\ Erases(id) /\ data' \in [Db -> Bytewise] /\ UNCHANGED <<handle, next, issued>>
    BY <1>1, <1>3, HereErases
  <2>2. handle' \in Db
    BY <1>1, <2>1 DEF StoreTyped
  <2> QED
    BY <2>1, <2>2, EraseKeeps
<1>4. ASSUME NEW id \in 1 .. issued, NEW backup \in 1 .. NumBackups + 1,
             DeleteByBackup(id, backup)
      PROVE  BackupInv'
  BY <1>1, <1>4, ByBackupErases, EraseKeeps
<1>5. CASE UNCHANGED <<handle, nodes, next, data, issued, deleted>>
  BY <1>5 DEF BackupInv, StoreTyped, Extents, OnlyPlace, InUse, HasPlace, Holds
<1>6. ASSUME NEW id \in 1 .. issued, NEW backup \in 0 .. NumBackups + 1, GetData(id, backup)
      PROVE  BackupInv'
  <2>1. UNCHANGED <<handle, nodes, next, data, issued, deleted>>
    BY <1>6 DEF GetData
  <2> QED
    BY <1>5, <2>1
<1> QED
  BY <1>2, <1>3, <1>4, <1>5, <1>6 DEF Next, AddFull, vars

(* Hence it holds in every state.                                          *)
LEMMA BackupAlways == Spec => []BackupInv
<1>1. Init => BackupInv
  BY BackupInit
<1>2. BackupInv /\ [Next]_vars => BackupInv'
  BY BackupNext
<1> QED
  BY <1>1, <1>2, PTL DEF Spec

(* However often node_delete and node_set overwrite the handle with that   *)
(* of another database, in each database no two nodes ever share a byte    *)
(* and none reaches past next_data_pos: a header, a node list and a data   *)
(* area that node_add uses always belong together.                         *)
THEOREM ApartInEveryDatabase == Spec => []ExtentsApart
<1>1. BackupInv => ExtentsApart
  <2> SUFFICES ASSUME BackupInv, NEW db \in Db, NEW i \in NodeIdx
               PROVE  /\ nodes[db][i].data_pos + nodes[db][i].size <= next[db]
                      /\ \A j \in NodeIdx \ {i} :
                           Bytes(nodes[db][i]) \cap Bytes(nodes[db][j]) = {}
    BY DEF ExtentsApart
  <2>1. nodes[db][i].data_pos + nodes[db][i].size <= next[db]
    BY DEF BackupInv, Extents, Ends
  <2>2. ASSUME NEW j \in NodeIdx, j # i
        PROVE  Bytes(nodes[db][i]) \cap Bytes(nodes[db][j]) = {}
    <3> DEFINE p == nodes[db][i].data_pos
               n == nodes[db][i].size
               q == nodes[db][j].data_pos
               m == nodes[db][j].size
    <3>1. /\ p \in Nat /\ n \in Nat /\ q \in Nat /\ m \in Nat
          /\ n > 0 /\ m > 0 => p + n <= q \/ q + m <= p
      BY <2>2 DEF BackupInv, StoreTyped, Node, Extents, Separate
    <3>2. Bytes(nodes[db][i]) = p .. p + n - 1 /\ Bytes(nodes[db][j]) = q .. q + m - 1
      BY DEF Bytes
    <3> HIDE DEF p, n, q, m
    <3>3. (p .. p + n - 1) \cap (q .. q + m - 1) = {}
      <4>1. CASE n > 0 /\ m > 0
        BY <3>1, <4>1
      <4>2. CASE n = 0
        BY <3>1, <4>2
      <4>3. CASE m = 0
        BY <3>1, <4>3
      <4> QED
        BY <3>1, <4>1, <4>2, <4>3
    <3> QED
      BY <3>2, <3>3
  <2> QED
    BY <2>1, <2>2
<1> QED
  BY <1>1, BackupAlways, PTL

(* A node is in exactly one database from its node_add until a node_delete *)
(* of it returns OK, and in none afterwards: a deletion that the caller is *)
(* told has failed, in whichever database, has left the node where it was. *)
THEOREM ToldTheTruth == Spec => []DeletedWhenTold
<1>1. BackupInv => DeletedWhenTold
  <2> SUFFICES ASSUME BackupInv, NEW id \in 1 .. issued
               PROVE  Cardinality({p \in Db \X NodeIdx : nodes[p[1]][p[2]].id = id})
                        = IF id \in deleted THEN 0 ELSE 1
    BY DEF DeletedWhenTold
  <2> DEFINE places == {p \in Db \X NodeIdx : nodes[p[1]][p[2]].id = id}
  <2>1. id # 0
    BY DEF BackupInv, StoreTyped
  <2>2. CASE id \in deleted
    <3>1. places = {}
      BY <2>1, <2>2 DEF BackupInv, InUse
    <3> QED
      BY <2>2, <3>1, FS_EmptySet
  <2>3. CASE id \notin deleted
    <3>1. PICK d \in Db : Holds(d, id)
      BY <2>3 DEF BackupInv, HasPlace
    <3>2. PICK i \in NodeIdx : nodes[d][i].id = id
      BY <3>1 DEF Holds
    <3>3. \A e \in Db, j \in NodeIdx : nodes[e][j].id = id <=> e = d /\ j = i
      BY <2>1, <3>2 DEF BackupInv, OnlyPlace
    <3>4. places = {<<d, i>>}
      BY <3>3
    <3> HIDE DEF places
    <3>5. Cardinality(places) = 1
      BY <3>4, FS_Singleton
    <3> QED
      BY <2>3, <3>5 DEF places
  <2> QED
    BY <2>2, <2>3
<1> QED
  BY <1>1, BackupAlways, PTL

-----------------------------------------------------------------------------
(* Where node_lookup finds a node. Its search through the entries is a     *)
(* recursive function: at every place it looks it up in, it goes on to one *)
(* of a lower rank.                                                        *)

Value == Db \cup {None}

(* What the search gives at a place, if `h` is what it gives further on.   *)
LookAt(id, h, at) ==
  LET entry == backups[at.db][at.slot]
      there == IF at.slot > 0 THEN ByIndex(entry, at.slot, id)
               ELSE IF Holds(entry, id) THEN entry
               ELSE h[[depth |-> at.depth - 1, db |-> entry, slot |-> 0]]
  IN  IF at.depth = 0 \/ at.slot = NumBackups \/ entry = Broken THEN None
      ELSE IF entry # Null /\ there # None THEN there
      ELSE h[[at EXCEPT !.slot = @ + 1]]

Looks(id, h) == h = [at \in SearchAt |-> LookAt(id, h, at)]

Rank(at) == at.depth * (NumBackups + 1) + (NumBackups - at.slot)

(* The places the search goes on to.                                       *)
LEMMA RankFalls ==
  ASSUME NEW at \in SearchAt
  PROVE  /\ Rank(at) \in Nat
         /\ at.slot # NumBackups =>
              /\ [at EXCEPT !.slot = @ + 1] \in SearchAt
              /\ Rank([at EXCEPT !.slot = @ + 1]) < Rank(at)
         /\ \A entry \in Db : at.depth # 0 /\ at.slot = 0 /\ at.slot # NumBackups =>
              /\ [depth |-> at.depth - 1, db |-> entry, slot |-> 0] \in SearchAt
              /\ Rank([depth |-> at.depth - 1, db |-> entry, slot |-> 0]) < Rank(at)
<1> DEFINE n == Cardinality(Db)
           d == at.depth
           s == at.slot
           c == NumBackups
<1>1. n \in Nat /\ c \in Nat
  BY BackupAssumption, FS_CardinalityType
<1>2. d \in 0 .. n /\ s \in 0 .. c /\ at.db \in Db
  BY DEF SearchAt
<1>3. ASSUME s # c
      PROVE  /\ [at EXCEPT !.slot = s + 1] \in SearchAt
             /\ Rank([at EXCEPT !.slot = s + 1]) = d * (c + 1) + (c - (s + 1))
  <2>1. s + 1 \in 0 .. c
    <3> HIDE DEF s, c
    <3>. QED
      BY <1>1, <1>2, <1>3
  <2>. QED
    BY <2>1 DEF SearchAt, Rank
<1>4. ASSUME NEW entry \in Db, d # 0
      PROVE  /\ [depth |-> d - 1, db |-> entry, slot |-> 0] \in SearchAt
             /\ Rank([depth |-> d - 1, db |-> entry, slot |-> 0]) = (d - 1) * (c + 1) + (c - 0)
  <2>1. d - 1 \in 0 .. n /\ 0 \in 0 .. c
    <3> HIDE DEF d, n, c
    <3>. QED
      BY <1>1, <1>2, <1>4
  <2>. QED
    BY <2>1 DEF SearchAt, Rank
<1>5. Rank(at) = d * (c + 1) + (c - s)
  BY DEF Rank
<1> HIDE DEF d, s, c, n
<1> DEFINE p == d * (c + 1)
           q == (d - 1) * (c + 1)
<1>6. p \in Nat /\ (d # 0 => q \in Nat /\ p = q + (c + 1))
  <2>1. c + 1 \in Nat /\ d \in Nat
    BY <1>1, <1>2
  <2>2. p \in Nat
    BY <2>1
  <2>3. d # 0 => q \in Nat /\ p = q + (c + 1)
    BY <2>1
  <2>. QED
    BY <2>2, <2>3
<1> HIDE DEF p, q
<1>7. Rank(at) \in Nat
  BY <1>1, <1>2, <1>5, <1>6 DEF p
<1>8. s # c => p + (c - (s + 1)) < p + (c - s)
  BY <1>1, <1>2, <1>6
<1>9. d # 0 /\ s = 0 => q + (c - 0) < p + (c - s)
  BY <1>1, <1>2, <1>6
<1>10. s # c => /\ [at EXCEPT !.slot = s + 1] \in SearchAt
                /\ Rank([at EXCEPT !.slot = s + 1]) < Rank(at)
  BY <1>3, <1>5, <1>8 DEF p
<1>11. \A entry \in Db : d # 0 /\ s = 0 =>
         /\ [depth |-> d - 1, db |-> entry, slot |-> 0] \in SearchAt
         /\ Rank([depth |-> d - 1, db |-> entry, slot |-> 0]) < Rank(at)
  BY <1>4, <1>5, <1>9 DEF p, q
<1>12. [at EXCEPT !.slot = @ + 1] = [at EXCEPT !.slot = s + 1]
  BY DEF s
<1>. QED
  BY <1>7, <1>10, <1>11, <1>12 DEF d, s, c

(* What an entry of a backup list is.                                      *)
LEMMA EntryTyped ==
  ASSUME backups \in Lists, NEW db \in Db, NEW slot \in Slot
  PROVE  backups[db][slot] \in Db \cup {Null, Broken}
<1>1. backups \in [Db -> [Slot -> Db \cup {Null, Broken}]]
  BY BackupAssumption
<1>. QED
  BY <1>1

(* The search by an index ends in a database that has the node, or none.   *)
LEMMA ByIndexHolds ==
  ASSUME NEW db, NEW backup, NEW id
  PROVE  /\ ByIndex(db, backup, id) \in Value
         /\ ByIndex(db, backup, id) # None => Holds(ByIndex(db, backup, id), id)
  BY DEF ByIndex, Value

(* What a search gives depends on what it gives at places of lower rank.   *)
LEMMA LookAtDepends ==
  ASSUME backups \in Lists, NEW id, NEW g, NEW h, NEW at \in SearchAt,
         \A b \in SearchAt : Rank(b) < Rank(at) => g[b] = h[b]
  PROVE  LookAt(id, g, at) = LookAt(id, h, at)
<1> DEFINE entry == backups[at.db][at.slot]
           nexts == [at EXCEPT !.slot = @ + 1]
           below == [depth |-> at.depth - 1, db |-> entry, slot |-> 0]
<1>1. CASE at.depth = 0 \/ at.slot = NumBackups \/ entry = Broken
  BY <1>1 DEF LookAt
<1>2. CASE ~(at.depth = 0 \/ at.slot = NumBackups \/ entry = Broken)
  <2>1. at.slot \in 0 .. NumBackups /\ at.db \in Db /\ at.slot # NumBackups
    BY <1>2 DEF SearchAt
  <2>2. at.slot \in Slot
    BY <2>1, BackupAssumption DEF Slot
  <2>3. entry \in Db \cup {Null}
    BY <1>2, <2>1, <2>2, EntryTyped
  <2>4. g[nexts] = h[nexts]
    BY <2>1, RankFalls
  <2>5. ASSUME entry # Null, ~(at.slot > 0) PROVE g[below] = h[below]
    <3>1. at.slot = 0 /\ entry \in Db
      BY <2>1, <2>3, <2>5
    <3>. QED
      BY <3>1, <1>2, <2>1, RankFalls
  <2> HIDE DEF entry, nexts, below
  <2>6. LookAt(id, g, at) = IF entry # Null /\ (IF at.slot > 0 THEN ByIndex(entry, at.slot, id)
                                                ELSE IF Holds(entry, id) THEN entry
                                                ELSE g[below]) # None
                            THEN (IF at.slot > 0 THEN ByIndex(entry, at.slot, id)
                                  ELSE IF Holds(entry, id) THEN entry ELSE g[below])
                            ELSE g[nexts]
    BY <1>2 DEF LookAt, entry, nexts, below
  <2>7. LookAt(id, h, at) = IF entry # Null /\ (IF at.slot > 0 THEN ByIndex(entry, at.slot, id)
                                                ELSE IF Holds(entry, id) THEN entry
                                                ELSE h[below]) # None
                            THEN (IF at.slot > 0 THEN ByIndex(entry, at.slot, id)
                                  ELSE IF Holds(entry, id) THEN entry ELSE h[below])
                            ELSE h[nexts]
    BY <1>2 DEF LookAt, entry, nexts, below
  <2>8. CASE entry = Null
    BY <2>4, <2>6, <2>7, <2>8
  <2>9. CASE at.slot > 0
    BY <2>4, <2>6, <2>7, <2>9
  <2>10. CASE entry # Null /\ ~(at.slot > 0)
    BY <2>4, <2>5, <2>6, <2>7, <2>10
  <2>. QED
    BY <2>8, <2>9, <2>10
<1>. QED
  BY <1>1, <1>2

(* The results a search may have: a database that holds the node, or none. *)
Good(id) == {v \in Value : v # None => Holds(v, id)}

(* A search has such a result if it has such results further on.           *)
LEMMA LookAtGood ==
  ASSUME backups \in Lists, NEW id, NEW h, NEW at \in SearchAt,
         \A b \in SearchAt : Rank(b) < Rank(at) => h[b] \in Good(id)
  PROVE  LookAt(id, h, at) \in Good(id)
<1> DEFINE entry == backups[at.db][at.slot]
           nexts == [at EXCEPT !.slot = @ + 1]
           below == [depth |-> at.depth - 1, db |-> entry, slot |-> 0]
<1>0. None \in Good(id)
  BY DEF Good, Value
<1>1. CASE at.depth = 0 \/ at.slot = NumBackups \/ entry = Broken
  BY <1>0, <1>1 DEF LookAt
<1>2. CASE ~(at.depth = 0 \/ at.slot = NumBackups \/ entry = Broken)
  <2>1. at.slot \in 0 .. NumBackups /\ at.db \in Db /\ at.slot # NumBackups
    BY <1>2 DEF SearchAt
  <2>2. at.slot \in Slot
    BY <2>1, BackupAssumption DEF Slot
  <2>3. entry \in Db \cup {Null}
    BY <1>2, <2>1, <2>2, EntryTyped
  <2>4. h[nexts] \in Good(id)
    BY <2>1, RankFalls
  <2>5. ASSUME entry # Null, ~(at.slot > 0) PROVE h[below] \in Good(id)
    <3>1. at.slot = 0 /\ entry \in Db
      BY <2>1, <2>3, <2>5
    <3>. QED
      BY <3>1, <1>2, <2>1, RankFalls
  <2>6. ByIndex(entry, at.slot, id) \in Good(id)
    BY ByIndexHolds DEF Good
  <2>7. entry # Null /\ Holds(entry, id) => entry \in Good(id)
    BY <2>3 DEF Good, Value
  <2> HIDE DEF entry, nexts, below
  <2>8. LookAt(id, h, at) = IF entry # Null /\ (IF at.slot > 0 THEN ByIndex(entry, at.slot, id)
                                                ELSE IF Holds(entry, id) THEN entry
                                                ELSE h[below]) # None
                            THEN (IF at.slot > 0 THEN ByIndex(entry, at.slot, id)
                                  ELSE IF Holds(entry, id) THEN entry ELSE h[below])
                            ELSE h[nexts]
    BY <1>2 DEF LookAt, entry, nexts, below
  <2>9. CASE entry = Null
    BY <2>4, <2>8, <2>9
  <2>10. CASE entry # Null /\ at.slot > 0
    BY <2>4, <2>6, <2>8, <2>10
  <2>11. CASE entry # Null /\ ~(at.slot > 0)
    BY <2>4, <2>5, <2>7, <2>8, <2>11
  <2>. QED
    BY <2>9, <2>10, <2>11
<1>. QED
  BY <1>1, <1>2

(* The search has a result everywhere: starting from any function and      *)
(* looking again and again, the results at one rank after the other no     *)
(* longer change.                                                          *)
LEMMA LooksExist ==
  ASSUME backups \in Lists, NEW id
  PROVE  \E h : Looks(id, h)
<1> DEFINE Fun == [SearchAt -> Good(id)]
           F   == [k \in Nat |-> [h \in Fun |-> [at \in SearchAt |-> LookAt(id, h, at)]]]
           x   == [at \in SearchAt |-> None]
<1>1. PICK f : \A k \in Nat : f[k] = IF k = 0 THEN x ELSE F[k][f[k - 1]]
  <2> HIDE DEF F, x
  <2>1. \E f : RepeatsAlways(F, x, f)
    BY Repetition
  <2>. QED
    BY <2>1 DEF RepeatsAlways
<1>2. \A k \in Nat : k + 1 \in Nat /\ k + 1 # 0 /\ (k + 1) - 1 = k
  OBVIOUS
<1>3. \A k \in Nat : f[k] \in Fun
  <2> DEFINE S == {k \in Nat : f[k] \in Fun}
  <2>1. 0 \in S
    <3>1. x \in Fun
      BY DEF Good, Value
    <3> HIDE DEF x, Fun, F
    <3>. QED
      BY <1>1, <3>1
  <2>2. ASSUME NEW k \in Nat, k \in S PROVE k + 1 \in S
    <3>1. f[k + 1] = F[k + 1][f[k]]
      <4> HIDE DEF F, x
      <4>. QED
        BY <1>1, <1>2
    <3>2. f[k] \in Fun
      BY <2>2
    <3>3. f[k + 1] = [at \in SearchAt |-> LookAt(id, f[k], at)]
      BY <3>1, <3>2, <1>2
    <3>4. \A b \in SearchAt : f[k][b] \in Good(id)
      BY <3>2
    <3>5. \A at \in SearchAt : LookAt(id, f[k], at) \in Good(id)
      BY <3>4, LookAtGood
    <3>. QED
      BY <3>3, <3>5
  <2> HIDE DEF S
  <2>3. Nat \subseteq S
    BY <2>1, <2>2, SetInduction
  <2>. QED
    BY <2>3 DEF S
<1>4. ASSUME NEW k \in Nat, NEW at \in SearchAt
      PROVE  f[k + 1][at] = LookAt(id, f[k], at)
  <2>1. f[k + 1] = F[k + 1][f[k]]
    <3> HIDE DEF F, x
    <3>. QED
      BY <1>1, <1>2
  <2>2. f[k] \in Fun
    BY <1>3
  <2>. QED
    BY <2>1, <2>2, <1>2
<1> HIDE DEF F, x, Fun
<1> DEFINE g == [at \in SearchAt |-> f[Rank(at) + 1][at]]
           A(k) == \A at \in SearchAt : Rank(at) < k => f[k][at] = g[at]
           S == {k \in Nat : \A j \in 0 .. k : A(j)}
<1>5. \A at \in SearchAt : Rank(at) \in Nat
  BY RankFalls
<1>6. \A at \in SearchAt : g[at] = LookAt(id, f[Rank(at)], at)
  BY <1>4, <1>5
<1> HIDE DEF g
<1>7. 0 \in S
  <2>1. A(0)
    BY <1>5
  <2> HIDE DEF A
  <2>. QED
    BY <2>1
<1>8. ASSUME NEW k \in Nat, k \in S PROVE k + 1 \in S
  <2>1. A(k + 1)
    <3> SUFFICES ASSUME NEW at \in SearchAt, Rank(at) < k + 1 PROVE f[k + 1][at] = g[at]
      OBVIOUS
    <3>1. Rank(at) \in 0 .. k /\ k \in 0 .. k
      BY <1>5
    <3>2. A(Rank(at)) /\ A(k)
      <4> HIDE DEF A
      <4>. QED
        BY <1>8, <3>1
    <3>3. \A b \in SearchAt : Rank(b) < Rank(at) => f[k][b] = f[Rank(at)][b]
      <4> SUFFICES ASSUME NEW b \in SearchAt, Rank(b) < Rank(at)
                   PROVE  f[k][b] = f[Rank(at)][b]
        OBVIOUS
      <4>1. Rank(b) < k
        BY <1>5, <3>1
      <4>. QED
        BY <4>1, <3>2
    <3>4. LookAt(id, f[k], at) = LookAt(id, f[Rank(at)], at)
      BY <3>3, LookAtDepends
    <3>. QED
      BY <3>4, <1>4, <1>6
  <2> HIDE DEF A
  <2>2. \A j \in 0 .. k + 1 : j \in 0 .. k \/ j = k + 1
    OBVIOUS
  <2>. QED
    BY <1>8, <2>1, <2>2
<1> HIDE DEF S
<1>9. \A k \in Nat : A(k)
  <2>1. Nat \subseteq S
    BY <1>7, <1>8, SetInduction
  <2> HIDE DEF A
  <2>2. \A k \in Nat : k \in 0 .. k
    OBVIOUS
  <2>. QED
    BY <2>1, <2>2 DEF S
<1>10. \A at \in SearchAt : g[at] = LookAt(id, g, at)
  <2> SUFFICES ASSUME NEW at \in SearchAt PROVE g[at] = LookAt(id, g, at)
    OBVIOUS
  <2>1. \A b \in SearchAt : Rank(b) < Rank(at) => f[Rank(at)][b] = g[b]
    BY <1>5, <1>9
  <2>2. LookAt(id, f[Rank(at)], at) = LookAt(id, g, at)
    BY <2>1, LookAtDepends
  <2>. QED
    BY <2>2, <1>6
<1>11. g = [at \in SearchAt |-> g[at]]
  BY DEF g
<1>12. Looks(id, g)
  BY <1>10, <1>11 DEF Looks
<1>. QED
  BY <1>12

(* Whatever the backup lists are, a search through the entries ends in a   *)
(* database that holds the node, or in none.                               *)
LEMMA SearchHolds ==
  ASSUME backups \in Lists, NEW id, NEW db \in Db
  PROVE  Found(id)[db] \in Good(id)
<1> DEFINE In == CHOOSE h : Looks(id, h)
           S  == {m \in Nat : \A at \in SearchAt : Rank(at) < m => In[at] \in Good(id)}
           at0 == [depth |-> Cardinality(Db), db |-> db, slot |-> 0]
<1>1. Looks(id, In)
  BY LooksExist
<1>2. InEntries(id)[db] = In[at0]
  BY DEF InEntries, Looks, LookAt
<1> HIDE DEF In
<1>3. \A at \in SearchAt : In[at] = LookAt(id, In, at)
  BY <1>1 DEF Looks
<1>4. \A at \in SearchAt : Rank(at) \in Nat
  BY RankFalls
<1>5. 0 \in S
  BY <1>4
<1>6. ASSUME NEW m \in Nat, m \in S PROVE m + 1 \in S
  <2> SUFFICES ASSUME NEW at \in SearchAt, Rank(at) < m + 1 PROVE In[at] \in Good(id)
    OBVIOUS
  <2>1. \A b \in SearchAt : Rank(b) < Rank(at) => Rank(b) < m
    BY <1>4
  <2>2. \A b \in SearchAt : Rank(b) < Rank(at) => In[b] \in Good(id)
    BY <2>1, <1>6
  <2>. QED
    BY <2>2, <1>3, LookAtGood
<1> HIDE DEF S
<1>7. Nat \subseteq S
  BY <1>5, <1>6, SetInduction
<1>8. at0 \in SearchAt
  <2>1. Cardinality(Db) \in Nat /\ NumBackups \in Nat
    BY BackupAssumption, FS_CardinalityType
  <2>2. Cardinality(Db) \in 0 .. Cardinality(Db) /\ 0 \in 0 .. NumBackups
    BY <2>1
  <2>. QED
    BY <2>2 DEF SearchAt
<1> HIDE DEF at0
<1>9. In[at0] \in Good(id)
  <2>1. Rank(at0) < Rank(at0) + 1 /\ Rank(at0) + 1 \in Nat
    BY <1>4, <1>8
  <2>. QED
    BY <2>1, <1>7, <1>8 DEF S
<1>10. Holds(db, id) => db \in Good(id)
  BY DEF Good, Value
<1>. QED
  BY <1>2, <1>9, <1>10 DEF Found

(* What TypeOK says besides StoreTyped: the last pointer given to a reader *)
(* is a node's position.                                                   *)
ReadTyped ==
  /\ backups \in Lists
  /\ got \in [id : 0 .. issued, db : Db, ptr : Nat]
  /\ res \in {"OK", "NOT_FOUND"}

(* A node that is there has a position.                                    *)
LEMMA PositionTyped ==
  ASSUME StoreTyped, NEW db \in Db, NEW id, Holds(db, id)
  PROVE  NodeOf(db, id).data_pos \in Nat
<1> DEFINE all == {nodes[db][i] : i \in NodeIdx}
<1>1. \A i \in NodeIdx : nodes[db][i] \in Node
  BY DEF StoreTyped
<1>2. \E n \in all : n.id = id
  BY DEF Holds
<1>3. NodeOf(db, id) \in all
  BY <1>2 DEF NodeOf
<1>4. NodeOf(db, id) \in Node
  BY <1>1, <1>3
<1>. QED
  BY <1>4 DEF Node

(* What node_get_data gave keeps its type: only that call changes it.      *)
LEMMA ReadTypedNext == StoreTyped /\ ReadTyped /\ [Next]_vars => ReadTyped'
<1> SUFFICES ASSUME StoreTyped, ReadTyped, [Next]_vars PROVE ReadTyped'
  OBVIOUS
<1>1. ASSUME NEW size \in Sizes, Add(size) PROVE ReadTyped'
  <2>1. issued \in Nat /\ issued' = issued + 1
    BY <1>1, BackupAssumption DEF StoreTyped, Add
  <2>2. 0 .. issued \subseteq 0 .. issued'
    BY <2>1
  <2>. QED
    BY <1>1, <2>2 DEF ReadTyped, Add
<1>2. CASE AddFull
  BY <1>2 DEF ReadTyped, AddFull
<1>3. ASSUME NEW id \in 1 .. issued, DeleteHere(id) PROVE ReadTyped'
  BY <1>3 DEF ReadTyped, DeleteHere
<1>4. ASSUME NEW id \in 1 .. issued, NEW backup \in 1 .. NumBackups + 1,
             DeleteByBackup(id, backup)
      PROVE  ReadTyped'
  BY <1>4 DEF ReadTyped, DeleteByBackup
<1>5. ASSUME NEW id \in 1 .. issued, NEW backup \in 0 .. NumBackups + 1, GetData(id, backup)
      PROVE  ReadTyped'
  <2> DEFINE real == IF backup = 0 THEN handle ELSE Opened(handle, backup - 1)
             home == Lookup(real, backup, id)
  <2>1. CASE UNCHANGED <<got, backups, issued>> /\ res' = "NOT_FOUND"
    BY <2>1 DEF ReadTyped
  <2>2. CASE /\ real \in Db /\ home # None
             /\ got' = [id |-> id, db |-> real, ptr |-> NodeOf(home, id).data_pos]
             /\ res' = "OK" /\ UNCHANGED <<backups, issued>>
    <3>1. home \in Good(id)
      <4>1. CASE backup = 0
        <5>1. real = handle /\ home = Found(id)[handle] /\ handle \in Db
          BY <4>1 DEF Lookup, StoreTyped
        <5>. QED
          BY <5>1, SearchHolds DEF ReadTyped
      <4>2. CASE backup # 0
        BY <4>2, ByIndexHolds DEF Lookup, Good
      <4>. QED
        BY <4>1, <4>2
    <3>2. home \in Db /\ Holds(home, id)
      BY <2>2, <3>1 DEF Good, Value
    <3> HIDE DEF home, real
    <3>3. NodeOf(home, id).data_pos \in Nat
      BY <3>2, PositionTyped
    <3>4. id \in 0 .. issued
      BY BackupAssumption DEF StoreTyped
    <3>. QED
      BY <2>2, <3>3, <3>4 DEF ReadTyped
  <2>. QED
    BY <1>5, <2>1, <2>2 DEF GetData
<1>6. CASE UNCHANGED vars
  BY <1>6 DEF ReadTyped, vars
<1>. QED
  BY <1>1, <1>2, <1>3, <1>4, <1>5, <1>6 DEF Next

(* However the backup lists refer to each other, cycles included, the      *)
(* handle is always that of a database, and what a reader is given is the  *)
(* position of a node that was found: the search through the entries never *)
(* ends in a database that does not hold the node.                         *)
THEOREM BackupTypeCorrect == Spec => []TypeOK
<1>1. Init => ReadTyped
  BY BackupAssumption DEF Init, ReadTyped
<1>2. BackupInv => StoreTyped
  BY DEF BackupInv
<1>3. StoreTyped /\ ReadTyped => TypeOK
  BY DEF StoreTyped, ReadTyped, TypeOK, Bytewise
<1>. QED
  BY <1>1, <1>2, <1>3, ReadTypedNext, BackupAlways, PTL DEF Spec

=============================================================================
