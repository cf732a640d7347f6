----------------------------- MODULE BackupRefs -----------------------------
(***************************************************************************)
(* Nodes of several databases in memory, reached through one handle        *)
(* (src/src/node.c: node_add, node_get_data, node_delete and node_set,     *)
(* with and without a backup in the reference).                            *)
(*                                                                         *)
(* The handle is alloc_db: everyone's calls go through it. node_get_data   *)
(* works on a copy of it; node_delete and node_set overwrite it with the   *)
(* handle of the backup they open. A call is one step: the kernel runs     *)
(* nothing else meanwhile.                                                 *)
(*                                                                         *)
(* A database is one region of nodes, its position of free bytes and its   *)
(* data area. What node_lookup finds is written out as a function of the   *)
(* databases; NodeLookup has its steps. A byte is Zero, Junk, or the id of *)
(* the node that node_add copied there.                                    *)
(***************************************************************************)
EXTENDS Integers, FiniteSets

CONSTANTS
  Db,         \* the databases
  Root,       \* the one the handle is of at the start
  NumBackups, \* entries of each backup list
  Null,       \* a null entry of a backup list
  Broken,     \* an entry node_lookup_database_ref fails for
  Lists,      \* the backup lists to consider
  NumNodes,   \* nodes of each database
  Sizes,      \* the sizes of nodes that are added
  MaxIds,     \* bound: how many nodes are added
  DataCap,    \* bound: how many bytes of each data area are used
  Zero, Junk, \* a byte that was cleared, and one nobody wrote
  None        \* no database

Slot    == 0 .. NumBackups - 1
NodeIdx == 0 .. NumNodes - 1
Node    == [id : Nat, size : Nat, data_pos : Nat]
Id      == 1 .. MaxIds         \* ids do not repeat: see IdGenerator

ASSUME BackupAssumption ==
  /\ Root \in Db /\ IsFiniteSet(Db) /\ None \notin Db
  /\ Null \notin Db /\ Broken \notin Db /\ Null # Broken
  /\ NumBackups \in Nat /\ NumNodes \in Nat /\ MaxIds \in Nat /\ DataCap \in Nat
  /\ Lists \subseteq [Db -> [Slot -> Db \cup {Null, Broken}]]
  /\ Sizes \subseteq Nat \ {0}
  /\ Zero \notin Id /\ Junk \notin Id

VARIABLES
  backups,  \* the backup lists; nobody changes them
  handle,   \* the database whose header and lists the handle points to
  nodes,    \* the node lists
  next,     \* next_data_pos of the headers
  data,     \* the data areas
  issued,   \* how many nodes were added
  deleted,  \* the ids for which node_delete returned OK
  got,      \* the last pointer node_get_data gave, and for which id
  res       \* what the last call returned

vars == <<backups, handle, nodes, next, data, issued, deleted, got, res>>

TypeOK ==
  /\ backups \in Lists /\ handle \in Db
  /\ nodes \in [Db -> [NodeIdx -> Node]]
  /\ next \in [Db -> 0 .. DataCap]
  /\ data \in [Db -> [0 .. DataCap -> Id \cup {Zero, Junk}]]
  /\ issued \in 0 .. MaxIds /\ deleted \subseteq 1 .. issued
  /\ got \in [id : 0 .. issued, db : Db, ptr : Nat]
  /\ res \in {"OK", "NOT_FOUND"}

-----------------------------------------------------------------------------
(* Bugs the code could have had: a handle of which everything but the      *)
(* header is overwritten, a size that is not stored, a copy that goes one  *)
(* too far, a node_set that stays in the database the caller had.          *)

KeepsTheHeader(old, id, size, free) ==
  [id |-> id, size |-> size, data_pos |-> IF old.size < size THEN next[Root] ELSE old.data_pos]

StoresTheGrowth(old, id, size, free) ==
  [id |-> id, size |-> size - old.size, data_pos |-> IF old.size < size THEN free ELSE old.data_pos]

StaysInTheCallers(db, id) ==
  nodes' = [nodes EXCEPT ![handle] =
              [i \in NodeIdx |-> IF @[i].id = id THEN [@[i] EXCEPT !.id = 0] ELSE @[i]]]

-----------------------------------------------------------------------------
(* Searching.                                                              *)

Holds(db, id) == \E i \in NodeIdx : nodes[db][i].id = id

(* node_lookup_backup and node_lookup_database_ref: the database an entry  *)
(* leads to.                                                               *)
Opened(db, slot) == IF slot \in Slot THEN backups[db][slot] ELSE Broken

(* node_lookup with a backup, counted from 1: one database is searched.    *)
ByIndex(db, backup, id) ==
  LET other == Opened(db, backup - 1)
  IN  IF other \in Db /\ Holds(other, id) THEN other ELSE None

(* node_lookup without one: the database itself, then its entries in turn  *)
(* from `slot` on, each by a call whose backup is the slot it is in. An    *)
(* entry that does not open ends the search.                               *)
SearchAt == [depth : 0 .. Cardinality(Db), db : Db, slot : 0 .. NumBackups]

InEntries(id) ==
  LET In[at \in SearchAt] ==
        LET entry == backups[at.db][at.slot]
            there == IF at.slot > 0 THEN ByIndex(entry, at.slot, id)
                     ELSE IF Holds(entry, id) THEN entry
                     ELSE In[[depth |-> at.depth - 1, db |-> entry, slot |-> 0]]
        IN  IF at.depth = 0 \/ at.slot = NumBackups \/ entry = Broken THEN None
            ELSE IF entry # Null /\ there # None THEN there
            ELSE In[[at EXCEPT !.slot = @ + 1]]
  IN  [db \in Db |-> In[[depth |-> Cardinality(Db), db |-> db, slot |-> 0]]]

Found(id) == [db \in Db |-> IF Holds(db, id) THEN db ELSE InEntries(id)[db]]

Lookup(db, backup, id) == IF backup = 0 THEN Found(id)[db] ELSE ByIndex(db, backup, id)

NodeOf(db, id) == CHOOSE n \in {nodes[db][i] : i \in NodeIdx} : n.id = id

-----------------------------------------------------------------------------
(* Changing.                                                               *)

Grows(old, size) == old.size < size
NewNode(old, id, size, free) ==
  [id |-> id, size |-> size, data_pos |-> IF Grows(old, size) THEN free ELSE old.data_pos]

Deleted(node) == [node EXCEPT !.id = 0]

memcpy(b, bytes, s, n) ==
  [a \in DOMAIN bytes |-> IF s <= a /\ a < s + n THEN b ELSE bytes[a]]

(* As in NodeStore: the one byte after the block is cleared.               *)
memset(bytes, s, n) == IF n > 0 THEN [bytes EXCEPT ![s + n] = Zero] ELSE bytes

(* node_set of the null node, in the database that node_set searches.      *)
SetNull(db, id) ==
  nodes' = [nodes EXCEPT ![db] =
              [i \in NodeIdx |-> IF @[i].id = id THEN Deleted(@[i]) ELSE @[i]]]

Init ==
  /\ backups \in Lists /\ handle = Root
  /\ nodes = [d \in Db |-> [i \in NodeIdx |-> [id |-> 0, size |-> 0, data_pos |-> 0]]]
  /\ next = [d \in Db |-> 0]
  /\ data = [d \in Db |-> [a \in 0 .. DataCap |-> Junk]]
  /\ issued = 0 /\ deleted = {} /\ res = "OK"
  /\ got = [id |-> 0, db |-> Root, ptr |-> 0]

Unused == {i \in NodeIdx : nodes[handle][i].id = 0}

Add(size) ==
  /\ issued < MaxIds                                                     \* bound
  /\ \E i \in Unused :
       LET old == nodes[handle][i]
           new == NewNode(old, issued + 1, size, next[handle])
       IN  /\ \A j \in Unused : i <= j
           /\ Grows(old, size) => next[handle] + size <= DataCap         \* bound
           /\ nodes' = [nodes EXCEPT ![handle][i] = new]
           /\ next' = [next EXCEPT ![handle] = IF Grows(old, size) THEN @ + size ELSE @]
           /\ data' = [data EXCEPT ![handle] = memcpy(new.id, @, new.data_pos, size)]
  /\ issued' = issued + 1 /\ res' = "OK"
  /\ UNCHANGED <<backups, handle, deleted, got>>

AddFull ==
  /\ Unused = {} /\ res' = "NOT_FOUND"
  /\ UNCHANGED <<backups, handle, nodes, next, data, issued, deleted, got>>

(* node_get_data: a copy of the handle is overwritten with the backup's,   *)
(* node_lookup follows the reference from there, and the position of the   *)
(* node it finds is taken in the data area of the copy.                    *)
GetData(id, backup) ==
  LET real == IF backup = 0 THEN handle ELSE Opened(handle, backup - 1)
      home == Lookup(real, backup, id)
  IN  /\ \/ /\ real \in Db /\ home # None
            /\ got' = [id |-> id, db |-> real, ptr |-> NodeOf(home, id).data_pos]
            /\ res' = "OK"
         \/ /\ real \in Db => home = None
            /\ res' = "NOT_FOUND" /\ UNCHANGED got
      /\ UNCHANGED <<backups, handle, nodes, next, data, issued, deleted>>

(* node_delete without a backup: the bytes are cleared before node_set,    *)
(* which searches this database only, finds the node or does not.          *)
DeleteHere(id) ==
  LET home == Found(id)[handle]
      node == NodeOf(home, id)
  IN  /\ \/ /\ home = None /\ res' = "NOT_FOUND"
            /\ UNCHANGED <<nodes, data, deleted>>
         \/ /\ home # None
            /\ data' = [data EXCEPT ![handle] = memset(@, node.data_pos, node.size)]
            /\ SetNull(handle, id)
            /\ IF Holds(handle, id) THEN res' = "OK" /\ deleted' = deleted \cup {id}
                                    ELSE res' = "NOT_FOUND" /\ UNCHANGED deleted
      /\ UNCHANGED <<backups, handle, next, issued, got>>

(* node_delete with a backup: the handle is overwritten with the backup's, *)
(* then node_lookup follows the reference from there; node_set does so     *)
(* once more and overwrites the handle again.                              *)
DeleteByBackup(id, backup) ==
  LET real == Opened(handle, backup - 1)
      home == ByIndex(real, backup, id)
      node == NodeOf(home, id)
  IN  /\ \/ /\ real \notin Db /\ res' = "NOT_FOUND"
            /\ UNCHANGED <<handle, nodes, data, deleted>>
         \/ /\ real \in Db /\ home = None
            /\ handle' = real /\ res' = "NOT_FOUND"
            /\ UNCHANGED <<nodes, data, deleted>>
         \/ /\ real \in Db /\ home # None
            /\ data' = [data EXCEPT ![real] = memset(@, node.data_pos, node.size)]
            /\ handle' = home
            /\ SetNull(home, id)
            /\ res' = "OK" /\ deleted' = deleted \cup {id}
      /\ UNCHANGED <<backups, next, issued, got>>

Next ==
  \/ \E size \in Sizes : Add(size)
  \/ AddFull
  \/ \E id \in 1 .. issued :
       \/ DeleteHere(id)
       \/ \E backup \in 0 .. NumBackups + 1 : GetData(id, backup)
       \/ \E backup \in 1 .. NumBackups + 1 : DeleteByBackup(id, backup)

Spec == Init /\ [][Next]_vars

-----------------------------------------------------------------------------
(* Properties.                                                             *)

Bytes(node) == node.data_pos .. node.data_pos + node.size - 1

(* However often the handle is overwritten, node_add takes node, position  *)
(* and bytes from one and the same database: in each, no two nodes have a  *)
(* common byte, null nodes included, and none reaches past next_data_pos.  *)
ExtentsApart ==
  \A db \in Db : \A i \in NodeIdx :
    /\ nodes[db][i].data_pos + nodes[db][i].size <= next[db]
    /\ \A j \in NodeIdx \ {i} : Bytes(nodes[db][i]) \cap Bytes(nodes[db][j]) = {}

(* A node is in exactly one database from its node_add until a node_delete *)
(* of it returns OK, and in none after that: no call that fails halfway,   *)
(* in whichever database, deletes it or leaves it behind.                  *)
DeletedWhenTold ==
  \A id \in 1 .. issued :
    Cardinality({p \in Db \X NodeIdx : nodes[p[1]][p[2]].id = id})
      = IF id \in deleted THEN 0 ELSE 1

(* design.txt:10-12: a reference may name a backup "to search for this     *)
(* node on", otherwise "all items will be searched until one if found". So *)
(* when node_get_data finds a node its pointer is to that node's bytes.    *)
GetsItsData ==
  got.id \in 1 .. issued \ deleted =>
    \E i \in NodeIdx : nodes[got.db][i].id = got.id /\ nodes[got.db][i].data_pos = got.ptr

==============================================================================
