---------------------------- MODULE KernelFormat ----------------------------
(***************************************************************************)
(* The lists of the database in memory at their real places: what kmain    *)
(* stores there (src/src/kernel.c), byte for byte where it matters, and    *)
(* how the database reads them (src/src/node.c).                           *)
(*                                                                         *)
(* Memory is counted in words of eight bytes from HEADER_ADDR. It holds    *)
(* whatever it held at boot until something is stored: zeros, or Junk.     *)
(***************************************************************************)
EXTENDS Integers

CONSTANTS
  MAX_REGION, MAX_BACKUP, NODES_PER_REGION,   \* 32, 4 and 32 in kernel.c
  Junk                                        \* a word nobody stored

ASSUME KernelAssumption ==
  /\ MAX_REGION \in Nat \ {0} /\ NODES_PER_REGION \in Nat \ {0}
  /\ MAX_BACKUP \in Nat /\ MAX_BACKUP >= 2
  /\ MAX_REGION * NODES_PER_REGION >= 6      \* the last entry's stray byte is in the node list
  /\ Junk \notin Nat

Sector      == 64           \* 512 bytes
RegionWords == 2            \* sizeof(node_region_entry_t)
BackupWords == 37           \* sizeof(node_backup_entry_t): type, 32 bytes ref, 256 bytes other
Other       == 5            \* where `other` starts in it
NodeWords   == 6            \* sizeof(node_t)
NumNodes    == MAX_REGION * NODES_PER_REGION

REGION_LIST_ADDR == Sector
BACKUP_LIST_ADDR == REGION_LIST_ADDR + RegionWords * MAX_REGION
NODE_LIST_ADDR   == BACKUP_LIST_ADDR + BackupWords * MAX_BACKUP
DATA_ADDR        == NODE_LIST_ADDR + NodeWords * NumNodes

Lists == REGION_LIST_ADDR .. DATA_ADDR - 1

VARIABLES
  cold,     \* what memory held at boot
  header,   \* the header's two table sizes; 0 before they are stored
  memory,   \* the words of the three lists
  kpc,      \* "header", "regions", "backups", "disk" or "ready"
  ki        \* the loop variable i

kvars == <<cold, header, memory, kpc, ki>>

KernelTypeOK ==
  /\ cold \in {0, Junk}
  /\ header \in [regions : {0, MAX_REGION}, backups : {0, MAX_BACKUP}]
  /\ memory \in [Lists -> Nat \cup {Junk}]
  /\ kpc \in {"header", "regions", "backups", "disk", "ready"}
  /\ ki \in 0 .. MAX_REGION + MAX_BACKUP

-----------------------------------------------------------------------------
(* Bugs the code could have had: an inclusive end, the disk put into the   *)
(* first entry, a backup list that is looked for behind as many regions as *)
(* there are backups.                                                      *)

InclusiveEnd(i) == i * NODES_PER_REGION + NODES_PER_REGION - 1

TheFirstEntry == 0

BehindTheBackups(regions) == regions + RegionWords * header.backups

-----------------------------------------------------------------------------
(* kmain, one turn of a loop at a time. memset stores one byte only, the   *)
(* one after the block: the lowest of a word here.                         *)

Region(i) == REGION_LIST_ADDR + RegionWords * i
Backup(i) == BACKUP_LIST_ADDR + BackupWords * i
NodeAt(i) == NODE_LIST_ADDR + NodeWords * i

LowByteCleared(v) == IF v \in 0 .. 255 THEN 0 ELSE v
memset(mem, s, n) == [mem EXCEPT ![s + n] = LowByteCleared(@)]

KernelInit ==
  /\ cold \in {0, Junk}
  /\ header = [regions |-> 0, backups |-> 0]
  /\ memory = [a \in Lists |-> cold]
  /\ kpc = "header" /\ ki = 0

SetHeader ==
  /\ kpc = "header"
  /\ memory' = memset(memory, 0, Sector)
  /\ header' = [regions |-> MAX_REGION, backups |-> MAX_BACKUP]
  /\ kpc' = "regions"
  /\ UNCHANGED <<cold, ki>>

RegionEnd(i) == i * NODES_PER_REGION + NODES_PER_REGION

(* The region, and the nodes from node i on: not from the region's first.  *)
SetRegion ==
  /\ kpc = "regions"
  /\ LET nulled == [a \in Lists |-> IF a \in NodeAt(ki) .. NodeAt(ki + NODES_PER_REGION) - 1
                                    THEN 0 ELSE memory[a]]
     IN  memory' = [nulled EXCEPT ![Region(ki)] = ki * NODES_PER_REGION, ![Region(ki) + 1] = RegionEnd(ki)]
  /\ ki' = (ki + 1) % MAX_REGION
  /\ kpc' = IF ki' = 0 THEN "backups" ELSE "regions"
  /\ UNCHANGED <<cold, header>>

(* Both memsets store past their block: into the first byte of `other`,    *)
(* and, for 512 bytes instead of 256, 32 words into the entry after it or, *)
(* from the last entry, into the node list.                                *)
SetBackup ==
  /\ kpc = "backups"
  /\ memory' = memset(memset([memory EXCEPT ![Backup(ki)] = 0], Backup(ki) + 1, 4),
                      Backup(ki) + Other, Sector)
  /\ ki' = (ki + 1) % MAX_BACKUP
  /\ kpc' = IF ki' = 0 THEN "disk" ELSE "backups"
  /\ UNCHANGED <<cold, header>>

(* The handle and the disk entry: type 2, the reference, drive 0 and the   *)
(* sector in the nine bytes behind it. `reference` stands for eight        *)
(* letters.                                                                *)
DiskSlot  == 1
reference == 10 ^ 6
DiskEntry == [w \in 0 .. BackupWords - 1 |->
                IF w = 0 THEN 2 ELSE IF w < Other THEN reference
                ELSE IF w = Other THEN 30720 * 256 ELSE 0]

SetDisk ==
  /\ kpc = "disk"
  /\ memory' = [a \in Lists |-> IF a - Backup(DiskSlot) \in DOMAIN DiskEntry
                                THEN DiskEntry[a - Backup(DiskSlot)] ELSE memory[a]]
  /\ kpc' = "ready"
  /\ UNCHANGED <<cold, header, ki>>

KernelNext == SetHeader \/ SetRegion \/ SetBackup \/ SetDisk

-----------------------------------------------------------------------------
(* How the lists are read.                                                 *)

(* node_lookup_region and node_lookup_backup: what they do not refuse.     *)
Admitted(index, limit) == ~(index > limit)
RegionAt(i) == [start |-> memory[Region(i)], end |-> memory[Region(i) + 1]]

(* The regions node_add and node_get_max_node walk over: as many as there  *)
(* are up to the first end of 0, wherever that is.                         *)
Walked == LET ends == {i \in 0 .. MAX_REGION + BackupWords : RegionAt(i).end = 0}
          IN  {i \in 0 .. MAX_REGION + BackupWords : \A e \in ends : i < e}

node_get_max_node == IF Walked = {} THEN 0
                     ELSE RegionAt(CHOOSE i \in Walked : \A j \in Walked : j <= i).end

(* node_lookup_database_ref: the lists of a database at an address.        *)
RegionsOf           == Sector
BackupsOf(regions)  == regions + RegionWords * header.regions
NodesOf(backups)    == backups + BackupWords * header.backups
DataOf(nodes)       == nodes + NodeWords * node_get_max_node

-----------------------------------------------------------------------------
(* The bytes that the four memsets store past their blocks hit nothing:    *)
(* whatever memory held, the regions share the node list out between them, *)
(* the entry that kmain's reference names (2, counted from 1) is the       *)
(* disk's, the others are null, and nodes 0 to MAX_REGION +                *)
(* NODES_PER_REGION - 2 are null, not more (memset in kmain, and its loop  *)
(* over nodes).                                                            *)
ListsAsMeant ==
  kpc = "ready" =>
    /\ \A n \in 0 .. NumNodes - 1 :
         \E i \in 0 .. MAX_REGION - 1 :
           /\ n \in RegionAt(i).start .. RegionAt(i).end - 1
           /\ \A j \in 0 .. MAX_REGION - 1 : n \in RegionAt(j).start .. RegionAt(j).end - 1 => j = i
    /\ \A i \in 0 .. MAX_BACKUP - 1 : memory[Backup(i)] = IF i = 2 - 1 THEN 2 ELSE 0
    /\ \A n \in 0 .. NumNodes - 1 :
         (\A w \in 0 .. NodeWords - 1 : memory[NodeAt(n) + w] = 0)
           <=> (cold = 0 \/ n < MAX_REGION + NODES_PER_REGION - 1)

(* The bound tests let one region too many through and the walks have no   *)
(* bound at all: what stops both is the first backup entry, read as a      *)
(* region. As long as it is null no node outside the list is looked at     *)
(* (node_lookup_region, node_add). Memory that was not zero at boot is     *)
(* left out: the entry's reference is not cleared.                         *)
NodesInTheList ==
  kpc = "ready" /\ cold = 0 =>
    \A i \in Walked \cup {j \in 0 .. MAX_REGION + 1 : Admitted(j, header.regions)} :
      RegionAt(i).start .. RegionAt(i).end - 1 \subseteq 0 .. NumNodes - 1

(* In memory that was zero at boot, the kernel's database, opened by its   *)
(* address, has its data area where kmain put it: it is looked for behind  *)
(* the last node, which a walk finds over a region table that has no end   *)
(* mark but the null entry of the backup list behind it                    *)
(* (node_lookup_database_ref, node_get_max_node). In memory that was not   *)
(* zero the walk goes on over that entry's reference, which nobody clears, *)
(* and the data area is taken to be wherever that leads.                   *)
OpenedWhereFormatted ==
  kpc = "ready" /\ cold = 0 => DataOf(NodesOf(BackupsOf(RegionsOf))) = DATA_ADDR

==============================================================================
