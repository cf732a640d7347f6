----------------------------- MODULE DiskAttach -----------------------------
(***************************************************************************)
(* A lookup by way of a disk entry of the backup list (src/src/node.c:     *)
(* node_lookup, node_lookup_database_ref and node_lookup_by_index, type    *)
(* 2), as kmain does it, on the allocator of NodeStore.                    *)
(*                                                                         *)
(* The disk's header, region list and backup list are read into three      *)
(* nodes that alloc gives; then the disk's header is copied over the       *)
(* header of the handle the lookup works on. That handle is a copy of      *)
(* alloc_db, but its header is alloc_db's own.                             *)
(*                                                                         *)
(* Addresses and sizes are counted in sectors of 512 bytes; the odd byte   *)
(* of a list's block is left out (a list of nothing but that byte has a    *)
(* block of one sector here), and with it the byte that memset clears      *)
(* after a block that is freed (NodeStore has both). A read of several     *)
(* sectors puts them where Ata says; one that fails ends the command.      *)
(*                                                                         *)
(* When a list is read over the header that was read, the lookup goes on   *)
(* with what the header's block reads as then.                             *)
(*                                                                         *)
(* A free that finds no node goes on to the disk entry too, and opens it   *)
(* into a handle that nobody has initialized.                              *)
(***************************************************************************)
EXTENDS NodeStore, Sequences, FiniteSets

CONSTANTS
  Disks,        \* what the disk may hold
  DiskFails,    \* whether a read may fail
  MaxLookups,   \* bound: how many lookups are made
  OtherAllocs,  \* bound: allocations made by others
  StackFrames,  \* how many nested calls of alloc the stack has room for
  StackSectors, \* the largest list, in sectors, that the stack has room for in alloc
  IntRange      \* how many values an int has

(* What a lookup reads of the disk: the header, and the lists after it.    *)
Sector == 0 .. 2 * StackSectors

(* The fields of a database header that the lookup uses, and a disk: the   *)
(* header that each of its sectors reads as, once it lies in the header's  *)
(* block, and whether signature and reference are the expected ones in     *)
(* sector 0, the header itself.                                            *)
Header == [type : Nat, max_regions : Nat, max_backups : Nat]
Disk   == [valid : BOOLEAN, sectors : [Sector -> [header : Header, next_data_pos : Nat]]]

ASSUME DiskAssumption ==
  /\ StackSectors \in Nat \ {0}
  /\ Disks \subseteq Disk
  /\ DiskFails \in BOOLEAN
  /\ MaxLookups \in Nat /\ OtherAllocs \in Nat /\ StackFrames \in Nat \ {0}
  /\ Zero \notin Nat /\ Junk \notin Nat

(* No disk holds the image of a database in memory.                        *)
ASSUME TypeAssumption ==
  \A d \in Disks : \A s \in Sector : d.sectors[s].header.type # 1

ASSUME IntAssumption ==
  IntRange \in Nat /\ IntRange % 1024 = 0 /\ 1024 * StackSectors < IntRange

VARIABLES
  disk,     \* what the disk holds; nobody writes to it
  header,   \* the header that alloc_db and every copy of it point to
  pc,       \* where the lookup in progress is
  blocks,   \* its allocations so far: header, region list, backup list
  sizes,    \* regions_size / 512 and backups_size / 512, as far as known
  pending,  \* the sector the disk still has ready from a read of no sectors, or 0
  attached, \* all allocations that lookups have made
  looked,   \* how many lookups were made
  stray,    \* the one in progress is a free's that found no node
  depth,    \* calls of alloc waiting for node_lookup_by_index
  outcome   \* what the attachment, or the search after it, ended with

progress == <<blocks, sizes, pending, attached, looked, stray, depth>>
dvars  == <<vars, disk, header, pc, progress, outcome>>

(* Memory goes on past the data area that blocks are given from, by what a *)
(* lookup may need.                                                        *)
Room   == 1 + 2 * StackSectors
Memory == 0 .. DataCap + Room

DiskTypeOK ==
  /\ nodes \in [NodeIdx -> Node] /\ next_data_pos \in Nat
  /\ data \in [Memory -> Nat \cup {Zero, Junk}]
  /\ drawn \in 0 .. MaxDraws /\ attached \subseteq 0 .. drawn - 1
  /\ handles \in [Handle -> Allocation]
  /\ disk \in Disks /\ header \in Header
  /\ pc \in {"idle", "header", "check", "regions", "readRegions", "backups", "readBackups",
             "adopt", "search", "descend", "overflow", "lost"}
  /\ blocks \in Seq(attached) /\ Len(blocks) <= 3
  /\ sizes \in Seq(0 .. StackSectors) /\ Len(sizes) <= 2 /\ pending \in Nat
  /\ looked \in 0 .. MaxLookups /\ stray \in BOOLEAN /\ depth \in 0 .. StackFrames
  /\ outcome \in Results \cup {"HARDWARE", "INVALID", "NOT_IMPLEMENTED"}

-----------------------------------------------------------------------------
(* The 64-bit product of a count and a size, as it is stored in an int.    *)
AsInt(n) == ((n + IntRange \div 2) % IntRange) - IntRange \div 2

(* Bugs the code could have had: a comparison left out, a size rounded     *)
(* down, every type but the one in memory taken for a disk's, a buffer     *)
(* moved on before the first sector.                                       *)

TrustsTheDisk     == TRUE
RoundsDown(bytes) == AsInt(bytes) \div 512
NeedsDisk(type)   == type # 1
AdvancesFirst(i)  == 2 * i + 2

-----------------------------------------------------------------------------
(* The rounding loop of node_lookup_database_ref, and the / 512 after it:  *)
(* 0 when the int is between -511 and 0, so that alloc is asked for one    *)
(* byte, and negative below that.                                          *)
SectorsFor(bytes) == (AsInt(bytes) + 511) \div 512

RegionBytes == 16      \* sizeof(node_region_entry_t)
BackupBytes == 296     \* sizeof(node_backup_entry_t)

(* A sector of the disk, as a content of memory that no holder wrote.      *)
OnDisk(sector) == MaxDraws + sector

(* Where ata_read puts sector i of a read: see Ata!BufferSlot.             *)
Stride(i) == 2 * i

(* ata_read into a block: `got` sectors from `first` on.                   *)
ReadInto(block, first, got) ==
  [a \in Memory |->
     IF \E i \in 0 .. got - 1 : a = handles[block].ptr + Stride(i)
     THEN OnDisk(first + CHOOSE i \in 0 .. got - 1 : a = handles[block].ptr + Stride(i))
     ELSE data[a]]

(* What lies in the header's block: sector 0, unless a list was read over  *)
(* it.                                                                     *)
HeaderIs(sector) == data[handles[blocks[1]].ptr] = OnDisk(sector)

(* Signature and reference are what the lookup expects.                    *)
Accepted == disk.valid

(* The types for which node_lookup_by_index calls alloc.                   *)
Descends(type) == type = 2

Goto(next)   == pc' = next /\ UNCHANGED outcome
Return(code) == pc' = "idle" /\ outcome' = code

(* A call of alloc that does not succeed: every node is taken, the type of *)
(* the header is one that node_lookup_by_index has no code for, or one for *)
(* which it calls alloc in turn, and so on.                                *)
AllocFails ==
  /\ \/ /\ header.type = 1 /\ \A r \in Walked : FreeIn(r) = {}
        /\ Return("NOT_FOUND")
     \/ /\ header.type # 1 /\ ~ Descends(header.type)
        /\ Return("NOT_FOUND")
     \/ /\ Descends(header.type)
        /\ Goto("descend")
  /\ UNCHANGED <<vars, disk, header, progress>>

(* alloc as a step of the lookup, which then knows the sizes `known` of    *)
(* its lists and goes on at `next`.                                        *)
Allocate(size, known, next) ==
  \/ /\ header.type = 1 /\ Alloc(size)
     /\ blocks' = Append(blocks, drawn)
     /\ attached' = attached \cup {drawn}
     /\ sizes' = known
     /\ Goto(next)
     /\ UNCHANGED <<disk, header, pending, looked, stray, depth>>
  \/ AllocFails

(* What the code does from here on is undefined.                           *)
Lose == Goto("lost") /\ UNCHANGED <<vars, disk, header, progress>>

(* alloc of the block for a list: its buf[size] is on the stack, and a     *)
(* size that is negative, or more than the stack has room for, breaks that.*)
AllocateList(count, next) ==
  \/ count \notin 0 .. StackSectors /\ Lose
  \/ /\ count \in 0 .. StackSectors
     /\ Allocate(IF count = 0 THEN 1 ELSE count, Append(sizes, count), next)

-----------------------------------------------------------------------------
DiskInit ==
  /\ nodes = [i \in NodeIdx |-> NullNode] /\ next_data_pos = 0
  /\ data = [a \in Memory |-> Junk]
  /\ drawn = 0 /\ handles = [h \in Handle |-> NoHandle] /\ res = "OK"
  /\ disk \in Disks
  /\ header = [type |-> 1, max_regions |-> 32, max_backups |-> 4]
  /\ pc = "idle" /\ blocks = <<>> /\ sizes = <<>> /\ pending = 0 /\ attached = {}
  /\ looked = 0 /\ stray = FALSE /\ depth = 0 /\ outcome = "OK"

(* The disk entry is opened.                                               *)
OpenEntry ==
  /\ pc = "idle"
  /\ looked < MaxLookups                                             \* bound
  /\ drawn + 3 <= MaxDraws /\ next_data_pos + Room <= DataCap        \* bound
  /\ looked' = looked + 1
  /\ blocks' = <<>> /\ sizes' = <<>>
  /\ Goto("header")
  /\ UNCHANGED <<vars, disk, header, pending, attached, depth>>

(* Lookup of a node in the disk's database, region 0.                      *)
Lookup == OpenEntry /\ stray' = FALSE

(* free of what is free already: no node has the id, and node_lookup tries *)
(* the backup entries, of which the disk's is the only one.                *)
FreeAgain ==
  /\ header.type = 1
  /\ \E h \in Handle : /\ handles[h].state = "freed"
                       /\ Matches(nodes, handles[h].id, handles[h].region) = {}
  /\ OpenEntry /\ stray' = TRUE

AllocHeader == pc = "header" /\ Allocate(1, <<>>, "check")

(* The header is read, and compared with what the entry says. A disk that  *)
(* still has sectors of an earlier command ready gives one of these, which *)
(* is no header.                                                           *)
CheckHeader ==
  /\ pc = "check"
  /\ \/ /\ DiskFails /\ Return("HARDWARE")
        /\ UNCHANGED <<data, pending>>
     \/ /\ data' = ReadInto(blocks[1], 0, 1) /\ pending' = 0
        /\ IF Accepted THEN Goto("regions") ELSE Return("INVALID")
     \/ /\ pending # 0
        /\ data' = ReadInto(blocks[1], pending, 1) /\ pending' = pending + 1
        /\ Return("INVALID")
  /\ UNCHANGED <<nodes, next_data_pos, drawn, handles, res,
                 disk, header, blocks, sizes, attached, looked, stray, depth>>

AllocRegions ==
  /\ pc = "regions"
  /\ \E s \in Sector :
       /\ HeaderIs(s)
       /\ AllocateList(SectorsFor(RegionBytes * disk.sectors[s].header.max_regions), "readRegions")

(* List k is read; how far the read got is not looked at. After a read of  *)
(* no sectors, which the disk takes for one of 256, it is left with them.  *)
ReadList(k, first, next) ==
  /\ \E got \in 0 .. sizes[k - 1] :
       /\ DiskFails \/ got = sizes[k - 1]
       /\ data' = ReadInto(blocks[k], first, got)
       /\ IF sizes[k - 1] = 0 \/ pending # 0 THEN pending' \in {0, first + got}
                                            ELSE UNCHANGED pending
  /\ Goto(next)
  /\ UNCHANGED <<nodes, next_data_pos, drawn, handles, res,
                 disk, header, blocks, sizes, attached, looked, stray, depth>>

ReadRegions == pc = "readRegions" /\ ReadList(2, 1, "backups")

AllocBackups ==
  /\ pc = "backups"
  /\ \E s \in Sector :
       /\ HeaderIs(s)
       /\ AllocateList(SectorsFor(BackupBytes * disk.sectors[s].header.max_backups), "readBackups")

ReadBackups == pc = "readBackups" /\ ReadList(3, 1 + sizes[1], "adopt")

(* What lies in the header's block is copied over the header in memory, or *)
(* to wherever the handle of a free that missed points.                    *)
Adopt ==
  /\ pc = "adopt"
  /\ \/ stray /\ Lose
     \/ /\ ~ stray
        /\ \E s \in Sector : /\ HeaderIs(s)
                             /\ header' = disk.sectors[s].header
                             /\ next_data_pos' = disk.sectors[s].next_data_pos
        /\ Goto("search")
        /\ UNCHANGED <<nodes, data, drawn, handles, res, disk, progress>>

(* Back in node_lookup, which looks at the type again. With type 2 it goes *)
(* through the nodes of the region, unless the region list was not read    *)
(* and the region seems to be empty.                                       *)
Search ==
  /\ pc = "search"
  /\ \/ header.type = 2 /\ Goto("descend")
     \/ header.type = 2 /\ data[handles[blocks[2]].ptr] # OnDisk(1) /\ Return("NOT_FOUND")
     \/ header.type \in {3, 4} /\ Return("NOT_IMPLEMENTED")
     \/ header.type \notin 1 .. 4 /\ Return("INVALID")
  /\ UNCHANGED <<vars, disk, header, progress>>

(* node_lookup_by_index, alloc, node_add, node_lookup_by_index, ... until  *)
(* the stack ends.                                                         *)
Descend ==
  /\ pc = "descend"
  /\ IF depth < StackFrames THEN depth' = depth + 1 /\ UNCHANGED pc
                            ELSE pc' = "overflow" /\ UNCHANGED depth
  /\ UNCHANGED <<vars, disk, header, blocks, sizes, pending, attached, looked, stray, outcome>>

(* Other users of the allocator, between lookups.                          *)
Others == {h \in Live : h \notin attached}

OtherAlloc(size) ==
  /\ pc = "idle" /\ header.type = 1
  /\ Cardinality(0 .. drawn - 1 \ attached) < OtherAllocs              \* bound
  /\ Alloc(size)
  /\ UNCHANGED <<disk, header, pc, progress, outcome>>

OtherFill(h) ==
  /\ pc = "idle" /\ h \in Others /\ Fill(h)
  /\ UNCHANGED <<disk, header, pc, progress, outcome>>

OtherFree(h) ==
  /\ pc = "idle" /\ header.type = 1 /\ h \in Others
  /\ \E i \in NodeIdx :
       /\ First(i, Matches(nodes, handles[h].id, handles[h].region))
       /\ nodes' = [nodes EXCEPT ![i] = Deleted(@)]
  /\ handles' = [handles EXCEPT ![h].state = "freed"]
  /\ UNCHANGED <<next_data_pos, data, drawn, res, disk, header, pc, progress, outcome>>

(* alloc and free by others once the header has another type.              *)
OtherFails == pc = "idle" /\ AllocFails

Call ==
  \/ AllocHeader \/ CheckHeader \/ AllocRegions \/ ReadRegions \/ AllocBackups
  \/ ReadBackups \/ Adopt \/ Search \/ Descend

DiskNext ==
  \/ Lookup \/ FreeAgain \/ Call \/ OtherFails
  \/ \E size \in Sizes : OtherAlloc(size)
  \/ \E h \in Handle : OtherFill(h) \/ OtherFree(h)

(* The kernel runs nothing else: a lookup goes on.                         *)
DiskSpec == DiskInit /\ [][DiskNext]_dvars /\ WF_dvars(Call)

-----------------------------------------------------------------------------
(* Properties.                                                             *)

NothingFreed == \A h \in Handle : handles[h].state # "freed"

(* A list longer than a sector is read past the end of its block. As long  *)
(* as nobody has freed anything every block is at the end of the data area *)
(* when it is read, and what others hold is not touched, nor is the header *)
(* that the lookup still needs.                                            *)
OverrunHarmless ==
  NothingFreed =>
    /\ ContentsStable
    /\ pc \in {"regions", "readRegions", "backups", "readBackups", "adopt", "search"} =>
         HeaderIs(0)

(* When blocks were freed and used again a list may lie in front of a      *)
(* block that somebody holds. What its read can do to that block is to put *)
(* sectors of the list there; the first sector of a list, and the header,  *)
(* are never among them.                                                   *)
DamageIsListTail ==
  \A h \in Others : handles[h].filled =>
    \A a \in Block(h) :
      \/ data[a] = h
      \/ /\ data[a] > OnDisk(1)
         /\ data[a] # OnDisk(1 + SectorsFor(RegionBytes * disk.sectors[0].header.max_regions))

(* A lookup that fails to attach the disk, at whatever step, leaves the    *)
(* database in memory with its own header, so that alloc and free go on    *)
(* working: the header changes only to that of an accepted disk, and only  *)
(* when three blocks for it are in use. What is adopted is the disk's      *)
(* header as it was accepted; only after somebody has freed a block may it *)
(* be a later sector of a list, one that was read over it.                 *)
HeaderOnlyFromItsDisk ==
  [][header' # header =>
       /\ disk.valid /\ ~ stray
       /\ Len(blocks) = 3 /\ \A k \in 1 .. 3 : blocks[k] \in Live
       /\ \E s \in Sector : /\ header' = disk.sectors[s].header
                            /\ s = 0 \/ (~ NothingFreed /\ s >= 2)]_dvars

(* When a lookup goes on to search, each list has a block for all the      *)
(* entries that the adopted header says it has. Not so when a list was     *)
(* read over the header between the use of its sizes and its copy, and not *)
(* for a list whose bytes do not fit an int.                               *)
Fits(k, bytes) == bytes < IntRange \div 2 => handles[blocks[k]].size * 512 >= bytes
ListsFit ==
  pc = "search" /\ HeaderIs(0) =>
    Fits(2, RegionBytes * header.max_regions) /\ Fits(3, BackupBytes * header.max_backups)

(* alloc and node_lookup_by_index call each other until the stack ends     *)
(* only when the disk's header says type 2, or, if somebody has freed a    *)
(* block, when a sector of a list does in the place of the type: no error  *)
(* on the way leads there, in the lookup or in an alloc after it.          *)
OverflowNeedsType2 ==
  pc \in {"descend", "overflow"} =>
    \E s \in Sector : /\ disk.sectors[s].header.type = 2
                      /\ s = 0 \/ ~ NothingFreed

(* A header that the lookup can deal with: not of type 2, and its lists    *)
(* are no larger than what alloc has stack for, as an int counts them.     *)
Sound(sector) ==
  LET h == disk.sectors[sector].header
  IN  /\ h.type # 2
      /\ SectorsFor(RegionBytes * h.max_regions) \in 0 .. StackSectors
      /\ SectorsFor(BackupBytes * h.max_backups) \in 0 .. StackSectors

(* A lookup returns, in spite of any error of the disk or the allocator,   *)
(* if the disk's header is sound; once somebody has freed a block all      *)
(* sectors of the lists must be so too, in the place of the header. A      *)
(* free's own lookup is not meant: it copies through a pointer that nobody *)
(* has set.                                                                *)
ReturnsUnlessType2 ==
  ( /\ pc # "idle" /\ ~ stray /\ Sound(0)
    /\ NothingFreed \/ \A s \in Sector : Sound(s) ) ~> (pc = "idle")

(* design.txt:10-12: a reference may have "the index in the backup list"   *)
(* of the database to search for the node on. So such a lookup returns.    *)
LookupReturns == (pc # "idle") ~> (pc = "idle")

=============================================================================
