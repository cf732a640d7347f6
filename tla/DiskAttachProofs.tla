-------------------------- MODULE DiskAttachProofs --------------------------
(***************************************************************************)
(* What holds of DiskAttach for every set of disks, every node list and    *)
(* region list, every number of lookups and whatever others allocate, fill *)
(* and free between them.                                                  *)
(***************************************************************************)
EXTENDS DiskAttach, NodeStoreProofs

(* The remainder of what is smaller than the divisor.                      *)
LEMMA SmallRemainder ==
  ASSUME NEW n \in Nat \ {0}, NEW k \in Nat, k < n
  PROVE  k % n = k
  BY SMT

(* Half of a number that 1024 divides.                                     *)
LEMMA EvenHalf ==
  ASSUME NEW n \in Nat, n % 1024 = 0
  PROVE  n = 2 * (n \div 2)
  BY SMT

(* More sectors hold more bytes.                                           *)
LEMMA MoreSectors ==
  ASSUME NEW m \in Nat, NEW n \in Nat, NEW r \in Nat, m <= n, m * 512 >= r
  PROVE  n * 512 >= r
  BY SMT

(* A sector after the first is neither the header nor the first.           *)
LEMMA OtherSector ==
  ASSUME NEW first \in Nat, NEW i \in Nat, NEW m \in Nat, first >= 1, i >= 1
  PROVE  m + (first + i) # m + 1 /\ m + (first + i) # m + 0
  BY SMT

USE StoreAssumption, DiskAssumption DEF Region, Handle, NodeIdx

-----------------------------------------------------------------------------
(* Sizes of the lists, and the list of a lookup's allocations.             *)
RegionSectors == SectorsFor(RegionBytes * disk.sectors[0].header.max_regions)
BackupSectors == SectorsFor(BackupBytes * disk.sectors[0].header.max_backups)

(* An int holds every number of bytes below half its range.                *)
LEMMA AsIntExact ==
  ASSUME NEW bytes \in Nat, bytes < IntRange \div 2
  PROVE  AsInt(bytes) = bytes
  <1>1. IntRange \in Nat /\ IntRange % 1024 = 0 /\ IntRange > 0
    BY IntAssumption
  <1>2. PICK h \in Nat : h = IntRange \div 2 /\ IntRange = 2 * h
    BY <1>1, EvenHalf
  <1>3. bytes + h \in Nat /\ bytes + h < IntRange
    BY <1>2
  <1>4. (bytes + h) % IntRange = bytes + h
    <2> PICK m : m = bytes + h
      OBVIOUS
    <2>1. IntRange \in Nat \ {0} /\ m \in Nat /\ m < IntRange
      BY <1>1, <1>3
    <2>2. m % IntRange = m
      BY <2>1, SmallRemainder
    <2> QED
      BY <2>2
  <1> QED
    BY <1>2, <1>4 DEF AsInt

(* The rounding loop gives whole sectors that hold all the bytes, if these *)
(* fit in an int.                                                          *)
LEMMA SectorsSuffice ==
  ASSUME NEW bytes \in Nat, bytes < IntRange \div 2
  PROVE  SectorsFor(bytes) * 512 >= bytes
  <1>1. AsInt(bytes) = bytes
    BY AsIntExact
  <1>2. SectorsFor(bytes) = (bytes + 511) \div 512
    BY <1>1 DEF SectorsFor
  <1> QED
    BY <1>2

(* Append, on a list of allocations that grows with the set of them.       *)
LEMMA Appended ==
  ASSUME NEW S, NEW s \in Seq(S), NEW x
  PROVE  /\ Append(s, x) \in Seq(S \cup {x})
         /\ Len(s) \in Nat /\ Len(Append(s, x)) = Len(s) + 1
         /\ Append(s, x)[Len(s) + 1] = x
         /\ \A i \in 1 .. Len(s) : Append(s, x)[i] = s[i] /\ s[i] \in S
  OBVIOUS

(* The memory is well typed wherever a read is put.                        *)
DataTyped == data \in [Memory -> Nat \cup {Zero, Junk}]

(* What the driver stores keeps the memory well typed, wherever its buffer *)
(* lies.                                                                   *)
LEMMA ReadTyped ==
  ASSUME DataTyped, NEW b, NEW first \in Nat, NEW got \in Nat
  PROVE  ReadInto(b, first, got) \in [Memory -> Nat \cup {Zero, Junk}]
  <1> SUFFICES ASSUME NEW a \in Memory PROVE ReadInto(b, first, got)[a] \in Nat \cup {Zero, Junk}
    BY DEF ReadInto
  <1>1. CASE \E i \in 0 .. got - 1 : a = handles[b].ptr + Stride(i)
    <2> DEFINE c == CHOOSE i \in 0 .. got - 1 : a = handles[b].ptr + Stride(i)
    <2>1. c \in 0 .. got - 1
      BY <1>1
    <2>2. ReadInto(b, first, got)[a] = OnDisk(first + c)
      BY <1>1 DEF ReadInto
    <2> HIDE DEF c
    <2> QED
      BY <2>1, <2>2 DEF OnDisk
  <1>2. CASE ~ \E i \in 0 .. got - 1 : a = handles[b].ptr + Stride(i)
    BY <1>2 DEF ReadInto, DataTyped
  <1> QED
    BY <1>1, <1>2

-----------------------------------------------------------------------------
(* Where a lookup is, and what it has by then: its allocations, each made  *)
(* after the one before; the sizes of its lists, whose blocks are as large *)
(* at least; the disk accepted; the header still that of the database in   *)
(* memory, until one is adopted.                                           *)
Ascending ==
  \A j, k \in 1 .. Len(blocks) : j < k => blocks[j] < blocks[k]

Roomy ==
  /\ Len(sizes) = 0 \/ Len(blocks) = Len(sizes) + 1
  /\ \A k \in 1 .. Len(sizes) : sizes[k] <= handles[blocks[k + 1]].size

Stages ==
  /\ pc = "header" => Len(blocks) = 0 /\ Len(sizes) = 0
  /\ pc \in {"check", "regions"} => Len(blocks) = 1 /\ Len(sizes) = 0
  /\ pc \in {"readRegions", "backups"} => Len(blocks) = 2 /\ Len(sizes) = 1
  /\ pc \in {"readBackups", "adopt", "search"} => Len(blocks) = 3 /\ Len(sizes) = 2
  /\ pc \in {"check", "regions", "readRegions", "backups", "readBackups", "adopt"} =>
       header.type = 1
  /\ pc \in {"regions", "readRegions", "backups", "readBackups", "adopt", "search"} =>
       disk.valid

(* No allocation of a lookup is ever freed, so that they are all live.     *)
AttachInv == DiskTypeOK /\ attached \subseteq Live /\ Ascending /\ Roomy /\ Stages

(* The allocations of the lookup were made, whichever they are.            *)
LEMMA BlocksMade ==
  ASSUME DiskTypeOK
  PROVE  /\ Len(blocks) \in 0 .. 3
         /\ \A k \in 1 .. Len(blocks) : blocks[k] \in attached
         /\ \A h \in attached : h \in Handle /\ h < drawn
  <1>1. blocks \in Seq(attached)
    BY DEF DiskTypeOK
  <1>2. Len(blocks) \in Nat /\ \A k \in 1 .. Len(blocks) : blocks[k] \in attached
    BY <1>1, Appended
  <1>3. Len(blocks) <= 3
    BY DEF DiskTypeOK
  <1>4. Len(blocks) \in 0 .. 3
    <2> DEFINE n == Len(blocks)
    <2>1. n \in Nat /\ n <= 3
      BY <1>2, <1>3
    <2> HIDE DEF n
    <2>2. n \in 0 .. 3
      BY <2>1
    <2> QED
      BY <2>2 DEF n
  <1>5. \A h \in attached : h \in Handle /\ h < drawn
    <2>1. attached \subseteq 0 .. drawn - 1 /\ drawn \in 0 .. MaxDraws
      BY DEF DiskTypeOK
    <2> QED
      BY <2>1
  <1> QED
    BY <1>2, <1>4, <1>5

(* The sizes are numbers.                                                  *)
LEMMA SizesKnown ==
  ASSUME DiskTypeOK
  PROVE  /\ sizes \in Seq(0 .. StackSectors) /\ Len(sizes) \in Nat
         /\ \A k \in 1 .. Len(sizes) : sizes[k] \in Nat
         /\ Len(sizes) = 1 => sizes[1] \in Nat
         /\ Len(sizes) = 2 => sizes[1] \in Nat /\ sizes[2] \in Nat
  <1>1. sizes \in Seq(0 .. StackSectors)
    BY DEF DiskTypeOK
  <1>2. Len(sizes) \in Nat /\ \A k \in 1 .. Len(sizes) : sizes[k] \in 0 .. StackSectors
    BY <1>1, Appended
  <1>3. \A k \in 1 .. Len(sizes) : sizes[k] \in Nat
    BY <1>2
  <1>4. Len(sizes) = 1 => sizes[1] \in Nat
    BY <1>3
  <1>5. Len(sizes) = 2 => sizes[1] \in Nat /\ sizes[2] \in Nat
    BY <1>3
  <1> QED
    BY <1>1, <1>2, <1>3, <1>4, <1>5

(* The blocks of the lists stay as large as long as they keep their sizes. *)
LEMMA RoomyKept ==
  ASSUME DiskTypeOK, Roomy, blocks' = blocks, sizes' = sizes,
         \A h \in attached : handles'[h].size = handles[h].size
  PROVE  Roomy'
  <1> PICK m \in Nat : m = Len(sizes)
    BY SizesKnown
  <1> PICK n \in Nat : n = Len(blocks)
    BY BlocksMade
  <1>1. ASSUME NEW k \in 1 .. m PROVE sizes[k] <= handles'[blocks[k + 1]].size
    <2>1. n = m + 1 /\ k + 1 \in 1 .. n /\ sizes[k] <= handles[blocks[k + 1]].size
      BY DEF Roomy
    <2>2. blocks[k + 1] \in attached
      BY <2>1, BlocksMade
    <2> QED
      BY <2>1, <2>2
  <1> QED
    BY <1>1 DEF Roomy

(* What a successful call of alloc does to the allocations.                *)
LEMMA AllocEffect ==
  ASSUME DiskTypeOK, NEW size \in Nat \ {0}, Alloc(size)
  PROVE  /\ StoreTyped' /\ DataTyped' /\ res' \in Results
         /\ drawn \in Handle /\ drawn' = drawn + 1
         /\ handles'[drawn].state = "live" /\ handles'[drawn].size = size
         /\ handles'[drawn].filled = FALSE
         /\ \A h \in Handle : h # drawn => handles'[h] = handles[h]
  <1> PICK r \in Walked, i \in NodeIdx, k \in NodeIdx : AllocAt(size, r, i, k)
    BY DEF Alloc
  <1>1. StoreTyped
    BY DEF DiskTypeOK, StoreTyped
  <1>2. StoreTyped'
    BY <1>1, StoreAlloc
  <1>3. drawn \in Handle /\ drawn' = drawn + 1
    BY <1>1 DEF AllocAt, StoreTyped
  <1>4. DataTyped'
    BY DEF AllocAt, DiskTypeOK, DataTyped, memcpy
  <1>5. /\ handles'[drawn].state = "live" /\ handles'[drawn].size = size
        /\ handles'[drawn].filled = FALSE
        /\ \A h \in Handle : h # drawn => handles'[h] = handles[h]
    <2> DEFINE new == [state |-> "live", id |-> IdStream[drawn], region |-> r,
                       ptr |-> nodes'[k].data_pos, size |-> size, filled |-> FALSE]
    <2>1. handles' = [handles EXCEPT ![drawn] = new] /\ handles \in [Handle -> Allocation]
      BY <1>1 DEF AllocAt, StoreTyped
    <2>2. new.state = "live" /\ new.size = size /\ new.filled = FALSE
      OBVIOUS
    <2> HIDE DEF new
    <2> QED
      BY <1>3, <2>1, <2>2
  <1>6. res' \in Results
    BY DEF AllocAt, Results
  <1> QED
    BY <1>2, <1>3, <1>4, <1>5, <1>6

(* alloc by others, and what else leaves the lookup where it is.           *)
LEMMA AttachOthers ==
  ASSUME AttachInv, StoreTyped', DataTyped', drawn <= drawn', header' = header, disk' = disk,
         pc' = pc, UNCHANGED progress, outcome' = outcome,
         \A h \in attached : /\ handles'[h].state = handles[h].state
                             /\ handles'[h].size = handles[h].size
  PROVE  AttachInv'
  <1>1. attached' \subseteq 0 .. drawn' - 1
    <2>1. attached \subseteq 0 .. drawn - 1 /\ drawn \in Nat /\ drawn' \in Nat
      BY DEF AttachInv, DiskTypeOK, StoreTyped
    <2>2. attached' = attached
      BY DEF progress
    <2> QED
      BY <2>1, <2>2
  <1>2. DiskTypeOK'
    BY <1>1 DEF AttachInv, DiskTypeOK, StoreTyped, DataTyped, progress
  <1>3. attached' \subseteq Live'
    BY DEF AttachInv, Live, progress
  <1>4. blocks' = blocks /\ sizes' = sizes
    BY DEF progress
  <1>5. Ascending' /\ Stages'
    BY <1>4 DEF AttachInv, Ascending, Stages
  <1>6. Roomy'
    BY <1>4, RoomyKept DEF AttachInv
  <1> QED
    BY <1>2, <1>3, <1>5, <1>6 DEF AttachInv

(* A step of the lookup that allocates nothing.                            *)
LEMMA AttachMoves ==
  ASSUME AttachInv, DataTyped', header' \in Header, next_data_pos' \in Nat,
         nodes' = nodes, drawn' = drawn, handles' = handles, disk' = disk,
         blocks' = blocks, sizes' = sizes, pending' \in Nat, attached' = attached,
         looked' \in 0 .. MaxLookups, stray' \in BOOLEAN, depth' \in 0 .. StackFrames,
         outcome' \in Results \cup {"HARDWARE", "INVALID", "NOT_IMPLEMENTED"},
         pc' \in {"idle", "check", "regions", "backups", "adopt", "search", "descend",
                  "overflow", "lost"},
         Stages'
  PROVE  AttachInv'
  <1>1. DiskTypeOK'
    BY DEF AttachInv, DiskTypeOK, DataTyped
  <1>2. attached' \subseteq Live' /\ Ascending'
    BY DEF AttachInv, Live, Ascending
  <1>3. Roomy'
    BY RoomyKept DEF AttachInv
  <1> QED
    BY <1>1, <1>2, <1>3 DEF AttachInv

(* A step of the lookup that allocates, for the header or for a list whose *)
(* size is known by then: it does not matter which list the block is for.  *)
LEMMA AttachAllocates ==
  ASSUME AttachInv, NEW size \in Nat \ {0}, NEW known, NEW next, Allocate(size, known, next),
         known \in Seq(0 .. StackSectors), Len(known) = Len(blocks),
         \A k \in 1 .. Len(known) :
            \/ k = Len(known) /\ known[k] <= size
            \/ k <= Len(sizes) /\ known[k] = sizes[k],
         \/ pc = "header" /\ next = "check"
         \/ pc = "regions" /\ next = "readRegions"
         \/ pc = "backups" /\ next = "readBackups"
  PROVE  AttachInv'
  <1> PICK d : d = drawn
    OBVIOUS
  <1> DEFINE n == Len(blocks)
  <1>1. CASE header.type = 1 /\ Alloc(size) /\ blocks' = Append(blocks, drawn)
             /\ attached' = attached \cup {drawn} /\ sizes' = known /\ Goto(next)
             /\ UNCHANGED <<disk, header, pending, looked, stray, depth>>
    <2>1. /\ StoreTyped' /\ DataTyped' /\ res' \in Results
          /\ d \in Handle /\ drawn' = d + 1
          /\ handles'[d].state = "live" /\ handles'[d].size = size
          /\ \A h \in Handle : h # d => handles'[h] = handles[h]
      BY <1>1, AllocEffect DEF AttachInv
    <2>2. /\ n \in 0 .. 3
          /\ \A i \in 1 .. n : blocks[i] \in attached
          /\ \A h \in attached : h \in Handle /\ h < d
      BY BlocksMade DEF AttachInv
    <2>3. /\ blocks' \in Seq(attached')
          /\ Len(blocks') = n + 1 /\ blocks'[n + 1] = d
          /\ \A i \in 1 .. n : blocks'[i] = blocks[i]
      <3>1. blocks \in Seq(attached)
        BY DEF AttachInv, DiskTypeOK
      <3>2. /\ Append(blocks, drawn) \in Seq(attached \cup {drawn})
            /\ Len(Append(blocks, drawn)) = n + 1 /\ Append(blocks, drawn)[n + 1] = drawn
            /\ \A i \in 1 .. n : Append(blocks, drawn)[i] = blocks[i]
        BY <3>1, Appended
      <3> HIDE DEF n
      <3> QED
        BY <1>1, <3>2
    <2>4. /\ n <= 2
          /\ pc' = next /\ header' = header /\ header.type = 1 /\ disk' = disk
      <3>1. n = 0 \/ n = 1 \/ n = 2
        BY DEF AttachInv, Stages
      <3> HIDE DEF n
      <3> QED
        BY <1>1, <3>1 DEF Goto
    <2>5. \A h \in attached : handles'[h] = handles[h]
      BY <2>1, <2>2
    <2>6. \A i \in 1 .. n : blocks'[i] = blocks[i] /\ handles'[blocks'[i]] = handles[blocks[i]]
      BY <2>2, <2>3, <2>5
    <2> HIDE DEF n
    <2>7. DiskTypeOK'
      <3>1. attached' \subseteq 0 .. drawn' - 1
        BY <1>1, <2>1, <2>2
      <3>2. Len(blocks') <= 3
        BY <2>2, <2>3, <2>4
      <3>3. sizes' \in Seq(0 .. StackSectors) /\ Len(sizes') <= 2
        BY <1>1, <2>2, <2>4 DEF n
      <3> QED
        BY <1>1, <2>1, <2>3, <3>1, <3>2, <3>3
           DEF AttachInv, DiskTypeOK, StoreTyped, DataTyped, Goto
    <2>8. attached' \subseteq Live'
      BY <1>1, <2>1, <2>5 DEF AttachInv, Live
    <2>9. Ascending'
      <3> SUFFICES ASSUME NEW j \in 1 .. n + 1, NEW k \in 1 .. n + 1, j < k
                   PROVE  blocks'[j] < blocks'[k]
        BY <2>3 DEF Ascending
      <3>1. j \in 1 .. n /\ blocks'[j] = blocks[j] /\ blocks[j] < d
        BY <2>2, <2>3
      <3>2. CASE k = n + 1
        BY <2>3, <3>1, <3>2
      <3>3. CASE k \in 1 .. n
        BY <2>3, <3>1, <3>3 DEF AttachInv, Ascending, n
      <3> QED
        BY <2>2, <3>2, <3>3
    <2>10. Stages'
      <3>1. Len(sizes') = n
        BY <1>1 DEF n
      <3>2. CASE pc = "header" /\ next = "check"
        <4>1. n = 0
          BY <3>2 DEF AttachInv, Stages, n
        <4> QED
          BY <2>3, <2>4, <3>1, <3>2, <4>1 DEF Stages
      <3>3. CASE pc = "regions" /\ next = "readRegions"
        <4>1. n = 1 /\ disk.valid
          BY <3>3 DEF AttachInv, Stages, n
        <4> QED
          BY <2>3, <2>4, <3>1, <3>3, <4>1 DEF Stages
      <3>4. CASE pc = "backups" /\ next = "readBackups"
        <4>1. n = 2 /\ disk.valid
          BY <3>4 DEF AttachInv, Stages, n
        <4> QED
          BY <2>3, <2>4, <3>1, <3>4, <4>1 DEF Stages
      <3> QED
        BY <3>2, <3>3, <3>4
    <2>11. Roomy'
      <3>1. Len(sizes') = n /\ sizes' = known
        BY <1>1 DEF n
      <3>2. ASSUME NEW k \in 1 .. n PROVE known[k] <= handles'[blocks'[k + 1]].size
        <4>1. CASE k = n /\ known[k] <= size
          BY <2>1, <2>2, <2>3, <4>1
        <4>2. CASE k <= Len(sizes) /\ known[k] = sizes[k]
          <5> PICK m \in Nat : m = Len(sizes)
            BY SizesKnown DEF AttachInv
          <5>1. k \in 1 .. m /\ m # 0
            BY <2>2, <4>2
          <5>2. n = m + 1 /\ sizes[k] <= handles[blocks[k + 1]].size
            BY <5>1 DEF AttachInv, Roomy, n
          <5>3. k + 1 \in 1 .. n
            BY <5>1, <5>2
          <5> QED
            BY <2>6, <4>2, <5>2, <5>3
        <4> QED
          BY <4>1, <4>2 DEF n
      <3> QED
        BY <2>2, <2>3, <3>1, <3>2 DEF Roomy
    <2> QED
      BY <2>7, <2>8, <2>9, <2>10, <2>11 DEF AttachInv
  <1>2. CASE AllocFails
    <2>1. DataTyped'
      BY <1>2 DEF AllocFails, vars, AttachInv, DiskTypeOK, DataTyped
    <2>2. pc' \in {"idle", "descend"}
      BY <1>2 DEF AllocFails, Goto, Return
    <2>3. outcome' \in Results \cup {"HARDWARE", "INVALID", "NOT_IMPLEMENTED"}
      BY <1>2 DEF AllocFails, Goto, Return, Results, AttachInv, DiskTypeOK
    <2>4. Stages'
      BY <2>2 DEF Stages
    <2> QED
      BY <1>2, <2>1, <2>2, <2>3, <2>4, AttachMoves
         DEF AllocFails, vars, progress, AttachInv, DiskTypeOK
  <1> QED
    BY <1>1, <1>2 DEF Allocate

(* Where the size is more than the stack has room for the lookup is lost.  *)
LEMMA AttachLoses == AttachInv /\ Lose => AttachInv'
  <1> SUFFICES ASSUME AttachInv, Lose PROVE AttachInv'
    OBVIOUS
  <1>1. Stages'
    BY DEF Lose, Goto, Stages
  <1> QED
    BY <1>1, AttachMoves DEF Lose, Goto, vars, progress, AttachInv, DiskTypeOK, DataTyped

(* The blocks of the two lists.                                            *)
LEMMA AttachList ==
  ASSUME AttachInv, NEW count, NEW next, AllocateList(count, next),
         \/ pc = "regions" /\ next = "readRegions"
         \/ pc = "backups" /\ next = "readBackups"
  PROVE  AttachInv'
  <1>1. CASE Lose
    BY <1>1, AttachLoses
  <1>2. CASE count \in 0 .. StackSectors
    <2> DEFINE size  == IF count = 0 THEN 1 ELSE count
               known == Append(sizes, count)
    <2>1. size \in Nat \ {0} /\ count <= size
      BY <1>2
    <2>2. sizes \in Seq(0 .. StackSectors) /\ Len(sizes) + 1 = Len(blocks)
      <3>1. CASE pc = "regions"
        BY <3>1 DEF AttachInv, DiskTypeOK, Stages
      <3>2. CASE pc = "backups"
        <4>1. Len(sizes) = 1 /\ Len(blocks) = 2
          BY <3>2 DEF AttachInv, Stages
        <4> QED
          BY <4>1, SizesKnown DEF AttachInv
      <3> QED
        BY <3>1, <3>2
    <2>3. /\ known \in Seq(0 .. StackSectors) /\ Len(known) = Len(blocks)
          /\ known[Len(known)] = count
          /\ \A k \in 1 .. Len(sizes) : known[k] = sizes[k]
      BY <1>2, <2>2
    <2>4. \A k \in 1 .. Len(known) : \/ k = Len(known) /\ known[k] <= size
                                     \/ k <= Len(sizes) /\ known[k] = sizes[k]
      BY <2>1, <2>2, <2>3
    <2>5. CASE Allocate(size, known, next)
      <3> HIDE DEF size, known
      <3> QED
        BY <2>1, <2>3, <2>4, <2>5, AttachAllocates
    <2> QED
      BY <1>1, <1>2, <2>5 DEF AllocateList
  <1> QED
    BY <1>1, <1>2 DEF AllocateList

(* Before the first lookup no list is attached.                            *)
LEMMA AttachInit == DiskInit => AttachInv
  <1> SUFFICES ASSUME DiskInit PROVE AttachInv
    OBVIOUS
  <1>1. nodes \in [NodeIdx -> Node] /\ NoHandle \in Allocation
    BY DEF DiskInit, Node, NullNode, NoHandle, Allocation
  <1>2. header \in Header
    BY DEF DiskInit, Header
  <1>3. /\ blocks \in Seq(attached) /\ Len(blocks) = 0
        /\ sizes \in Seq(0 .. StackSectors) /\ Len(sizes) = 0 /\ pending \in Nat
    BY DEF DiskInit
  <1>4. nodes \in [NodeIdx -> Node] /\ data \in [Memory -> Nat \cup {Zero, Junk}]
        /\ handles \in [Handle -> Allocation]
    BY <1>1 DEF DiskInit
  <1>5. /\ next_data_pos \in Nat /\ drawn \in 0 .. MaxDraws
        /\ attached \subseteq 0 .. drawn - 1
        /\ looked \in 0 .. MaxLookups /\ depth \in 0 .. StackFrames
    BY DEF DiskInit
  <1>6. /\ disk \in Disks /\ pc = "idle" /\ stray \in BOOLEAN /\ outcome \in Results
    BY DEF DiskInit, Results
  <1>7. DiskTypeOK
    BY <1>2, <1>3, <1>4, <1>5, <1>6 DEF DiskTypeOK
  <1> QED
    BY <1>3, <1>7 DEF DiskInit, AttachInv, Ascending, Roomy, Stages

(* Every step of the lookup itself.                                        *)
LEMMA AttachCall == AttachInv /\ Call => AttachInv'
  <1> SUFFICES ASSUME AttachInv, Call PROVE AttachInv'
    OBVIOUS
  <1> DEFINE Codes == Results \cup {"HARDWARE", "INVALID", "NOT_IMPLEMENTED"}
  <1>1. /\ DataTyped /\ header \in Header /\ next_data_pos \in Nat /\ disk \in Disks
        /\ looked \in 0 .. MaxLookups /\ stray \in BOOLEAN /\ depth \in 0 .. StackFrames
        /\ outcome \in Codes /\ handles \in [Handle -> Allocation]
    BY DEF AttachInv, DiskTypeOK, DataTyped
  <1>2. \A s \in Sector : /\ disk.sectors[s].header \in Header
                         /\ disk.sectors[s].next_data_pos \in Nat
    BY <1>1 DEF Disk
  <1>3. sizes \in Seq(0 .. StackSectors) /\ pending \in Nat
    BY DEF AttachInv, DiskTypeOK
  <1>4. CASE AllocHeader
    <2>1. /\ <<>> \in Seq(0 .. StackSectors) /\ Len(<<>>) = Len(blocks)
          /\ pc = "header" /\ Allocate(1, <<>>, "check") /\ 1 \in Nat \ {0}
      BY <1>4 DEF AllocHeader, AttachInv, Stages
    <2>2. \A k \in 1 .. Len(<<>>) : k # k
      OBVIOUS
    <2> QED
      BY <2>1, <2>2, AttachAllocates
  <1>5. CASE AllocRegions
    BY <1>5, AttachList DEF AllocRegions
  <1>6. CASE AllocBackups
    BY <1>6, AttachList DEF AllocBackups
  <1>7. CASE CheckHeader
    <2>1. DataTyped'
      <3>1. /\ ReadInto(blocks[1], 0, 1) \in [Memory -> Nat \cup {Zero, Junk}]
            /\ ReadInto(blocks[1], pending, 1) \in [Memory -> Nat \cup {Zero, Junk}]
        BY <1>1, <1>3, ReadTyped
      <3> QED
        BY <1>1, <1>7, <3>1 DEF CheckHeader, DataTyped
    <2>2. /\ pc' \in {"idle", "regions"} /\ outcome' \in Codes /\ pending' \in Nat
          /\ pc' = "regions" => disk.valid
      BY <1>1, <1>3, <1>7 DEF CheckHeader, Goto, Return, Accepted
    <2>3. Stages'
      BY <1>7, <2>2 DEF CheckHeader, AttachInv, Stages
    <2> QED
      BY <1>1, <1>7, <2>1, <2>2, <2>3, AttachMoves DEF CheckHeader
  <1>8. ASSUME NEW k \in {2, 3}, NEW first \in Nat, NEW next, ReadList(k, first, next),
               sizes[k - 1] \in Nat
        PROVE  DataTyped' /\ pending' \in Nat /\ pc' = next /\ outcome' = outcome
    <2>1. PICK got \in 0 .. sizes[k - 1] :
            /\ data' = ReadInto(blocks[k], first, got)
            /\ pending' \in {0, first + got} \/ pending' = pending
      BY <1>8 DEF ReadList
    <2>2. got \in Nat
      BY <1>8, <2>1
    <2>3. pending' \in Nat
      BY <1>3, <1>8, <2>1, <2>2
    <2> QED
      BY <1>1, <1>8, <2>1, <2>2, <2>3, ReadTyped DEF ReadList, DataTyped, Goto
  <1>9. CASE ReadRegions
    <2>1. Len(sizes) = 1
      BY <1>9 DEF ReadRegions, AttachInv, Stages
    <2>4. sizes[2 - 1] \in Nat
      BY <2>1, SizesKnown DEF AttachInv
    <2>2. DataTyped' /\ pending' \in Nat /\ pc' = "backups" /\ outcome' = outcome
      BY <1>8, <1>9, <2>4 DEF ReadRegions
    <2>3. Stages'
      BY <1>9, <2>2 DEF ReadRegions, ReadList, AttachInv, Stages
    <2> QED
      BY <1>1, <1>9, <2>2, <2>3, AttachMoves DEF ReadRegions, ReadList
  <1>10. CASE ReadBackups
    <2>4. Len(sizes) = 2
      BY <1>10 DEF ReadBackups, AttachInv, Stages
    <2>1. 1 + sizes[1] \in Nat /\ sizes[3 - 1] \in Nat
      BY <2>4, SizesKnown DEF AttachInv
    <2>2. DataTyped' /\ pending' \in Nat /\ pc' = "adopt" /\ outcome' = outcome
      BY <1>8, <1>10, <2>1 DEF ReadBackups
    <2>3. Stages'
      BY <1>10, <2>2 DEF ReadBackups, ReadList, AttachInv, Stages
    <2> QED
      BY <1>1, <1>10, <2>2, <2>3, AttachMoves DEF ReadBackups, ReadList
  <1>11. CASE Adopt
    <2>1. CASE Lose
      BY <2>1, AttachLoses
    <2>2. CASE ~ stray
      <3>1. header' \in Header /\ next_data_pos' \in Nat /\ pc' = "search"
        BY <1>2, <1>11, <2>2 DEF Adopt, Goto
      <3>2. Stages'
        BY <1>11, <2>2, <3>1 DEF Adopt, AttachInv, Stages, progress
      <3> QED
        BY <1>1, <1>3, <1>11, <2>2, <3>1, <3>2, AttachMoves DEF Adopt, Goto, DataTyped, progress
    <2> QED
      BY <1>11, <2>1, <2>2 DEF Adopt
  <1>13. CASE Search
    <2>1. pc' \in {"idle", "descend"} /\ outcome' \in Codes
      BY <1>1, <1>13 DEF Search, Goto, Return, Results
    <2>2. Stages'
      BY <2>1 DEF Stages
    <2> QED
      BY <1>1, <1>3, <1>13, <2>1, <2>2, AttachMoves DEF Search, DataTyped, vars, progress
  <1>14. CASE Descend
    <2>1. pc' \in {"descend", "overflow"} /\ depth' \in 0 .. StackFrames
      BY <1>1, <1>14 DEF Descend
    <2>2. Stages'
      BY <2>1 DEF Stages
    <2> QED
      BY <1>1, <1>3, <1>14, <2>1, <2>2, AttachMoves DEF Descend, DataTyped, vars
  <1> QED
    BY <1>4, <1>5, <1>6, <1>7, <1>9, <1>10, <1>11, <1>13, <1>14 DEF Call

(* Whatever happens, the lookup in progress stays in order.                *)
LEMMA AttachNext == AttachInv /\ [DiskNext]_dvars => AttachInv'
  <1> SUFFICES ASSUME AttachInv, [DiskNext]_dvars PROVE AttachInv'
    OBVIOUS
  <1>1. /\ StoreTyped /\ DataTyped /\ header \in Header /\ disk \in Disks
        /\ looked \in 0 .. MaxLookups /\ stray \in BOOLEAN /\ depth \in 0 .. StackFrames
        /\ outcome \in Results \cup {"HARDWARE", "INVALID", "NOT_IMPLEMENTED"}
    BY DEF AttachInv, DiskTypeOK, StoreTyped, DataTyped
  <1>2. ASSUME OpenEntry, stray' \in BOOLEAN PROVE AttachInv'
    <2>1. /\ blocks' = <<>> /\ sizes' = <<>> /\ pending' = pending
          /\ pc' = "header" /\ looked' \in 0 .. MaxLookups /\ attached' = attached
          /\ handles' = handles /\ nodes' = nodes /\ data' = data
          /\ drawn' = drawn /\ next_data_pos' = next_data_pos /\ disk' = disk
          /\ header' = header /\ depth' = depth /\ outcome' = outcome
      BY <1>1, <1>2 DEF OpenEntry, Goto, vars
    <2>2. /\ blocks' \in Seq(attached') /\ Len(blocks') = 0
          /\ sizes' \in Seq(0 .. StackSectors) /\ Len(sizes') = 0
      BY <2>1
    <2>3. DiskTypeOK'
      BY SMTT(40), <1>2, <2>1, <2>2 DEF AttachInv, DiskTypeOK
    <2>4. attached' \subseteq Live'
      BY <2>1 DEF AttachInv, Live
    <2>5. Ascending' /\ Roomy' /\ Stages'
      BY <2>1, <2>2 DEF Ascending, Roomy, Stages
    <2> QED
      BY <2>3, <2>4, <2>5 DEF AttachInv
  <1>3. CASE Lookup \/ FreeAgain
    BY <1>2, <1>3 DEF Lookup, FreeAgain
  <1>4. CASE Call
    BY <1>4, AttachCall
  <1>5. CASE OtherFails
    <2>1. pc' \in {"idle", "descend"}
      BY <1>5 DEF OtherFails, AllocFails, Goto, Return
    <2>2. outcome' \in Results \cup {"HARDWARE", "INVALID", "NOT_IMPLEMENTED"}
      BY <1>1, <1>5 DEF OtherFails, AllocFails, Goto, Return, Results
    <2>3. Stages'
      BY <2>1 DEF Stages
    <2> QED
      BY <1>1, <1>5, <2>1, <2>2, <2>3, AttachMoves
         DEF OtherFails, AllocFails, vars, progress, StoreTyped, DataTyped, AttachInv, DiskTypeOK
  <1>6. ASSUME NEW size \in Sizes, OtherAlloc(size) PROVE AttachInv'
    <2>1. Alloc(size) /\ size \in Nat \ {0}
      BY <1>6 DEF OtherAlloc
    <2>2. /\ StoreTyped' /\ DataTyped' /\ drawn' = drawn + 1
          /\ \A h \in Handle : h # drawn => handles'[h] = handles[h]
      BY <2>1, AllocEffect DEF AttachInv
    <2>3. \A h \in attached : h \in Handle /\ h < drawn
      BY BlocksMade DEF AttachInv
    <2>4. \A h \in attached : handles'[h] = handles[h]
      BY <1>1, <2>2, <2>3 DEF StoreTyped
    <2>5. drawn <= drawn'
      BY <1>1, <2>2 DEF StoreTyped
    <2> QED
      BY <1>6, <2>2, <2>4, <2>5, AttachOthers DEF OtherAlloc
  <1>7. ASSUME NEW h \in Handle, OtherFill(h) PROVE AttachInv'
    <2>1. DataTyped'
      BY <1>1, <1>7 DEF OtherFill, Fill, memcpy, DataTyped
    <2>2. StoreTyped' /\ drawn <= drawn'
      <3>1. handles' \in [Handle -> Allocation]
        BY ZenonT(60), <1>1, <1>7 DEF OtherFill, Fill, StoreTyped, Allocation
      <3>2. drawn \in Nat
        BY <1>1 DEF StoreTyped
      <3> QED
        BY <1>1, <1>7, <3>1, <3>2 DEF OtherFill, Fill, StoreTyped
    <2>3. \A g \in attached : /\ handles'[g].state = handles[g].state
                              /\ handles'[g].size = handles[g].size
      BY <1>1, <1>7, BlocksMade DEF AttachInv, OtherFill, Fill, StoreTyped, Allocation
    <2> QED
      BY <1>7, <2>1, <2>2, <2>3, AttachOthers DEF OtherFill
  <1>8. ASSUME NEW h \in Handle, OtherFree(h) PROVE AttachInv'
    <2>1. DataTyped'
      BY <1>1, <1>8 DEF OtherFree, DataTyped
    <2>2. nodes' \in [NodeIdx -> Node]
      <3> PICK i \in NodeIdx : nodes' = [nodes EXCEPT ![i] = Deleted(@)]
        BY <1>8 DEF OtherFree
      <3>1. \A n \in Node : Deleted(n) \in Node
        BY DEF Deleted, Node
      <3> QED
        BY <1>1, <3>1 DEF StoreTyped
    <2>3. StoreTyped' /\ drawn <= drawn'
      <3>1. handles' \in [Handle -> Allocation]
        <4>1. handles' = [handles EXCEPT ![h].state = "freed"]
          BY <1>8 DEF OtherFree
        <4> QED
          BY ZenonT(60), <1>1, <4>1 DEF StoreTyped, Allocation
      <3>2. drawn \in Nat
        BY <1>1 DEF StoreTyped
      <3> QED
        BY <1>1, <1>8, <2>2, <3>1, <3>2 DEF OtherFree, StoreTyped
    <2>4. \A g \in attached : handles'[g] = handles[g]
      BY <1>1, <1>8, BlocksMade DEF AttachInv, OtherFree, Others, StoreTyped
    <2> QED
      BY <1>8, <2>1, <2>3, <2>4, AttachOthers DEF OtherFree
  <1>9. CASE UNCHANGED dvars
    <2>1. StoreTyped' /\ DataTyped' /\ drawn <= drawn'
      BY <1>1, <1>9 DEF dvars, vars, StoreTyped, DataTyped
    <2> QED
      BY <1>9, <2>1, AttachOthers DEF dvars, vars
  <1> QED
    BY <1>3, <1>4, <1>5, <1>6, <1>7, <1>8, <1>9 DEF DiskNext

-----------------------------------------------------------------------------
(* Every variable keeps its type.                                          *)
THEOREM DiskTypeCorrect == DiskSpec => []DiskTypeOK
  <1>1. AttachInv => DiskTypeOK
    BY DEF AttachInv
  <1> QED
    BY AttachInit, AttachNext, <1>1, PTL DEF DiskSpec

-----------------------------------------------------------------------------
(* From here on the ids do not repeat. What NodeStoreProofs says of the    *)
(* nodes and their holders holds among lookups too; but once the disk's    *)
(* header is adopted next_data_pos is the disk's, and alloc and free no    *)
(* longer work on the node list.                                           *)
InsideArea == \A i \in NodeIdx : nodes[i].data_pos + nodes[i].size <= DataCap

Space ==
  /\ Ownership
  /\ ExtentsDisjoint
  /\ header.type = 1 => ExtentsBelowNext
  /\ InsideArea

(* Nothing is allocated at the start, so all of the space is free.         *)
LEMMA SpaceInit == DiskInit => Space
  <1> SUFFICES ASSUME DiskInit PROVE Space
    OBVIOUS
  <1>1. \A i \in NodeIdx : nodes[i].id = 0 /\ nodes[i].size = 0 /\ nodes[i].data_pos = 0
    BY DEF DiskInit, NullNode
  <1>2. \A h \in Handle : handles[h].state = "none" /\ 0 <= h
    BY DEF DiskInit, NoHandle
  <1>3. drawn = 0 /\ next_data_pos = 0
    BY DEF DiskInit
  <1>4. Ownership
    BY <1>1, <1>2, <1>3 DEF Ownership, HandlesDrawn, UniqueIds, LiveOwns, NodesOwned, Live
  <1> QED
    BY <1>1, <1>3, <1>4 DEF Space, ExtentsDisjoint, ExtentsBelowNext, InsideArea

(* Calls that move no node.                                                *)
LEMMA SpaceSame ==
  ASSUME Space, Ownership',
         \A i \in NodeIdx : /\ nodes'[i].size = nodes[i].size
                            /\ nodes'[i].data_pos = nodes[i].data_pos,
         header'.type = 1 => header.type = 1 /\ next_data_pos' = next_data_pos
  PROVE  Space'
  BY DEF Space, ExtentsDisjoint, ExtentsBelowNext, InsideArea

(* alloc, by the lookup or by others.                                      *)
LEMMA SpaceAlloc ==
  ASSUME Fresh, StoreTyped, Space, header.type = 1, header' = header,
         NEW size \in Nat \ {0}, Alloc(size)
  PROVE  Space'
  <1> PICK r \in Walked, i \in NodeIdx, k \in NodeIdx : AllocAt(size, r, i, k)
    BY DEF Alloc
  <1>1. Extents
    BY DEF Space, Extents
  <1>2. Ownership' /\ Extents'
    BY <1>1, OwnershipAlloc, ExtentsAlloc DEF Space
  <1>3. InsideArea'
    <2> SUFFICES ASSUME NEW j \in NodeIdx
                 PROVE  nodes'[j].data_pos + nodes'[j].size <= DataCap
      BY DEF InsideArea
    <2>1. CASE j # i
      <3>1. nodes'[j] = nodes[j]
        BY <2>1 DEF AllocAt, StoreTyped
      <3> QED
        BY <3>1 DEF Space, InsideArea
    <2>2. CASE j = i /\ Grows(nodes[i], size)
      BY <2>2 DEF AllocAt, StoreTyped, NewNode
    <2>3. CASE j = i /\ ~ Grows(nodes[i], size)
      <3> DEFINE p == nodes[i].data_pos
                 n == nodes[i].size
      <3>1. p \in Nat /\ n \in Nat /\ p + n <= DataCap
        BY DEF StoreTyped, Node, Space, InsideArea
      <3>2. nodes'[i].data_pos = p /\ nodes'[i].size = size /\ ~ (n < size)
        BY <2>3 DEF AllocAt, StoreTyped, NewNode, Grows
      <3> HIDE DEF p, n
      <3>3. p + size <= DataCap
        BY <3>1, <3>2
      <3> QED
        BY <2>3, <3>2, <3>3
    <2> QED
      BY <2>1, <2>2, <2>3
  <1> QED
    BY <1>2, <1>3 DEF Extents, Space

(* The block of a list is allocated like any other, or the lookup is lost. *)
LEMMA ListAllocates ==
  /\ AllocRegions => \/ Lose
                     \/ \E size \in Nat \ {0}, count \in 0 .. StackSectors :
                          Allocate(size, Append(sizes, count), "readRegions")
  /\ AllocBackups => \/ Lose
                     \/ \E size \in Nat \ {0}, count \in 0 .. StackSectors :
                          Allocate(size, Append(sizes, count), "readBackups")
  <1>1. ASSUME NEW count, NEW next, AllocateList(count, next)
        PROVE  \/ Lose
               \/ \E size \in Nat \ {0}, c \in 0 .. StackSectors :
                    Allocate(size, Append(sizes, c), next)
    <2>1. CASE /\ count \in 0 .. StackSectors
               /\ Allocate(IF count = 0 THEN 1 ELSE count, Append(sizes, count), next)
      <3> DEFINE size == IF count = 0 THEN 1 ELSE count
      <3>1. size \in Nat \ {0} /\ Allocate(size, Append(sizes, count), next)
        BY <2>1
      <3> HIDE DEF size
      <3> QED
        BY <2>1, <3>1
    <2> QED
      BY <1>1, <2>1 DEF AllocateList
  <1>2. ASSUME AllocRegions
        PROVE  \/ Lose
               \/ \E size \in Nat \ {0}, count \in 0 .. StackSectors :
                    Allocate(size, Append(sizes, count), "readRegions")
    <2> PICK s \in Sector :
          AllocateList(SectorsFor(RegionBytes * disk.sectors[s].header.max_regions), "readRegions")
      BY <1>2 DEF AllocRegions
    <2> QED
      BY <1>1
  <1>3. ASSUME AllocBackups
        PROVE  \/ Lose
               \/ \E size \in Nat \ {0}, count \in 0 .. StackSectors :
                    Allocate(size, Append(sizes, count), "readBackups")
    <2> PICK s \in Sector :
          AllocateList(SectorsFor(BackupBytes * disk.sectors[s].header.max_backups), "readBackups")
      BY <1>3 DEF AllocBackups
    <2> QED
      BY <1>1
  <1> QED
    BY <1>2, <1>3

(* Every step keeps Space: blocks come from alloc alone, and a header of   *)
(* another type ends the allocations.                                      *)
LEMMA SpaceNext ==
  ASSUME Fresh
  PROVE  AttachInv /\ Space /\ [DiskNext]_dvars => Space'
  <1> SUFFICES ASSUME AttachInv, Space, [DiskNext]_dvars PROVE Space'
    OBVIOUS
  <1>1. StoreTyped /\ disk \in Disks
    BY DEF AttachInv, DiskTypeOK, StoreTyped
  <1>2. ASSUME NEW size \in Nat \ {0}, NEW known, NEW next, Allocate(size, known, next)
        PROVE  Space'
    <2>1. CASE AllocFails
      <3>1. Ownership'
        BY <2>1, OwnershipSame DEF Space, AllocFails, vars
      <3> QED
        BY <2>1, <3>1, SpaceSame DEF AllocFails, vars
    <2>2. CASE header.type = 1 /\ Alloc(size) /\ header' = header
      BY <1>1, <2>2, SpaceAlloc
    <2> QED
      BY <1>2, <2>1, <2>2 DEF Allocate
  <1>3. CASE AllocHeader \/ AllocRegions \/ AllocBackups
    <2>1. CASE Lose
      <3>1. Ownership'
        BY <2>1, OwnershipSame DEF Space, Lose, vars
      <3> QED
        BY <2>1, <3>1, SpaceSame DEF Lose, vars
    <2>2. CASE AllocHeader
      <3>1. Allocate(1, <<>>, "check") /\ 1 \in Nat \ {0}
        BY <2>2 DEF AllocHeader
      <3> QED
        BY <1>2, <3>1
    <2>3. CASE AllocRegions
      BY <1>2, <2>1, <2>3, ListAllocates
    <2>4. CASE AllocBackups
      BY <1>2, <2>1, <2>4, ListAllocates
    <2> QED
      BY <1>3, <2>2, <2>3, <2>4
  <1>4. ASSUME NEW size \in Sizes, OtherAlloc(size) PROVE Space'
    BY <1>1, <1>4, SpaceAlloc DEF OtherAlloc
  <1>5. ASSUME NEW h \in Handle, OtherFill(h) PROVE Space'
    <2>1. \A g \in Handle : /\ handles'[g].state = handles[g].state
                            /\ handles'[g].id = handles[g].id
                            /\ handles'[g].region = handles[g].region
                            /\ handles'[g].ptr = handles[g].ptr
                            /\ handles'[g].size = handles[g].size
      BY SMTT(30), <1>1, <1>5 DEF OtherFill, Fill, StoreTyped, Allocation
    <2>2. Ownership'
      BY <1>5, <2>1, OwnershipSame DEF OtherFill, Fill, Space
    <2> QED
      BY <1>5, <2>2, SpaceSame DEF OtherFill, Fill
  <1>6. ASSUME NEW h \in Handle, OtherFree(h) PROVE Space'
    <2> PICK i \in NodeIdx : /\ First(i, Matches(nodes, handles[h].id, handles[h].region))
                             /\ nodes' = [nodes EXCEPT ![i] = Deleted(@)]
      BY <1>6 DEF OtherFree
    <2>1. Releases(h, i)
      BY <1>6 DEF OtherFree, Others, Live, Releases
    <2>2. Ownership'
      BY <1>1, <2>1, OwnershipFree DEF Space
    <2>3. \A j \in NodeIdx : /\ nodes'[j].size = nodes[j].size
                             /\ nodes'[j].data_pos = nodes[j].data_pos
      BY SMTT(30), <1>1 DEF StoreTyped, Deleted, Node
    <2> QED
      BY <1>6, <2>2, <2>3, SpaceSame DEF OtherFree
  <1>7. CASE /\ UNCHANGED <<nodes, drawn, handles>>
             /\ header'.type = 1 => header.type = 1 /\ next_data_pos' = next_data_pos
    <2>1. Ownership'
      BY <1>7, OwnershipSame DEF Space
    <2> QED
      BY <1>7, <2>1, SpaceSame
  <1>8. CASE Adopt
    <2>1. \A s \in Sector : disk.sectors[s].header.type # 1
      BY <1>1, TypeAssumption
    <2> QED
      BY <1>7, <1>8, <2>1 DEF Adopt, Lose, vars
  <1>9. CASE UNCHANGED <<nodes, next_data_pos, drawn, handles, header>>
    BY <1>7, <1>9
  <1> QED
    BY <1>3, <1>4, <1>5, <1>6, <1>8, <1>9
       DEF DiskNext, Lookup, FreeAgain, OpenEntry, Call, OtherFails, AllocFails, CheckHeader,
           ReadRegions, ReadBackups, ReadList, Search, Descend, dvars, vars

-----------------------------------------------------------------------------
(* What a read can do to a block that others hold.                         *)

(* A live block lies in the part of the memory that is modelled.           *)
LEMMA LiveInMemory ==
  ASSUME StoreTyped, Space, NEW h \in Live, NEW a \in Block(h)
  PROVE  a \in Memory
  <1>1. PICK j \in NodeIdx : Owns(h, j)
    BY DEF Space, Ownership, LiveOwns
  <1>2. /\ a \in Nat /\ handles[h].ptr \in Nat /\ handles[h].size \in Nat
        /\ a < handles[h].ptr + handles[h].size
    BY LiveSized DEF Space
  <1>3. handles[h].ptr + handles[h].size <= DataCap
    BY <1>1 DEF Owns, Space, InsideArea
  <1> DEFINE p == handles[h].ptr
             n == handles[h].size
  <1>4. p \in Nat /\ n \in Nat /\ a \in Nat /\ a < p + n /\ p + n <= DataCap
    BY <1>2, <1>3
  <1> HIDE DEF p, n
  <1> QED
    BY <1>4 DEF Memory, Room

(* The first sector of a block is in it, and is nobody else's.             *)
LEMMA FirstIsOwn ==
  ASSUME Fresh, StoreTyped, Space, NEW b \in Live, NEW h \in Live, b # h
  PROVE  handles[b].ptr \notin Block(h)
  <1> DEFINE p == handles[b].ptr
             n == handles[b].size
             q == handles[h].ptr
             m == handles[h].size
  <1>1. /\ p \in Nat /\ n \in Nat \ {0} /\ q \in Nat /\ m \in Nat \ {0}
        /\ p + n <= q \/ q + m <= p
    BY LiveApart, LiveSized DEF Space
  <1>2. \A a \in Block(h) : a \in Nat /\ q <= a /\ a < q + m
    BY LiveSized DEF Space
  <1> HIDE DEF p, n, q, m
  <1>3. p \notin Block(h)
    BY <1>1, <1>2
  <1> QED
    BY <1>3 DEF p

(* A live block is not empty.                                              *)
LEMMA BlockBegins ==
  ASSUME StoreTyped, Space, NEW h \in Live
  PROVE  handles[h].ptr \in Block(h)
  <1> DEFINE p == handles[h].ptr
             n == handles[h].size
  <1>1. p \in Nat /\ n \in Nat \ {0} /\ Block(h) = p .. (p + n - 1)
    BY LiveSized DEF Space, Block
  <1> HIDE DEF p, n
  <1>2. p \in Block(h)
    BY <1>1
  <1> QED
    BY <1>2 DEF p

(* The list that is read into block b reaches another block with its       *)
(* second sector at the earliest.                                          *)
LEMMA ReadReaches ==
  ASSUME Fresh, StoreTyped, Space, NEW b \in Live, NEW h \in Live, b # h, NEW a \in Block(h),
         NEW first \in Nat, NEW got \in Nat
  PROVE  \/ ReadInto(b, first, got)[a] = data[a]
         \/ \E i \in 1 .. got - 1 : ReadInto(b, first, got)[a] = OnDisk(first + i)
  <1>1. a \in Memory /\ a # handles[b].ptr
    BY LiveInMemory, FirstIsOwn
  <1>2. CASE \E i \in 0 .. got - 1 : a = handles[b].ptr + Stride(i)
    <2> DEFINE c == CHOOSE i \in 0 .. got - 1 : a = handles[b].ptr + Stride(i)
    <2>1. c \in 0 .. got - 1 /\ a = handles[b].ptr + Stride(c)
      BY <1>2
    <2>2. ReadInto(b, first, got)[a] = OnDisk(first + c)
      BY <1>1, <1>2 DEF ReadInto
    <2> HIDE DEF c
    <2>3. c # 0
      <3> SUFFICES ASSUME c = 0 PROVE FALSE
        OBVIOUS
      <3>1. Stride(c) = 0 /\ handles[b].ptr \in Nat
        BY LiveSized DEF Stride, Space
      <3> QED
        BY <1>1, <2>1, <3>1
    <2>4. c \in 1 .. got - 1
      BY <2>1, <2>3
    <2> QED
      BY <2>2, <2>4
  <1>3. CASE ~ \E i \in 0 .. got - 1 : a = handles[b].ptr + Stride(i)
    BY <1>1, <1>3 DEF ReadInto
  <1> QED
    BY <1>2, <1>3

(* What DamageIsListTail allows in a block besides what its holder wrote.  *)
ListTail(v) == v > OnDisk(1) /\ v # OnDisk(1 + RegionSectors)

(* A step that changes nothing, or only to sectors of a list's tail, in    *)
(* the blocks that others filled.                                          *)
LEMMA TailKept ==
  ASSUME DamageIsListTail, disk' = disk,
         \A h \in Handle :
            h \in Others' /\ handles'[h].filled =>
              \/ \A a \in Block(h)' : data'[a] = h
              \/ /\ h \in Others /\ handles[h].filled /\ Block(h)' = Block(h)
                 /\ \A a \in Block(h) : data'[a] = data[a] \/ ListTail(data'[a])
  PROVE  DamageIsListTail'
  <1> SUFFICES ASSUME NEW h \in Others', handles'[h].filled, NEW a \in Block(h)'
               PROVE  data'[a] = h \/ ListTail(data'[a])
    BY DEF DamageIsListTail, ListTail, RegionSectors, OnDisk
  <1>1. h \in Handle
    BY DEF Others, Live
  <1>2. h \in Others /\ handles[h].filled /\ a \in Block(h) => data[a] = h \/ ListTail(data[a])
    BY DEF DamageIsListTail, ListTail, RegionSectors
  <1> QED
    BY <1>1, <1>2

(* alloc puts its Junk in a block that nobody holds.                       *)
LEMMA TailByAlloc ==
  ASSUME Fresh, StoreTyped, DataTyped, Space, header.type = 1, NEW size \in Nat \ {0},
         Alloc(size), NEW h \in Live, NEW a \in Block(h)
  PROVE  data'[a] = data[a]
  <1> PICK r \in Walked, i \in NodeIdx, k \in NodeIdx : AllocAt(size, r, i, k)
    BY DEF Alloc
  <1> DEFINE base == nodes'[i].data_pos
  <1>1. base \in Nat /\ Block(h) \cap (base .. (base + size - 1)) = {}
    BY NewBlockApart DEF Space, Extents
  <1>2. data' = memcpy(Junk, data, base, size)
    BY DEF AllocAt
  <1> HIDE DEF base
  <1>3. a \in Memory /\ a \in Nat /\ a \notin base .. (base + size - 1)
    BY <1>1, LiveInMemory, LiveSized DEF Space
  <1>4. ~ (base <= a /\ a < base + size)
    BY <1>1, <1>3
  <1> QED
    BY <1>2, <1>3, <1>4 DEF memcpy, DataTyped

(* alloc damages nothing: it clears no byte of a live block.               *)
LEMMA TailAlloc ==
  ASSUME Fresh, AttachInv, Space, DamageIsListTail, header.type = 1, disk' = disk,
         attached \subseteq attached', NEW size \in Nat \ {0}, Alloc(size)
  PROVE  DamageIsListTail'
  <1> PICK d : d = drawn
    OBVIOUS
  <1>1. StoreTyped /\ DataTyped
    BY DEF AttachInv, DiskTypeOK, StoreTyped, DataTyped
  <1>2. /\ d \in Handle /\ handles'[d].filled = FALSE
        /\ \A h \in Handle : h # d => handles'[h] = handles[h]
    BY AllocEffect DEF AttachInv
  <1>3. ASSUME NEW h \in Handle, h \in Others', handles'[h].filled
        PROVE  /\ h \in Others /\ handles[h].filled /\ Block(h)' = Block(h)
               /\ \A a \in Block(h) : data'[a] = data[a] \/ ListTail(data'[a])
    <2>1. h # d /\ handles'[h] = handles[h]
      BY <1>2, <1>3
    <2>2. h \in Live /\ h \notin attached /\ Block(h)' = Block(h)
      BY <1>3, <2>1 DEF Others, Live, Block
    <2> QED
      BY <1>1, <1>3, <2>1, <2>2, TailByAlloc DEF Others
  <1> QED
    BY <1>3, TailKept

(* The reads of the two lists, and of the header.                          *)
LEMMA TailRead ==
  ASSUME Fresh, AttachInv, Space, DamageIsListTail, NEW b \in attached,
         NEW first \in Nat, NEW got \in Nat, data' = ReadInto(b, first, got),
         UNCHANGED <<handles, attached, disk>>,
         \A i \in 1 .. got - 1 : ListTail(OnDisk(first + i))
  PROVE  DamageIsListTail'
  <1>1. StoreTyped /\ b \in Live
    BY DEF AttachInv, DiskTypeOK, StoreTyped
  <1>2. ASSUME NEW h \in Handle, h \in Others', handles'[h].filled
        PROVE  /\ h \in Others /\ handles[h].filled /\ Block(h)' = Block(h)
               /\ \A a \in Block(h) : data'[a] = data[a] \/ ListTail(data'[a])
    <2>1. h \in Live /\ h \in Others /\ handles[h].filled /\ Block(h)' = Block(h) /\ h # b
      BY <1>2 DEF Others, Live, Block
    <2>2. ASSUME NEW a \in Block(h) PROVE data'[a] = data[a] \/ ListTail(data'[a])
      <3>1. \/ ReadInto(b, first, got)[a] = data[a]
            \/ \E i \in 1 .. got - 1 : ReadInto(b, first, got)[a] = OnDisk(first + i)
        <4>1. a \in Block(h) /\ b # h
          BY <2>1
        <4> QED
          BY <1>1, <2>1, <4>1, ReadReaches
      <3> QED
        BY <3>1
    <2> QED
      BY <2>1, <2>2
  <1> QED
    BY <1>2, TailKept

(* A holder writes its own block and no other.                             *)
LEMMA FillEffect ==
  ASSUME Fresh, StoreTyped, DataTyped, Space, NEW g \in Handle, OtherFill(g)
  PROVE  /\ g \in Others
         /\ attached' = attached /\ disk' = disk
         /\ \A h \in Handle : /\ Block(h)' = Block(h)
                              /\ handles'[h].state = handles[h].state
                              /\ h # g => handles'[h].filled = handles[h].filled
         /\ \A a \in Block(g) : data'[a] = g
         /\ \A h \in Live : h # g => \A a \in Block(h) : data'[a] = data[a]
  <1>1. /\ g \in Live /\ data' = memcpy(g, data, handles[g].ptr, handles[g].size)
        /\ g \in Others /\ attached' = attached /\ disk' = disk
        /\ \A h \in Handle : /\ handles'[h].ptr = handles[h].ptr
                             /\ handles'[h].size = handles[h].size
                             /\ handles'[h].state = handles[h].state
                             /\ h # g => handles'[h].filled = handles[h].filled
    BY DEF OtherFill, Others, Fill, Live, StoreTyped, Allocation, progress
  <1>2. \A h \in Handle : Block(h)' = Block(h)
    BY <1>1 DEF Block
  <1>3. \A a \in Block(g) : data'[a] = g
    <2> SUFFICES ASSUME NEW a \in Block(g) PROVE data'[a] = g
      OBVIOUS
    <2>1. a \in Memory /\ handles[g].ptr <= a /\ a < handles[g].ptr + handles[g].size
      BY <1>1, LiveInMemory, LiveSized DEF Space
    <2> QED
      BY <1>1, <2>1 DEF memcpy, DataTyped
  <1>4. ASSUME NEW h \in Live, h # g, NEW a \in Block(h) PROVE data'[a] = data[a]
    <2>1. a \in Memory
      BY LiveInMemory
    <2> DEFINE p == handles[g].ptr
               n == handles[g].size
               q == handles[h].ptr
               m == handles[h].size
    <2>2. /\ p \in Nat /\ n \in Nat /\ q \in Nat /\ m \in Nat
          /\ p + n <= q \/ q + m <= p
          /\ a \in Nat /\ q <= a /\ a < q + m
      BY <1>1, <1>4, LiveApart, LiveSized DEF Space
    <2>3. data' = memcpy(g, data, p, n)
      BY <1>1
    <2> HIDE DEF p, n, q, m
    <2>4. ~ (p <= a /\ a < p + n)
      BY SMTT(30), <2>2
    <2> QED
      BY <2>1, <2>3, <2>4 DEF memcpy, DataTyped
  <1> QED
    BY <1>1, <1>2, <1>3, <1>4

(* A block that its holder writes again is whole again.                    *)
LEMMA TailFill ==
  ASSUME Fresh, AttachInv, Space, DamageIsListTail, NEW g \in Handle, OtherFill(g)
  PROVE  DamageIsListTail'
  <1>1. StoreTyped /\ DataTyped
    BY DEF AttachInv, DiskTypeOK, StoreTyped, DataTyped
  <1>2. ASSUME NEW h \in Handle, h \in Others', handles'[h].filled
        PROVE  \/ \A a \in Block(h)' : data'[a] = h
               \/ /\ h \in Others /\ handles[h].filled /\ Block(h)' = Block(h)
                  /\ \A a \in Block(h) : data'[a] = data[a] \/ ListTail(data'[a])
    <2>1. CASE h = g
      BY <1>1, <2>1, FillEffect
    <2>2. CASE h # g
      <3>1. h \in Live /\ h \in Others /\ handles[h].filled
        BY <1>1, <1>2, <2>2, FillEffect DEF Others, Live
      <3> QED
        BY <1>1, <2>2, <3>1, FillEffect
    <2> QED
      BY <2>1, <2>2
  <1> QED
    BY <1>1, <1>2, FillEffect, TailKept

(* What the lookup has read of the header: it is sector 0 when the region   *)
(* list's size is taken from it; later it may be a sector of a list, but   *)
(* not the first of the region list; and what was taken from sector 0 is   *)
(* what that says.                                                         *)
Told ==
  /\ pc = "regions" => HeaderIs(0)
  /\ pc \in {"regions", "readRegions", "backups", "readBackups", "adopt", "search"} =>
       ~ HeaderIs(1)
  /\ pc \in {"readRegions", "backups", "readBackups", "adopt", "search"} =>
       sizes[1] = RegionSectors
  /\ pc \in {"readBackups", "adopt", "search"} /\ HeaderIs(0) => sizes[2] = BackupSectors
  /\ pc = "search" /\ HeaderIs(0) => header = disk.sectors[0].header

(* A content of memory is one sector only.                                 *)
LEMMA OneSector ==
  ASSUME NEW s \in Nat, NEW t \in Nat, HeaderIs(s), HeaderIs(t)
  PROVE  s = t
  BY DEF HeaderIs, OnDisk

(* alloc leaves the header that was read where it is.                      *)
LEMMA HeaderByAlloc ==
  ASSUME Fresh, AttachInv, Space, header.type = 1, NEW size \in Nat \ {0}, Alloc(size),
         blocks' = Append(blocks, drawn), Len(blocks) \in {1, 2}
  PROVE  data'[handles'[blocks'[1]].ptr] = data[handles[blocks[1]].ptr]
  <1> PICK d : d = drawn
    OBVIOUS
  <1> DEFINE b == blocks[1]
  <1>0. 1 \in 1 .. Len(blocks)
    <2> PICK n \in {1, 2} : n = Len(blocks)
      OBVIOUS
    <2>1. 1 \in 1 .. n
      OBVIOUS
    <2> QED
      BY <2>1
  <1>1. StoreTyped /\ DataTyped /\ DiskTypeOK
    BY DEF AttachInv, DiskTypeOK, StoreTyped, DataTyped
  <1>2. /\ d \in Handle
        /\ \A h \in Handle : h # d => handles'[h] = handles[h]
    BY <1>1, AllocEffect
  <1>3. b \in attached /\ b \in Handle /\ b < d
    BY <1>0, <1>1, BlocksMade
  <1>4. blocks'[1] = b
    <2>1. blocks \in Seq(attached)
      BY <1>1 DEF DiskTypeOK
    <2> QED
      BY <1>0, <2>1, Appended
  <1>5. b \in Live /\ handles'[b] = handles[b]
    <2>1. b # d
      BY <1>2, <1>3
    <2> QED
      BY <1>2, <1>3, <2>1 DEF AttachInv
  <1>6. handles[b].ptr \in Block(b)
    BY <1>1, <1>5, BlockBegins
  <1>7. data'[handles[b].ptr] = data[handles[b].ptr]
    BY <1>1, <1>5, <1>6, TailByAlloc
  <1> QED
    BY <1>4, <1>5, <1>7

(* The read of a list leaves it, or puts there a later sector of the list. *)
LEMMA HeaderByRead ==
  ASSUME Fresh, AttachInv, Space, NEW k \in {2, 3}, Len(blocks) = k,
         NEW first \in Nat, NEW got \in Nat, data' = ReadInto(blocks[k], first, got),
         UNCHANGED <<handles, blocks>>
  PROVE  \/ data'[handles'[blocks'[1]].ptr] = data[handles[blocks[1]].ptr]
         \/ \E i \in 1 .. got - 1 : data'[handles'[blocks'[1]].ptr] = OnDisk(first + i)
  <1> DEFINE b == blocks[k]
             c == blocks[1]
  <1>1. StoreTyped /\ DiskTypeOK
    BY DEF AttachInv, DiskTypeOK, StoreTyped
  <1>2. b \in attached /\ c \in attached
    BY SMTT(30), <1>1, BlocksMade
  <1>3. c < b /\ c \in Handle /\ b \in Handle
    <2>1. 1 \in 1 .. Len(blocks) /\ k \in 1 .. Len(blocks) /\ 1 < k
      BY <1>1
    <2>2. c < b
      BY <2>1 DEF AttachInv, Ascending
    <2> QED
      BY <1>1, <1>2, <2>2, BlocksMade
  <1>4. b \in Live /\ c \in Live /\ b # c
    BY <1>2, <1>3 DEF AttachInv
  <1>5. handles[c].ptr \in Block(c)
    BY <1>1, <1>4, BlockBegins
  <1> HIDE DEF b, c
  <1>6. \/ ReadInto(b, first, got)[handles[c].ptr] = data[handles[c].ptr]
        \/ \E i \in 1 .. got - 1 : ReadInto(b, first, got)[handles[c].ptr] = OnDisk(first + i)
    BY SMTT(30), <1>1, <1>4, <1>5, ReadReaches
  <1> QED
    BY <1>6 DEF b, c

(* The read of the header puts a sector in its block.                      *)
LEMMA HeaderReadIn ==
  ASSUME StoreTyped, Space, NEW b \in Live, NEW sector \in Nat
  PROVE  ReadInto(b, sector, 1)[handles[b].ptr] = OnDisk(sector)
  <1> DEFINE p == handles[b].ptr
  <1>1. p \in Memory /\ p \in Nat
    BY BlockBegins, LiveInMemory, LiveSized DEF Space
  <1> HIDE DEF p
  <1> DEFINE c == CHOOSE i \in 0 .. 1 - 1 : p = p + Stride(i)
  <1>2. \A i \in 0 .. 1 - 1 : i = 0
    OBVIOUS
  <1>3. 0 \in 0 .. 1 - 1 /\ p = p + Stride(0)
    BY <1>1 DEF Stride
  <1>4. c \in 0 .. 1 - 1
    BY <1>3
  <1>5. ReadInto(b, sector, 1)[p] = OnDisk(sector + c)
    BY <1>1, <1>3 DEF ReadInto, p
  <1> HIDE DEF c
  <1>6. c = 0
    BY <1>2, <1>4
  <1> QED
    BY <1>5, <1>6 DEF p, OnDisk

(* Every step keeps Told.                                                  *)
LEMMA ToldNext ==
  ASSUME Fresh
  PROVE  AttachInv /\ Space /\ Told /\ [DiskNext]_dvars => Told'
  <1> SUFFICES ASSUME AttachInv, Space, Told, [DiskNext]_dvars PROVE Told'
    OBVIOUS
  <1> DEFINE Reading == {"regions", "readRegions", "backups", "readBackups", "adopt", "search"}
  <1>1. /\ StoreTyped /\ DiskTypeOK /\ MaxDraws \in Nat
        /\ sizes \in Seq(0 .. StackSectors) /\ StackSectors \in Nat
    BY DEF AttachInv, DiskTypeOK, StoreTyped
  <1>2. ASSUME pc' \notin Reading PROVE Told'
    BY <1>2 DEF Told
  <1>3. CASE UNCHANGED <<data, handles, blocks, sizes, header, disk, pc>>
    BY <1>3 DEF Told, HeaderIs, RegionSectors, BackupSectors
  <1>4. CASE CheckHeader
    <2>1. CASE pc' = "regions"
      <3> DEFINE b == blocks[1]
      <3>1. b \in Live
        <4>1. Len(blocks) = 1
          BY <1>4 DEF CheckHeader, AttachInv, Stages
        <4> QED
          BY <1>1, <4>1, BlocksMade DEF AttachInv
      <3>2. UNCHANGED <<handles, blocks>> /\ data' = ReadInto(b, 0, 1)
        BY <1>4, <2>1 DEF CheckHeader, Return
      <3>3. data'[handles'[blocks'[1]].ptr] = OnDisk(0)
        BY <1>1, <3>1, <3>2, HeaderReadIn
      <3>4. HeaderIs(0)' /\ ~ HeaderIs(1)'
        BY <1>1, <3>3 DEF HeaderIs, OnDisk
      <3> QED
        BY <2>1, <3>4 DEF Told
    <2>2. CASE pc' = "idle"
      BY <1>2, <2>2
    <2> QED
      BY <1>4, <2>1, <2>2 DEF CheckHeader, Goto, Return
  <1>5. CASE Lose \/ AllocFails
    BY <1>2, <1>5 DEF Lose, AllocFails, Goto, Return
  <1>6. CASE AllocRegions
    <2> PICK s \in Sector :
          /\ HeaderIs(s)
          /\ AllocateList(SectorsFor(RegionBytes * disk.sectors[s].header.max_regions),
                          "readRegions")
      BY <1>6 DEF AllocRegions
    <2>1. s = 0 /\ ~ HeaderIs(1)
      <3>1. s \in Nat /\ HeaderIs(0) /\ ~ HeaderIs(1)
        BY <1>6 DEF AllocRegions, Told, Sector
      <3> QED
        BY <3>1, OneSector
    <2> DEFINE n == SectorsFor(RegionBytes * disk.sectors[s].header.max_regions)
               size == IF n = 0 THEN 1 ELSE n
    <2>2. CASE n \in 0 .. StackSectors /\ Allocate(size, Append(sizes, n), "readRegions")
      <3>1. size \in Nat \ {0} /\ n = RegionSectors
        BY <2>1, <2>2 DEF RegionSectors
      <3>2. Len(blocks) = 1 /\ Len(sizes) = 0
        BY <1>6 DEF AllocRegions, AttachInv, Stages
      <3> HIDE DEF n, size
      <3>3. CASE /\ header.type = 1 /\ Alloc(size) /\ blocks' = Append(blocks, drawn)
                 /\ sizes' = Append(sizes, n) /\ disk' = disk /\ pc' = "readRegions"
        <4>1. sizes'[1] = n
          BY <1>1, <2>2, <3>2, <3>3
        <4>2. ~ HeaderIs(1)'
          BY <2>1, <3>1, <3>2, <3>3, HeaderByAlloc DEF HeaderIs, OnDisk
        <4> QED
          BY <3>1, <3>3, <4>1, <4>2 DEF Told, RegionSectors
      <3> QED
        BY <1>5, <2>2, <3>3 DEF Allocate, Goto
    <2> QED
      BY <1>5, <2>2 DEF AllocateList
  <1>7. CASE AllocBackups
    <2> PICK s \in Sector :
          /\ HeaderIs(s)
          /\ AllocateList(SectorsFor(BackupBytes * disk.sectors[s].header.max_backups),
                          "readBackups")
      BY <1>7 DEF AllocBackups
    <2>1. s \in Nat /\ ~ HeaderIs(1) /\ sizes[1] = RegionSectors
      BY <1>7 DEF AllocBackups, Told, Sector
    <2> DEFINE n == SectorsFor(BackupBytes * disk.sectors[s].header.max_backups)
               size == IF n = 0 THEN 1 ELSE n
    <2>2. CASE n \in 0 .. StackSectors /\ Allocate(size, Append(sizes, n), "readBackups")
      <3>1. size \in Nat \ {0} /\ (s = 0 => n = BackupSectors)
        BY <2>2 DEF BackupSectors
      <3>2. Len(blocks) = 2 /\ Len(sizes) = 1
        BY <1>7 DEF AllocBackups, AttachInv, Stages
      <3> HIDE DEF n, size
      <3>3. CASE /\ header.type = 1 /\ Alloc(size) /\ blocks' = Append(blocks, drawn)
                 /\ sizes' = Append(sizes, n) /\ disk' = disk /\ pc' = "readBackups"
        <4>1. sizes'[1] = sizes[1] /\ sizes'[2] = n
          <5>1. 1 \in 1 .. Len(sizes) /\ Len(sizes) + 1 = 2
            BY <3>2
          <5> QED
            BY <1>1, <3>3, <5>1, Appended
        <4>2. data'[handles'[blocks'[1]].ptr] = data[handles[blocks[1]].ptr]
          BY <3>1, <3>2, <3>3, HeaderByAlloc
        <4>3. ~ HeaderIs(1)' /\ (HeaderIs(0)' => s = 0)
          BY <2>1, <4>2, OneSector DEF HeaderIs, OnDisk
        <4>4. HeaderIs(0)' => sizes'[2] = BackupSectors
          BY <3>1, <4>1, <4>3
        <4> QED
          BY <2>1, <3>3, <4>1, <4>3, <4>4 DEF Told, RegionSectors, BackupSectors
      <3> QED
        BY <1>5, <2>2, <3>3 DEF Allocate, Goto
    <2> QED
      BY <1>5, <2>2 DEF AllocateList
  <1>8. ASSUME NEW k \in {2, 3}, NEW first \in Nat, NEW next, ReadList(k, first, next),
               Len(blocks) = k, sizes[k - 1] \in Nat, first >= 1, ~ HeaderIs(1)
        PROVE  /\ ~ HeaderIs(1)' /\ (HeaderIs(0)' => HeaderIs(0))
               /\ UNCHANGED <<sizes, disk, header>> /\ pc' = next
    <2>1. PICK got \in 0 .. sizes[k - 1] : data' = ReadInto(blocks[k], first, got)
      BY <1>8 DEF ReadList
    <2>2. UNCHANGED <<handles, blocks, sizes, disk, header>> /\ pc' = next /\ got \in Nat
      BY <1>8, <2>1 DEF ReadList, Goto
    <2>3. \/ data'[handles'[blocks'[1]].ptr] = data[handles[blocks[1]].ptr]
          \/ \E i \in 1 .. got - 1 : data'[handles'[blocks'[1]].ptr] = OnDisk(first + i)
      BY <1>8, <2>1, <2>2, HeaderByRead
    <2>4. CASE data'[handles'[blocks'[1]].ptr] = data[handles[blocks[1]].ptr]
      BY <1>8, <2>2, <2>4 DEF HeaderIs, OnDisk
    <2>5. ASSUME NEW i \in 1 .. got - 1, data'[handles'[blocks'[1]].ptr] = OnDisk(first + i)
          PROVE  ~ HeaderIs(1)' /\ ~ HeaderIs(0)'
      <3>1. i \in Nat /\ i >= 1
        BY <2>2
      <3>2. MaxDraws + (first + i) # MaxDraws + 1 /\ MaxDraws + (first + i) # MaxDraws + 0
        BY <1>1, <1>8, <3>1, OtherSector
      <3> QED
        BY <2>5, <3>2 DEF HeaderIs, OnDisk
    <2> QED
      BY <2>2, <2>3, <2>4, <2>5
  <1>9. CASE ReadRegions
    <2>1. Len(blocks) = 2 /\ sizes[1] \in Nat /\ ~ HeaderIs(1) /\ sizes[1] = RegionSectors
      BY <1>1, <1>9, SizesKnown DEF ReadRegions, AttachInv, Stages, Told
    <2>2. ~ HeaderIs(1)' /\ UNCHANGED <<sizes, disk>> /\ pc' = "backups"
      <3>1. ReadList(2, 1, "backups") /\ sizes[2 - 1] \in Nat /\ 1 >= 1
        BY <1>9, <2>1 DEF ReadRegions
      <3> QED
        BY <1>8, <2>1, <3>1
    <2> QED
      BY <2>1, <2>2 DEF Told, RegionSectors
  <1>10. CASE ReadBackups
    <2>1. /\ Len(blocks) = 3 /\ sizes[1] \in Nat /\ sizes[2] \in Nat
          /\ ~ HeaderIs(1) /\ sizes[1] = RegionSectors
          /\ HeaderIs(0) => sizes[2] = BackupSectors
      BY <1>1, <1>10, SizesKnown DEF ReadBackups, AttachInv, Stages, Told
    <2>2. 1 + sizes[1] \in Nat /\ 1 + sizes[1] >= 1
      BY <2>1
    <2>3. /\ ~ HeaderIs(1)' /\ (HeaderIs(0)' => HeaderIs(0)) /\ UNCHANGED <<sizes, disk>>
          /\ pc' = "adopt"
      <3>1. ReadList(3, 1 + sizes[1], "adopt") /\ 3 - 1 = 2
        BY <1>10 DEF ReadBackups
      <3> QED
        BY <1>8, <2>1, <2>2, <3>1
    <2> QED
      BY <2>1, <2>3 DEF Told, RegionSectors, BackupSectors
  <1>11. CASE Adopt
    <2>1. CASE ~ stray
      <3> PICK s \in Sector : HeaderIs(s) /\ header' = disk.sectors[s].header
        BY <1>11, <2>1 DEF Adopt, Lose, Goto
      <3>1. /\ UNCHANGED <<data, handles, blocks, sizes, disk>> /\ pc' = "search"
        BY <1>11, <2>1 DEF Adopt, Goto, progress
      <3>2. s \in Nat /\ (HeaderIs(0) => s = 0)
        BY OneSector DEF Sector
      <3>3. pc = "adopt"
        BY <1>11 DEF Adopt
      <3> QED
        BY <3>1, <3>2, <3>3 DEF Told, HeaderIs, RegionSectors, BackupSectors
    <2> QED
      BY <1>5, <1>11, <2>1 DEF Adopt
  <1>12. CASE Search \/ Descend
    BY <1>2, <1>12 DEF Search, Descend, Goto, Return
  <1>13. CASE AllocHeader
    BY <1>2, <1>5, <1>13 DEF AllocHeader, Allocate, Goto
  <1>14. CASE Lookup \/ FreeAgain
    BY <1>2, <1>14 DEF Lookup, FreeAgain, OpenEntry, Goto
  <1>15. CASE OtherFails
    BY <1>5, <1>15 DEF OtherFails
  <1>16. CASE \/ \E size \in Sizes : OtherAlloc(size)
              \/ \E h \in Handle : OtherFill(h) \/ OtherFree(h)
    BY <1>2, <1>16 DEF OtherAlloc, OtherFill, OtherFree
  <1> QED
    BY <1>3, <1>4, <1>6, <1>7, <1>9, <1>10, <1>11, <1>12, <1>13, <1>14, <1>15, <1>16
       DEF DiskNext, Call, dvars, vars, progress

(* Every step keeps DamageIsListTail: reads damage what lies past a list's *)
(* block, and nothing else is damaged.                                     *)
LEMMA TailNext ==
  ASSUME Fresh
  PROVE  AttachInv /\ Space /\ Told /\ DamageIsListTail /\ [DiskNext]_dvars =>
           DamageIsListTail'
  <1> SUFFICES ASSUME AttachInv, Space, Told, DamageIsListTail, [DiskNext]_dvars
               PROVE  DamageIsListTail'
    OBVIOUS
  <1>1. MaxDraws \in Nat /\ sizes \in Seq(0 .. StackSectors) /\ pending \in Nat
    BY DEF AttachInv, DiskTypeOK
  <1>2. ASSUME UNCHANGED <<data, handles, attached, disk>> PROVE DamageIsListTail'
    BY <1>2, TailKept DEF Others, Live, Block
  <1>3. ASSUME NEW size \in Nat \ {0}, NEW known, NEW next, Allocate(size, known, next)
        PROVE  DamageIsListTail'
    <2>1. CASE AllocFails
      BY <1>2, <2>1 DEF AllocFails, vars, progress
    <2>2. CASE header.type = 1 /\ Alloc(size) /\ disk' = disk /\ attached \subseteq attached'
      BY <2>2, TailAlloc
    <2> QED
      BY <1>3, <2>1, <2>2 DEF Allocate
  <1>4. CASE AllocHeader
    <2>1. Allocate(1, <<>>, "check") /\ 1 \in Nat \ {0}
      BY <1>4 DEF AllocHeader
    <2> QED
      BY <1>3, <2>1
  <1>5. CASE Lose
    BY <1>2, <1>5 DEF Lose, vars, progress
  <1>6. CASE AllocRegions \/ AllocBackups
    BY <1>3, <1>5, <1>6, ListAllocates
  <1>7. CASE CheckHeader
    <2>1. blocks[1] \in attached
      <3>1. Len(blocks) = 1 /\ DiskTypeOK
        BY <1>7 DEF CheckHeader, AttachInv, Stages
      <3> QED
        BY <3>1, BlocksMade
    <2>2. ASSUME NEW s \in Nat, data' = ReadInto(blocks[1], s, 1) PROVE DamageIsListTail'
      <3>1. \A i \in 1 .. 1 - 1 : ListTail(OnDisk(s + i))
        OBVIOUS
      <3>2. UNCHANGED <<handles, attached, disk>>
        BY <1>7 DEF CheckHeader
      <3> QED
        BY <2>1, <2>2, <3>1, <3>2, TailRead
    <2> QED
      BY <1>1, <1>2, <1>7, <2>2 DEF CheckHeader
  <1>8. ASSUME NEW k \in {2, 3}, NEW first \in Nat, NEW next, ReadList(k, first, next),
               Len(blocks) = k, sizes[k - 1] \in Nat,
               \A i \in 1 .. sizes[k - 1] - 1 : ListTail(OnDisk(first + i))
        PROVE  DamageIsListTail'
    <2>1. blocks[k] \in attached
      BY <1>8, BlocksMade DEF AttachInv
    <2>2. PICK got \in 0 .. sizes[k - 1] : data' = ReadInto(blocks[k], first, got)
      BY <1>8 DEF ReadList
    <2>3. got \in Nat /\ \A i \in 1 .. got - 1 : ListTail(OnDisk(first + i))
      <3>1. got \in Nat /\ \A i \in 1 .. got - 1 : i \in 1 .. sizes[k - 1] - 1
        BY <1>8, <2>2
      <3> QED
        BY <1>8, <3>1
    <2>4. UNCHANGED <<handles, attached, disk>>
      BY <1>8 DEF ReadList
    <2> QED
      BY <1>8, <2>1, <2>2, <2>3, <2>4, TailRead
  <1>9. CASE ReadRegions \/ ReadBackups
    <2> PICK n : n = RegionSectors
      OBVIOUS
    <2>1. n \in Nat /\ sizes[1] = n
      BY <1>1, <1>9 DEF ReadRegions, ReadBackups, Told, AttachInv, Stages
    <2>2. CASE ReadRegions
      <3>1. \A i \in 1 .. n - 1 : ListTail(OnDisk(1 + i))
        BY SMTT(30), <1>1, <2>1 DEF ListTail, OnDisk
      <3>2. Len(blocks) = 2
        BY <2>2 DEF ReadRegions, AttachInv, Stages
      <3> QED
        <4>1. ReadList(2, 1, "backups") /\ 2 - 1 = 1
          BY <2>2 DEF ReadRegions
        <4> QED
          BY <1>8, <2>1, <3>1, <3>2, <4>1
    <2>3. CASE ReadBackups
      <3>1. Len(blocks) = 3 /\ sizes[2] \in Nat
        BY SizesKnown, <2>3 DEF ReadBackups, AttachInv, Stages
      <3>2. \A i \in 1 .. sizes[2] - 1 : ListTail(OnDisk(1 + n + i))
        <4> SUFFICES ASSUME NEW i \in 1 .. sizes[2] - 1
                     PROVE  OnDisk(1 + n + i) > OnDisk(1) /\ OnDisk(1 + n + i) # OnDisk(1 + n)
          BY DEF ListTail
        <4>1. i \in Nat /\ i >= 1
          BY <3>1
        <4> QED
          BY SMTT(30), <1>1, <2>1, <4>1 DEF OnDisk
      <3> QED
        <4>1. ReadList(3, 1 + n, "adopt") /\ 3 - 1 = 2 /\ 1 + n \in Nat
          BY <2>1, <2>3 DEF ReadBackups
        <4> QED
          BY <1>8, <3>1, <3>2, <4>1
    <2> QED
      BY <1>9, <2>2, <2>3
  <1>10. ASSUME NEW size \in Sizes, OtherAlloc(size) PROVE DamageIsListTail'
    BY <1>10, TailAlloc DEF OtherAlloc, progress
  <1>11. ASSUME NEW h \in Handle, OtherFill(h) PROVE DamageIsListTail'
    BY <1>11, TailFill
  <1>12. ASSUME NEW h \in Handle, OtherFree(h) PROVE DamageIsListTail'
    <2>1. /\ data' = data /\ attached' = attached /\ disk' = disk
          /\ handles'[h].state = "freed"
          /\ \A g \in Handle : g # h => handles'[g] = handles[g]
      BY <1>12 DEF OtherFree, AttachInv, DiskTypeOK, Allocation, progress
    <2>2. ASSUME NEW g \in Handle, g \in Others', handles'[g].filled
          PROVE  g \in Others /\ handles[g].filled /\ Block(g)' = Block(g)
      BY <2>1, <2>2 DEF Others, Live, Block
    <2> QED
      BY <2>1, <2>2, TailKept
  <1> QED
    BY <1>2, <1>4, <1>5, <1>6, <1>7, <1>9, <1>10, <1>11, <1>12
       DEF DiskNext, Lookup, FreeAgain, OpenEntry, Call, OtherFails, AllocFails,
           Adopt, Search, Descend, dvars, vars, progress

(* The invariants of a lookup and of the blocks, together.                 *)
LEMMA AttachAndSpace ==
  ASSUME Fresh
  PROVE  DiskSpec => [](AttachInv /\ Space /\ Told)
  <1>1. DiskInit => AttachInv /\ Space /\ Told
    BY AttachInit, SpaceInit DEF DiskInit, Told
  <1>2. AttachInv /\ Space /\ Told /\ [DiskNext]_dvars => (AttachInv /\ Space /\ Told)'
    BY AttachNext, SpaceNext, ToldNext
  <1> QED
    BY <1>1, <1>2, PTL DEF DiskSpec

(* However many blocks were freed and used again: all that the reads of a  *)
(* lookup can do to a block that others have filled is to put sectors of   *)
(* the tail of a list there.                                               *)
THEOREM DamageIsBounded ==
  ASSUME Fresh
  PROVE  DiskSpec => []DamageIsListTail
  <1>1. DiskInit => DamageIsListTail
    BY DEF DiskInit, DamageIsListTail, Others, Live, NoHandle
  <1> QED
    BY AttachAndSpace, TailNext, <1>1, PTL DEF DiskSpec

-----------------------------------------------------------------------------
(* As long as nobody has freed anything. Every null node is one that never *)
(* held anything, so that a block is always taken at the end of the data   *)
(* area, and a list runs over into bytes that are nobody's.                *)
NullsEmpty == \A i \in NodeIdx : nodes[i].id = 0 => nodes[i].size = 0

OnTop ==
  pc \in {"readRegions", "readBackups"} =>
    handles[blocks[Len(blocks)]].ptr + handles[blocks[Len(blocks)]].size = next_data_pos

HeaderKept ==
  pc \in {"regions", "readRegions", "backups", "readBackups", "adopt", "search"} => HeaderIs(0)

Unfilled == \A h \in attached : ~ handles[h].filled

Quiet ==
  /\ stray => ~ NothingFreed
  /\ Unfilled
  /\ NothingFreed => NullsEmpty /\ OnTop /\ ContentsStable /\ HeaderKept

(* Nothing was freed at the start, and nobody has written anything.        *)
LEMMA QuietInit == DiskInit => Quiet
  <1> SUFFICES ASSUME DiskInit PROVE Quiet
    OBVIOUS
  <1>1. NullsEmpty
    BY DEF DiskInit, NullsEmpty, NullNode
  <1>2. Unfilled /\ ContentsStable
    BY DEF DiskInit, Unfilled, ContentsStable, NoHandle, Live
  <1>3. stray = FALSE /\ pc = "idle"
    BY DEF DiskInit
  <1> QED
    BY <1>1, <1>2, <1>3 DEF Quiet, OnTop, HeaderKept

(* A read into the last block of the data area changes nobody's bytes.     *)
LEMMA ReadOnTop ==
  ASSUME Fresh, StoreTyped, Space, header.type = 1, NEW b \in Live, NEW h \in Live, b # h,
         handles[b].ptr + handles[b].size = next_data_pos, NEW a \in Block(h),
         NEW first \in Nat, NEW got \in Nat
  PROVE  ReadInto(b, first, got)[a] = data[a]
  <1>1. PICK j \in NodeIdx : Owns(h, j)
    BY DEF Space, Ownership, LiveOwns
  <1>2. handles[h].ptr + handles[h].size <= next_data_pos
    BY <1>1 DEF Owns, Space, ExtentsBelowNext
  <1> DEFINE p == handles[b].ptr
             n == handles[b].size
             q == handles[h].ptr
             m == handles[h].size
  <1>3. /\ p \in Nat /\ n \in Nat \ {0} /\ q \in Nat /\ m \in Nat \ {0}
        /\ p + n <= q \/ q + m <= p
        /\ a \in Nat /\ a < q + m
        /\ p + n = next_data_pos /\ q + m <= next_data_pos
    BY <1>2, LiveApart, LiveSized DEF Space
  <1>4. next_data_pos \in Nat
    BY DEF StoreTyped
  <1> HIDE DEF p, n, q, m
  <1>5. a < p
    BY SMTT(30), <1>3, <1>4
  <1>6. ~ \E i \in 0 .. got - 1 : a = p + Stride(i)
    <2> SUFFICES ASSUME NEW i \in 0 .. got - 1, a = p + Stride(i) PROVE FALSE
      OBVIOUS
    <2>1. i \in Nat /\ Stride(i) \in Nat
      BY DEF Stride
    <2> QED
      BY <1>3, <1>5, <2>1
  <1>7. a \in Memory
    BY LiveInMemory
  <1> QED
    BY <1>6, <1>7 DEF ReadInto, p

(* Nothing that is freed comes back, and alloc takes new bytes at the end. *)
LEMMA QuietAlloc ==
  ASSUME Fresh, StoreTyped, Space, header.type = 1, NEW size \in Nat \ {0}, Alloc(size),
         NEW d, d = drawn, NothingFreed'
  PROVE  /\ NothingFreed
         /\ NullsEmpty => /\ NullsEmpty'
                          /\ handles'[d].ptr + handles'[d].size = next_data_pos'
  <1> PICK r \in Walked, i \in NodeIdx, k \in NodeIdx : AllocAt(size, r, i, k)
    BY DEF Alloc
  <1>1. /\ d \in Handle /\ handles[d].state = "none"
        /\ \A h \in Handle : h # d => handles'[h] = handles[h]
    BY SMTT(30) DEF AllocAt, StoreTyped, Space, Ownership, HandlesDrawn
  <1>2. NothingFreed
    BY <1>1 DEF NothingFreed
  <1>3. ASSUME NullsEmpty
        PROVE  NullsEmpty' /\ handles'[d].ptr + handles'[d].size = next_data_pos'
    <2>1. nodes[i].size = 0
      BY <1>3 DEF NullsEmpty, AllocAt, First, FreeIn
    <2>2. Grows(nodes[i], size)
      BY <2>1 DEF Grows
    <2>3. /\ nodes'[i].data_pos = next_data_pos /\ next_data_pos' = next_data_pos + size
          /\ nodes'[i].id # 0
          /\ \A j \in NodeIdx : j # i => nodes'[j] = nodes[j]
      BY <1>1, <2>2 DEF AllocAt, StoreTyped, NewNode
    <2>4. k = i
      BY AllocFindsItsNode DEF Space
    <2>5. handles'[d].ptr = next_data_pos /\ handles'[d].size = size
      BY <1>1, <2>3, <2>4 DEF AllocAt, StoreTyped
    <2> QED
      BY <1>3, <2>3, <2>5 DEF NullsEmpty
  <1> QED
    BY <1>2, <1>3

(* Steps that change nobody's bytes, and no allocation.                    *)
LEMMA QuietIdle ==
  ASSUME Quiet, UNCHANGED <<nodes, data, handles, attached>>,
         stray' => stray \/ ~ NothingFreed,
         \/ pc' \notin {"regions", "readRegions", "backups", "readBackups", "adopt", "search"}
         \/ UNCHANGED <<pc, blocks, next_data_pos>>
         \/ pc = "adopt" /\ pc' = "search" /\ blocks' = blocks
  PROVE  Quiet'
  <1>1. NothingFreed' <=> NothingFreed
    BY DEF NothingFreed
  <1>2. Unfilled' /\ (NullsEmpty => NullsEmpty')
    BY DEF Quiet, Unfilled, NullsEmpty
  <1>3. ContentsStable => ContentsStable'
    BY DEF ContentsStable, Live, Block
  <1>4. CASE pc' \notin {"regions", "readRegions", "backups", "readBackups", "adopt", "search"}
    BY <1>1, <1>2, <1>3, <1>4 DEF Quiet, OnTop, HeaderKept
  <1>5. CASE UNCHANGED <<pc, blocks, next_data_pos>>
    <2>1. (OnTop => OnTop') /\ (HeaderKept => HeaderKept')
      BY <1>5 DEF OnTop, HeaderKept, HeaderIs
    <2> QED
      BY <1>1, <1>2, <1>3, <1>5, <2>1 DEF Quiet
  <1>6. CASE pc = "adopt" /\ pc' = "search" /\ blocks' = blocks
    <2>1. OnTop' /\ (HeaderKept => HeaderKept')
      BY <1>6 DEF OnTop, HeaderKept, HeaderIs
    <2> QED
      BY <1>1, <1>2, <1>3, <1>6, <2>1 DEF Quiet
  <1> QED
    BY <1>4, <1>5, <1>6

(* The lookup allocates: its block is at the end, and nobody's bytes       *)
(* change, those of the header that was read neither.                      *)
LEMMA QuietAllocate ==
  ASSUME Fresh, AttachInv, Space, Quiet, NEW size \in Nat \ {0}, NEW known, NEW next,
         Allocate(size, known, next),
         \/ pc = "header" /\ next = "check"
         \/ pc = "regions" /\ next = "readRegions"
         \/ pc = "backups" /\ next = "readBackups"
  PROVE  Quiet'
  <1> PICK d : d = drawn
    OBVIOUS
  <1> DEFINE n == Len(blocks)
  <1>1. StoreTyped /\ DataTyped /\ DiskTypeOK
    BY DEF AttachInv, DiskTypeOK, StoreTyped, DataTyped
  <1>2. CASE AllocFails
    <2>1. pc' \in {"idle", "descend"}
      BY <1>2 DEF AllocFails, Goto, Return
    <2> QED
      BY <1>2, <2>1, QuietIdle DEF AllocFails, vars, progress
  <1>3. CASE header.type = 1 /\ Alloc(size) /\ blocks' = Append(blocks, drawn)
             /\ attached' = attached \cup {drawn} /\ pc' = next /\ stray' = stray
    <2>1. /\ d \in Handle /\ handles'[d].filled = FALSE /\ handles'[d].state = "live"
          /\ \A h \in Handle : h # d => handles'[h] = handles[h]
      BY <1>1, <1>3, AllocEffect
    <2>2. /\ n \in 0 .. 3
          /\ \A i \in 1 .. n : blocks[i] \in attached
          /\ \A h \in attached : h \in Handle /\ h < d
      BY <1>1, BlocksMade
    <2>3. /\ Len(blocks') = n + 1 /\ blocks'[n + 1] = d
          /\ \A i \in 1 .. n : blocks'[i] = blocks[i]
      BY <1>1, <1>3, Appended DEF DiskTypeOK
    <2>4. \A h \in attached : handles'[h] = handles[h] /\ h \in Live
      BY <2>1, <2>2 DEF AttachInv
    <2>5. Unfilled'
      BY <1>3, <2>1, <2>4 DEF Unfilled, Quiet
    <2>6. NothingFreed' => /\ NothingFreed /\ NullsEmpty'
                           /\ handles'[d].ptr + handles'[d].size = next_data_pos'
      BY <1>1, <1>3, QuietAlloc DEF Quiet
    <2>7. \A h \in Live : \A a \in Block(h) : data'[a] = data[a]
      BY <1>1, <1>3, TailByAlloc
    <2>8. ContentsStable => ContentsStable'
      <3> SUFFICES ASSUME ContentsStable, NEW h \in Live', handles'[h].filled, NEW a \in Block(h)'
                   PROVE  data'[a] = h
        BY DEF ContentsStable
      <3>1. h \in Handle /\ h # d /\ handles'[h] = handles[h]
        BY <2>1 DEF Live
      <3>2. h \in Live /\ handles[h].filled /\ a \in Block(h)
        BY <3>1 DEF Live, Block
      <3> QED
        BY <2>7, <3>2 DEF ContentsStable
    <2> HIDE DEF n
    <2>9. NothingFreed' => OnTop'
      BY <2>2, <2>3, <2>6 DEF OnTop
    <2>10. NothingFreed' => HeaderKept'
      <3> SUFFICES ASSUME NothingFreed', next # "check" PROVE HeaderIs(0)'
        BY <1>3 DEF HeaderKept
      <3>1. n \in {1, 2} /\ HeaderIs(0)
        BY <2>6 DEF AttachInv, Stages, Quiet, HeaderKept, n
      <3>2. data'[handles'[blocks'[1]].ptr] = data[handles[blocks[1]].ptr]
        BY <1>3, <3>1, HeaderByAlloc DEF n
      <3> QED
        BY <3>1, <3>2 DEF HeaderIs, OnDisk
    <2> QED
      BY <1>3, <2>5, <2>6, <2>8, <2>9, <2>10 DEF Quiet
  <1> QED
    BY <1>2, <1>3 DEF Allocate, Goto

(* The read of the header, one sector, stays in its block.                 *)
LEMMA HeaderReadStays ==
  ASSUME Fresh, StoreTyped, Space, NEW b \in Live, NEW h \in Live, h # b, NEW a \in Block(h),
         NEW sector \in Nat
  PROVE  ReadInto(b, sector, 1)[a] = data[a]
  <1>1. a \in Memory /\ a # handles[b].ptr
    BY LiveInMemory, FirstIsOwn
  <1> DEFINE p == handles[b].ptr
  <1>2. p \in Nat /\ a # p
    BY <1>1, LiveSized DEF Space
  <1> HIDE DEF p
  <1>3. ~ \E i \in 0 .. 1 - 1 : a = p + Stride(i)
    BY <1>2 DEF Stride
  <1> QED
    BY <1>1, <1>3 DEF ReadInto, p

(* The header is read into its block, and is there when it is read.        *)
LEMMA QuietCheck ==
  ASSUME Fresh, AttachInv, Space, Quiet, CheckHeader
  PROVE  Quiet'
  <1> DEFINE b == blocks[1]
  <1>1. StoreTyped /\ b \in attached /\ b \in Live /\ pending \in Nat
    <2>1. Len(blocks) = 1 /\ DiskTypeOK
      BY DEF CheckHeader, AttachInv, Stages
    <2>2. b \in attached
      BY <2>1, BlocksMade
    <2> QED
      BY <2>1, <2>2 DEF AttachInv, DiskTypeOK, StoreTyped
  <1>2. /\ UNCHANGED <<nodes, next_data_pos, handles, attached, blocks, stray>>
        /\ pc' \in {"idle", "regions"}
    BY DEF CheckHeader, Goto, Return
  <1>3. CASE data' = data /\ pc' = "idle"
    BY <1>2, <1>3, QuietIdle
  <1>4. ASSUME NEW sector \in Nat, data' = ReadInto(b, sector, 1), pc' = "idle" \/ sector = 0
        PROVE  Quiet'
    <2>1. ASSUME NEW h \in Live, h # b, NEW a \in Block(h) PROVE data'[a] = data[a]
      BY <1>1, <1>4, <2>1, HeaderReadStays
    <2>2. Unfilled' /\ (NullsEmpty => NullsEmpty') /\ (NothingFreed' <=> NothingFreed)
      BY <1>2 DEF Quiet, Unfilled, NullsEmpty, NothingFreed
    <2>3. ContentsStable => ContentsStable'
      <3> SUFFICES ASSUME ContentsStable, NEW h \in Live', handles'[h].filled, NEW a \in Block(h)'
                   PROVE  data'[a] = h
        BY DEF ContentsStable
      <3>1. h \in Live /\ handles[h].filled /\ a \in Block(h) /\ h # b
        BY <1>1, <1>2 DEF Live, Block, Quiet, Unfilled
      <3> QED
        BY <2>1, <3>1 DEF ContentsStable
    <2>4. pc' # "idle" => HeaderIs(0)'
      BY <1>1, <1>2, <1>4, HeaderReadIn DEF HeaderIs, OnDisk
    <2> QED
      BY <1>2, <2>2, <2>3, <2>4 DEF Quiet, OnTop, HeaderKept
  <1> QED
    BY <1>1, <1>3, <1>4 DEF CheckHeader, Goto, Return

(* A list is read into the last block of the data area.                    *)
LEMMA QuietRead ==
  ASSUME Fresh, AttachInv, Space, Quiet, NEW k \in {2, 3}, NEW first \in Nat, NEW next,
         ReadList(k, first, next), sizes[k - 1] \in Nat,
         \/ pc = "readRegions" /\ k = 2 /\ next = "backups"
         \/ pc = "readBackups" /\ k = 3 /\ next = "adopt"
  PROVE  Quiet'
  <1> DEFINE b == blocks[k]
             c == blocks[1]
  <1>1. StoreTyped /\ header.type = 1 /\ Len(blocks) = k /\ DiskTypeOK
    BY DEF AttachInv, DiskTypeOK, StoreTyped, Stages
  <1>2. b \in attached /\ c \in attached /\ c # b /\ b \in Live /\ c \in Live
    <2>1. b \in attached /\ c \in attached
      BY SMTT(30), <1>1, BlocksMade
    <2>2. c < b /\ c \in Handle /\ b \in Handle
      <3>1. 1 \in 1 .. Len(blocks) /\ k \in 1 .. Len(blocks) /\ 1 < k
        BY <1>1
      <3>2. c < b
        BY <3>1 DEF AttachInv, Ascending
      <3> QED
        BY <1>1, <2>1, <3>2, BlocksMade
    <2> QED
      BY <2>1, <2>2 DEF AttachInv
  <1>3. PICK got \in 0 .. sizes[k - 1] : data' = ReadInto(b, first, got)
    BY DEF ReadList
  <1>4. got \in Nat
    BY <1>3
  <1>5. /\ UNCHANGED <<nodes, next_data_pos, handles, attached, blocks, stray>>
        /\ pc' = next
    BY DEF ReadList, Goto
  <1>6. Unfilled' /\ (NullsEmpty => NullsEmpty') /\ (NothingFreed' <=> NothingFreed)
    BY <1>5 DEF Quiet, Unfilled, NullsEmpty, NothingFreed
  <1>7. ASSUME NothingFreed PROVE ContentsStable' /\ HeaderIs(0)'
    <2>1. handles[b].ptr + handles[b].size = next_data_pos /\ ContentsStable /\ HeaderIs(0)
      BY <1>1, <1>7 DEF Quiet, OnTop, HeaderKept
    <2>2. ASSUME NEW h \in Live, h # b, NEW a \in Block(h) PROVE data'[a] = data[a]
      BY SMTT(30), <1>1, <1>2, <1>3, <1>4, <2>1, <2>2, ReadOnTop
    <2>3. ContentsStable'
      <3> SUFFICES ASSUME NEW h \in Live', handles'[h].filled, NEW a \in Block(h)'
                   PROVE  data'[a] = h
        BY DEF ContentsStable
      <3>1. h \in Live /\ handles[h].filled /\ a \in Block(h) /\ h # b
        BY <1>2, <1>5 DEF Live, Block, Quiet, Unfilled
      <3> QED
        BY <2>1, <2>2, <3>1 DEF ContentsStable
    <2>4. data'[handles[c].ptr] = data[handles[c].ptr]
      BY <1>1, <1>2, <2>2, BlockBegins
    <2> QED
      BY <1>5, <2>1, <2>3, <2>4 DEF HeaderIs, OnDisk
  <1> QED
    BY <1>5, <1>6, <1>7 DEF Quiet, OnTop, HeaderKept

(* Every step keeps Quiet: until something is freed every new block is on  *)
(* top of the others, and what is read past it lies above them all.        *)
LEMMA QuietNext ==
  ASSUME Fresh
  PROVE  AttachInv /\ Space /\ Quiet /\ [DiskNext]_dvars => Quiet'
  <1> SUFFICES ASSUME AttachInv, Space, Quiet, [DiskNext]_dvars PROVE Quiet'
    OBVIOUS
  <1>1. StoreTyped /\ DataTyped /\ sizes \in Seq(0 .. StackSectors)
    BY DEF AttachInv, DiskTypeOK, StoreTyped, DataTyped
  <1>2. CASE Lookup
    BY <1>2, QuietIdle DEF Lookup, OpenEntry, Goto, vars
  <1>3. CASE FreeAgain
    <2>1. ~ NothingFreed
      BY <1>3 DEF FreeAgain, NothingFreed
    <2> QED
      BY <1>3, <2>1, QuietIdle DEF FreeAgain, OpenEntry, Goto, vars
  <1>4. CASE AllocHeader
    <2>1. Allocate(1, <<>>, "check") /\ 1 \in Nat \ {0} /\ pc = "header"
      BY <1>4 DEF AllocHeader
    <2> QED
      BY <2>1, QuietAllocate
  <1>5. CASE Lose
    BY <1>5, QuietIdle DEF Lose, Goto, vars, progress
  <1>6. CASE AllocRegions \/ AllocBackups
    BY <1>5, <1>6, ListAllocates, QuietAllocate DEF AllocRegions, AllocBackups
  <1>7. CASE CheckHeader
    BY <1>7, QuietCheck
  <1>8. CASE ReadRegions
    <2>1. sizes[2 - 1] \in Nat /\ pc = "readRegions"
      <3>1. Len(sizes) = 1 /\ pc = "readRegions"
        BY <1>8 DEF ReadRegions, AttachInv, Stages
      <3> QED
        BY <3>1, SizesKnown DEF AttachInv
    <2> QED
      BY <1>8, <2>1, QuietRead DEF ReadRegions
  <1>9. CASE ReadBackups
    <2>1. 1 + sizes[1] \in Nat /\ sizes[3 - 1] \in Nat /\ pc = "readBackups"
      <3>1. Len(sizes) = 2 /\ pc = "readBackups"
        BY <1>9 DEF ReadBackups, AttachInv, Stages
      <3> QED
        BY <3>1, SizesKnown DEF AttachInv
    <2> QED
      BY <1>9, <2>1, QuietRead DEF ReadBackups
  <1>10. CASE Adopt
    BY <1>5, <1>10, QuietIdle DEF Adopt, Goto, progress
  <1>12. CASE Search
    BY <1>12, QuietIdle DEF Search, Goto, Return, vars, progress
  <1>13. CASE Descend
    BY <1>13, QuietIdle DEF Descend, vars
  <1>14. CASE OtherFails
    BY <1>14, QuietIdle DEF OtherFails, AllocFails, Goto, Return, vars, progress
  <1>15. ASSUME NEW size \in Sizes, OtherAlloc(size) PROVE Quiet'
    <2> PICK d : d = drawn
      OBVIOUS
    <2>1. header.type = 1 /\ Alloc(size) /\ size \in Nat \ {0}
          /\ pc = "idle" /\ pc' = pc /\ attached' = attached /\ stray' = stray
      BY <1>15 DEF OtherAlloc, progress
    <2>2. /\ d \in Handle /\ handles'[d].filled = FALSE
          /\ \A h \in Handle : h # d => handles'[h] = handles[h]
      BY <2>1, AllocEffect DEF AttachInv
    <2>3. \A h \in attached : h \in Handle /\ h # d
      BY <2>2, BlocksMade DEF AttachInv
    <2>4. Unfilled'
      BY <2>1, <2>2, <2>3 DEF Unfilled, Quiet
    <2>5. NothingFreed' => NothingFreed /\ NullsEmpty'
      BY <1>1, <2>1, QuietAlloc DEF Quiet
    <2>6. ContentsStable => ContentsStable'
      <3> SUFFICES ASSUME ContentsStable, NEW h \in Live', handles'[h].filled, NEW a \in Block(h)'
                   PROVE  data'[a] = h
        BY DEF ContentsStable
      <3>1. h \in Handle /\ h # d /\ handles'[h] = handles[h]
        BY <2>2 DEF Live
      <3>2. h \in Live /\ handles[h].filled /\ a \in Block(h)
        BY <3>1 DEF Live, Block
      <3>3. data'[a] = data[a]
        BY <1>1, <2>1, <3>2, TailByAlloc
      <3> QED
        BY <3>2, <3>3 DEF ContentsStable
    <2> QED
      BY <2>1, <2>4, <2>5, <2>6 DEF Quiet, OnTop, HeaderKept
  <1>16. ASSUME NEW g \in Handle, OtherFill(g) PROVE Quiet'
    <2>1. /\ g \in Others /\ attached' = attached
          /\ \A h \in Handle : /\ Block(h)' = Block(h)
                               /\ handles'[h].state = handles[h].state
                               /\ h # g => handles'[h].filled = handles[h].filled
          /\ \A a \in Block(g) : data'[a] = g
          /\ \A h \in Live : h # g => \A a \in Block(h) : data'[a] = data[a]
      BY <1>1, <1>16, FillEffect
    <2>2. nodes' = nodes /\ pc = "idle" /\ pc' = pc /\ stray' = stray
      BY <1>16 DEF OtherFill, Fill, progress
    <2>3. \A h \in attached : h \in Handle
      BY BlocksMade DEF AttachInv
    <2>4. Unfilled'
      BY <2>1, <2>3 DEF Unfilled, Quiet, Others
    <2>5. (NothingFreed' <=> NothingFreed) /\ (NullsEmpty => NullsEmpty')
      BY <2>1, <2>2 DEF NothingFreed, NullsEmpty
    <2>6. ContentsStable => ContentsStable'
      <3> SUFFICES ASSUME ContentsStable, NEW h \in Live', handles'[h].filled, NEW a \in Block(h)'
                   PROVE  data'[a] = h
        BY DEF ContentsStable
      <3>1. h \in Handle /\ h \in Live /\ a \in Block(h)
        BY <2>1 DEF Live
      <3> QED
        BY <2>1, <3>1 DEF ContentsStable
    <2> QED
      BY <2>2, <2>4, <2>5, <2>6 DEF Quiet, OnTop, HeaderKept
  <1>17. ASSUME NEW h \in Handle, OtherFree(h) PROVE Quiet'
    <2>1. /\ attached' = attached /\ handles'[h].state = "freed"
          /\ \A g \in Handle : g # h => handles'[g] = handles[g]
          /\ h \notin attached
      BY <1>1, <1>17 DEF OtherFree, StoreTyped, Allocation, Others, progress
    <2>2. ~ NothingFreed'
      BY <2>1 DEF NothingFreed
    <2>3. Unfilled'
      BY <2>1, BlocksMade DEF Unfilled, Quiet, AttachInv
    <2> QED
      BY <2>2, <2>3 DEF Quiet
  <1>18. CASE UNCHANGED dvars
    BY <1>18, QuietIdle DEF dvars, vars, progress
  <1> QED
    BY <1>2, <1>3, <1>4, <1>6, <1>7, <1>8, <1>9, <1>10, <1>12, <1>13, <1>14,
       <1>15, <1>16, <1>17, <1>18 DEF DiskNext, Call

(* As long as nobody has freed anything, lists that are read past the end  *)
(* of their block change no byte that others wrote, and the header that    *)
(* the lookup still needs stays where it was read: for every disk, and     *)
(* whatever others allocated before.                                       *)
THEOREM OverrunsDoNoHarm ==
  ASSUME Fresh
  PROVE  DiskSpec => []OverrunHarmless
  <1>1. Quiet => OverrunHarmless
    BY DEF Quiet, OverrunHarmless, HeaderKept
  <1> QED
    BY AttachAndSpace, QuietInit, QuietNext, <1>1, PTL DEF DiskSpec

-----------------------------------------------------------------------------
(* The invariants together.                                                *)
LEMMA AttachAndQuiet ==
  ASSUME Fresh
  PROVE  DiskSpec => [](AttachInv /\ Space /\ Told /\ Quiet)
  BY AttachAndSpace, QuietInit, QuietNext, PTL DEF DiskSpec

(* When the disk's database is searched, each list has a block for all the *)
(* entries that the header in memory counts, if they fit an int and the    *)
(* header was not overwritten before it was copied: however the sizes are  *)
(* rounded, whatever else the disk says and however often blocks were      *)
(* freed and used again.                                                   *)
THEOREM AdoptedListsFit ==
  ASSUME Fresh
  PROVE  DiskSpec => []ListsFit
  <1>1. AttachInv /\ Told => ListsFit
    <2> SUFFICES ASSUME AttachInv, Told, pc = "search", HeaderIs(0) PROVE ListsFit
      BY DEF ListsFit
    <2>1. /\ Len(sizes) = 2 /\ Len(blocks) = 3 /\ sizes \in Seq(0 .. StackSectors)
          /\ header = disk.sectors[0].header /\ header \in Header
          /\ sizes[1] = RegionSectors /\ sizes[2] = BackupSectors
      BY DEF AttachInv, Stages, Told, DiskTypeOK
    <2> DEFINE r == RegionBytes * header.max_regions
               b == BackupBytes * header.max_backups
    <2>2. r \in Nat /\ b \in Nat
      <3>1. header.max_regions \in Nat /\ header.max_backups \in Nat
        BY <2>1 DEF Header
      <3> QED
        BY ONLY <3>1 DEF RegionBytes, BackupBytes
    <2>3. sizes[1] = SectorsFor(r) /\ sizes[2] = SectorsFor(b)
      BY <2>1 DEF RegionSectors, BackupSectors
    <2>4. sizes[1] <= handles[blocks[2]].size /\ sizes[2] <= handles[blocks[3]].size
      <3>1. 1 \in 1 .. Len(sizes) /\ 2 \in 1 .. Len(sizes)
        BY <2>1
      <3> QED
        BY <2>1, <3>1 DEF AttachInv, Roomy
    <2>5. handles[blocks[2]].size \in Nat /\ handles[blocks[3]].size \in Nat
      <3>1. blocks[2] \in Handle /\ blocks[3] \in Handle
        BY <2>1, BlocksMade DEF AttachInv
      <3> QED
        BY <3>1 DEF AttachInv, DiskTypeOK, Allocation
    <2>6. sizes[1] \in Nat /\ sizes[2] \in Nat
      BY <2>1, SizesKnown DEF AttachInv
    <2> HIDE DEF r, b
    <2>7. Fits(2, r)
      <3> SUFFICES ASSUME r < IntRange \div 2 PROVE handles[blocks[2]].size * 512 >= r
        BY DEF Fits
      <3>1. SectorsFor(r) * 512 >= r
        BY <2>2, SectorsSuffice
      <3> PICK m \in Nat, n \in Nat : m = sizes[1] /\ n = handles[blocks[2]].size
        BY <2>5, <2>6
      <3>2. m <= n /\ m * 512 >= r
        BY <2>3, <2>4, <3>1
      <3>3. n * 512 >= r
        BY <2>2, <3>2, MoreSectors
      <3> QED
        BY <3>3
    <2>8. Fits(3, b)
      <3> SUFFICES ASSUME b < IntRange \div 2 PROVE handles[blocks[3]].size * 512 >= b
        BY DEF Fits
      <3>1. SectorsFor(b) * 512 >= b
        BY <2>2, SectorsSuffice
      <3> PICK m \in Nat, n \in Nat : m = sizes[2] /\ n = handles[blocks[3]].size
        BY <2>5, <2>6
      <3>2. m <= n /\ m * 512 >= b
        BY <2>3, <2>4, <3>1
      <3>3. n * 512 >= b
        BY <2>2, <3>2, MoreSectors
      <3> QED
        BY <3>3
    <2> QED
      BY <2>7, <2>8 DEF ListsFit, r, b
  <1> QED
    BY <1>1, AttachAndSpace, PTL

(* The header in memory changes only by way of an accepted disk, with all  *)
(* three blocks of the lookup in use; what is adopted is the header that   *)
(* was accepted, unless somebody has freed a block before: then it may be  *)
(* the second or a later sector after it, never the first.                 *)
THEOREM HeaderAdoptedOnce ==
  ASSUME Fresh
  PROVE  DiskSpec => HeaderOnlyFromItsDisk
  <1>1. AttachInv /\ Told /\ Quiet /\ [DiskNext]_dvars =>
          (header' # header =>
             /\ disk.valid /\ ~ stray
             /\ Len(blocks) = 3 /\ \A k \in 1 .. 3 : blocks[k] \in Live
             /\ \E s \in Sector : /\ header' = disk.sectors[s].header
                                  /\ s = 0 \/ (~ NothingFreed /\ s >= 2))
    <2> SUFFICES ASSUME AttachInv, Told, Quiet, [DiskNext]_dvars, header' # header
                 PROVE  /\ disk.valid /\ ~ stray
                        /\ Len(blocks) = 3 /\ \A k \in 1 .. 3 : blocks[k] \in Live
                        /\ \E s \in Sector : /\ header' = disk.sectors[s].header
                                             /\ s = 0 \/ (~ NothingFreed /\ s >= 2)
      OBVIOUS
    <2>1. Adopt /\ ~ stray
      <3>1. header' = header \/ Adopt
        BY DEF DiskNext, Lookup, FreeAgain, OpenEntry, Call, OtherFails, AllocFails,
               AllocHeader, CheckHeader, AllocRegions, ReadRegions, AllocBackups, ReadBackups,
               ReadList, Allocate, AllocateList, Lose, Search, Descend, OtherAlloc, OtherFill,
               OtherFree, dvars
      <3> QED
        BY <3>1 DEF Adopt, Lose
    <2>2. disk.valid /\ Len(blocks) = 3
      BY <2>1 DEF Adopt, AttachInv, Stages
    <2>3. \A k \in 1 .. 3 : blocks[k] \in Live
      BY <2>2, BlocksMade DEF AttachInv
    <2>4. PICK s \in Sector : HeaderIs(s) /\ header' = disk.sectors[s].header
      BY <2>1 DEF Adopt, Lose
    <2>5. s \in Nat /\ s # 1 /\ (NothingFreed => s = 0)
      <3>1. s \in Nat
        BY DEF Sector
      <3>2. ~ HeaderIs(1) /\ (NothingFreed => HeaderIs(0))
        BY <2>1 DEF Adopt, Told, Quiet, HeaderKept
      <3> QED
        BY <2>4, <3>1, <3>2, OneSector
    <2>6. s = 0 \/ (~ NothingFreed /\ s >= 2)
      BY <2>5
    <2> QED
      BY <2>1, <2>2, <2>3, <2>4, <2>6
  <1>3. DiskSpec =>
          [][header' # header =>
               /\ disk.valid /\ ~ stray
               /\ Len(blocks) = 3 /\ \A k \in 1 .. 3 : blocks[k] \in Live
               /\ \E s \in Sector : /\ header' = disk.sectors[s].header
                                    /\ s = 0 \/ (~ NothingFreed /\ s >= 2)]_dvars
    BY <1>1, AttachAndQuiet, PTL DEF DiskSpec
  <1> QED
    BY <1>3 DEF HeaderOnlyFromItsDisk

-----------------------------------------------------------------------------
(* The type in memory is that of the database in memory, or one that the   *)
(* disk has in sector 0 or, once something was freed, in any sector.       *)
TypeOnDisk ==
  \E s \in Sector : /\ disk.sectors[s].header.type = header.type
                    /\ s = 0 \/ ~ NothingFreed
HeaderInv == (header.type # 1 => TypeOnDisk) /\ OverflowNeedsType2

(* At the start it is its own.                                             *)
LEMMA HeaderInit == DiskInit => HeaderInv
  BY DEF DiskInit, HeaderInv, OverflowNeedsType2

(* With a type from the disk nothing is allocated or freed any more, so    *)
(* that it stays true whether something was; only Adopt changes the type.  *)
LEMMA HeaderNext ==
  AttachInv /\ Quiet /\ HeaderInv /\ [DiskNext]_dvars => HeaderInv'
  <1> SUFFICES ASSUME AttachInv, Quiet, HeaderInv, [DiskNext]_dvars PROVE HeaderInv'
    OBVIOUS
  <1>1. \/ UNCHANGED <<header, disk, handles>>
        \/ Adopt
        \/ UNCHANGED <<header, disk>> /\ header.type = 1 /\ pc' \notin {"descend", "overflow"}
        \/ /\ UNCHANGED <<header, disk>> /\ pc' = "idle"
           /\ \E h \in Handle : OtherFill(h)
    BY DEF DiskNext, Lookup, FreeAgain, OpenEntry, Call, OtherFails, AllocFails, AllocHeader,
           CheckHeader, AllocRegions, ReadRegions, AllocBackups, ReadBackups, ReadList, Allocate,
           AllocateList, Lose, Search, Descend, OtherAlloc, OtherFill, OtherFree, Goto, dvars, vars
  <1>2. CASE UNCHANGED <<header, disk, handles>>
    <2>1. TypeOnDisk => TypeOnDisk'
      BY <1>2 DEF TypeOnDisk, NothingFreed
    <2>2. CASE pc \in {"descend", "overflow"}
      BY <1>2, <2>1, <2>2 DEF HeaderInv, OverflowNeedsType2, NothingFreed
    <2>3. CASE pc \notin {"descend", "overflow"} /\ pc' \in {"descend", "overflow"}
      <3>1. AllocHeader \/ AllocRegions \/ AllocBackups \/ OtherFails \/ Search
        BY <2>3 DEF DiskNext, Lookup, FreeAgain, OpenEntry, Call, CheckHeader, ReadRegions,
                    ReadBackups, ReadList, Adopt, Lose, Descend, OtherAlloc, OtherFill,
                    OtherFree, Goto, Return, dvars
      <3>2. header.type = 2
        BY <2>3, <3>1 DEF AllocHeader, AllocRegions, AllocBackups, OtherFails, Search,
                          AllocateList, Allocate, AllocFails, Descends, Lose, Goto, Return
      <3>3. TypeOnDisk'
        BY <2>1, <3>2 DEF HeaderInv
      <3> QED
        BY <1>2, <3>2, <3>3 DEF HeaderInv, TypeOnDisk, OverflowNeedsType2
    <2>4. CASE pc' \notin {"descend", "overflow"}
      BY <1>2, <2>1, <2>4 DEF HeaderInv, OverflowNeedsType2
    <2> QED
      BY <2>2, <2>3, <2>4
  <1>3. CASE Adopt
    <2>1. CASE Lose
      BY <1>2, <2>1 DEF Lose, vars
    <2>2. CASE ~ stray
      <3>1. PICK s \in Sector : HeaderIs(s) /\ header' = disk.sectors[s].header
        BY <1>3, <2>2 DEF Adopt
      <3>2. pc' = "search" /\ disk' = disk /\ handles' = handles
        BY <1>3, <2>2 DEF Adopt, Goto
      <3>3. s = 0 \/ ~ NothingFreed
        <4>1. s \in Nat
          BY DEF Sector
        <4>2. NothingFreed => HeaderIs(0)
          BY <1>3 DEF Adopt, Quiet, HeaderKept
        <4> QED
          BY <3>1, <4>1, <4>2, OneSector
      <3>4. TypeOnDisk'
        BY <3>1, <3>2, <3>3 DEF TypeOnDisk, NothingFreed
      <3> QED
        BY <3>2, <3>4 DEF HeaderInv, OverflowNeedsType2
    <2> QED
      BY <1>3, <2>1, <2>2 DEF Adopt
  <1>4. CASE UNCHANGED <<header, disk>> /\ header.type = 1 /\ pc' \notin {"descend", "overflow"}
    BY <1>4 DEF HeaderInv, OverflowNeedsType2
  <1>5. CASE /\ UNCHANGED <<header, disk>> /\ pc' = "idle"
             /\ \E h \in Handle : OtherFill(h)
    <2>1. NothingFreed' <=> NothingFreed
      <3> PICK g \in Handle : handles' = [handles EXCEPT ![g].filled = TRUE]
        BY <1>5 DEF OtherFill, Fill
      <3>1. \A h \in Handle : handles'[h].state = handles[h].state
        BY SMTT(30) DEF AttachInv, DiskTypeOK, Allocation
      <3> QED
        BY <3>1 DEF NothingFreed
    <2> QED
      BY <1>5, <2>1 DEF HeaderInv, TypeOnDisk, OverflowNeedsType2
  <1> QED
    BY <1>1, <1>2, <1>3, <1>4, <1>5

(* alloc and node_lookup_by_index call each other until the stack ends     *)
(* only for a type 2 in the disk's header, or, once somebody has freed a   *)
(* block, in a sector of the lists: for every disk, every error and every  *)
(* use of the allocator.                                                   *)
THEOREM OverflowOnlyByType2 ==
  ASSUME Fresh
  PROVE  DiskSpec => []OverflowNeedsType2
  <1>1. HeaderInv => OverflowNeedsType2
    BY DEF HeaderInv
  <1> QED
    BY <1>1, AttachAndQuiet, HeaderInit, HeaderNext, PTL DEF DiskSpec

=============================================================================
