# TLA+ models of qyre

qyre is a small kernel (`src/src`) whose memory allocator and file storage are
one thing: a *node database*. A database is a header, a list of regions, a list
of backup databases, a list of nodes and a data area (`src/design.txt`). It can
live in memory (type 1) or on a disk (type 2). The kernel is single-threaded and
runs with interrupts off, so what is hard about it is long sequences of calls,
errors in the middle of an operation, recursion, limits of tables and numbers,
and state that is changed through one handle and read through another. What runs
beside it are its two devices, the disk and the serial port, which work at their
own pace. A program on the host, `dbfmt`, writes the disk database.

## Inventory

| Part | State | Operations | Calls | Hard behaviour | Correct when |
|---|---|---|---|---|---|
| node database (`node.c`) | header (`next_data_pos`), regions, backups, nodes, data | `node_lookup`, `node_add`, `node_delete`, `node_get_data`, `node_set` | rand, alloc (disk only), ata (disk only) | reuse of deleted nodes, stale references, recursion over backups, handles overwritten | nodes own disjoint bytes; a reference leads to its own node; a lookup returns and searches what it promises |
| allocator (`alloc.c`) | `alloc_db`; the callers' `alloc_t` | `alloc`, `free` | node_add, node_get_data, node_delete | double free, ids that repeat, ignored results | live blocks are disjoint; free ends one allocation, its owner's |
| id generator (`rand.c`, `node_generate_id`) | `next` | `rand`, `rand64`, `node_generate_id` | - | bits that never vary, shifts past the width, build-dependent order | ids differ and none is 0 |
| kernel start (`kernel.c`) | the database at 16 MiB, the disk entry | `kmain` | all of the above | off-by-one of loops, bytes written past fields | the database starts empty; the disk can be reached |
| disk database (`node_lookup_database_ref`, type 2) | nodes that hold the disk's lists | attach, read a node | alloc, ata_read | partial failure, header aliasing, mutual recursion | attaching returns, changes only the new handle, frees what it took on failure |
| ATA driver (`ata.c`) | ports, the device | `ata_read`, `ata_write`, `ata_poll` | port.c | device timing, errors, where sectors land, register widths | the caller gets the sectors it asked for, in its buffer |
| helpers (`string.c`) | - | `memset`, `memcpy`, `strcmp`, `strncmp`, `strlen` | - | lengths 0 and 1, bytes past the block | they write and compare the bytes named |
| debug output (`debug.c`) | the serial port's registers and queue | `debug_init`, `debug_printf`, `debug_puti`, ... | port.c | a port that is not ready, buffer limit, format end, arguments that are missing | every text asked for leaves the port whole and in order; no byte past `buf` or the format |
| graphics (`graphics.c`) | frame buffer | pixels, rectangles, text | - | clipping, glyph bits | pixels inside the frame buffer |
| formatter (`dbfmt/main.c`) | the image file, the stream's buffer | `main` | stdio | ending anywhere, too many files, its layout against the kernel's | a file with a header is a whole database, and the kernel finds its lists |
| gdt, page, port | registers | single instructions | - | - | - |

Ways the parts interact: `alloc` is a call of the node database, and the node
database calls `alloc` to attach a disk, so the two are mutually recursive; a
`node_database_t` is passed by value but shares its header and lists by pointer;
`alloc_db` is one such handle, known to everyone.

## Plan

Order, and what each module is for:

1. `NodeStore` (with `BlockHeap` as its abstract specification) - done.
2. `IdGenerator` - done: justifies, and bounds, the assumption on ids in 1.
3. `NodeLookup` - done for databases in memory.
4. `Ata` - done: the driver and a device that works at its own pace.
5. `DiskAttach` - done: `kmain`'s lookup by way of the disk, on `NodeStore`'s
   operators and with what `Ata` establishes about reads.
6. `BackupRefs` - done for databases in memory: the caller's handle overwritten
   and the reference followed twice.
7. `KernelFormat` - done: the lists of the database at their real places in
   memory, with what is read and written past them.
8. `DiskFormat`, and `Boot` that puts it before 7 - done: what `dbfmt` leaves on
   the disk, and where the kernel looks for it.
9. `DebugPrint` (with `Console` as its abstract specification) - done.

Left: `graphics.c`, once something calls it.

Proofs: every safety property a run checks has a theorem but for the one of
`IdGenerator`, which is about one stream of numbers (see Proofs), and both
refinements are proved: `ImplementsBlockHeap`, and all of `ImplementsConsole` but
its fairness. Of the liveness properties it is proved that no call goes round in a
loop (`LookupIsShort`, `WorkDecreases`, `PrintfAdvances`: no step leads back; a poll
that learns nothing is no step) and when one can end other than by returning.

## Modules

### BlockHeap, NodeStore, MCNodeStore

`NodeStore` is the node database in memory and the allocator.

| TLA+ | code |
|---|---|
| `nodes`, `next_data_pos`, `data`, `regions` | the node list, header field, data area and region list of `alloc_db` |
| `handles[h]` | the `alloc_t` that the h-th successful `alloc` returned, and what its holder did since |
| `drawn`, `IdStream` | `node_generate_id` and how often it was called |
| `AllocAt`, `Alloc` | `alloc`: `node_add` of an uncleared buffer, then `node_get_data` of the new reference |
| `AllocFull` | `alloc` that returns `ERROR_NOT_FOUND` |
| `FreeAt`, `Free`, `FreeMiss` | `free`: `node_delete` that finds a node under the id and region, and one that does not |
| `Fill` | the holder writing its block |
| `memset`, `memcpy` | as in `string.c`: `memset` clears the byte after the block |

A byte is a token: `Zero`, `Junk`, or the allocation whose holder wrote it.
`free` may be called for any `alloc_t` ever returned, so double and late frees
are included; `node_delete` then clears and nulls whatever node it finds.

The rule for reuse is the code's, a null node keeps its bytes if they are enough;
`design.txt:71-72` has the comparison the other way round.

`BlockHeap` is what callers rely on: blocks of consecutive bytes, no two live
ones with a common byte. `ImplementsBlockHeap` maps the live handles to blocks.

`Formatted` is the set of nodes that `kmain` nulls. Its inner loop starts at node
`i` for region `i` instead of `i * 32`, so with the real tables that is 0 .. 62;
the nodes from 63 on are null where memory was zero at boot (`ListsAsMeant` of
`KernelFormat`). `ExtentsBelowNext` is a lemma of the proofs and no run's property.

| Run | Shows |
|---|---|
| `NodeStore.cfg` | the invariants, action properties and the refinement, on three nodes in two regions, four allocations of 1 to 3 bytes |
| `NodeStoreContents.cfg` | violated: freeing a node clears the first byte of the next one's data |

Bounds: `MaxDraws` (allocations made) and `DataCap` (bytes used), both in the
guard of `AllocAt`. Three nodes and two regions are enough for a region to fill
up and the next to be used; four allocations on three nodes force a reuse with a
larger, an equal and a smaller size and leave a stale `alloc_t` of the reused
node; `DataCap` 9 admits every sequence of sizes up to three growths of 3 bytes.
The model ends when four ids are drawn and everything is freed; `FreeMiss` stays
possible, so there is no deadlock.

### IdGenerator, MCIdGenerator

The generator computed exactly, on the 31 bits of `next` that matter. The order
of the two `rand()` calls in `rand64` is unspecified in C and `2 << i` with
`i >= 32` undefined: both are chosen at `Init`, so a run covers the four builds.
gcc on x86 gives `hi_first /\ shift_wraps`. Of the 64 bits of an id only 1..14
and 32..46 can be set.

`IdGenerator.cfg`: 1302 ids, more than the database has nodes, are distinct and
not 0. That is as far as it goes: with `MaxIds` one larger TLC finds `IdsDiffer`
violated, when in the kernel's build the id of draw 128 comes again. So the
assumption `Fresh` of the proofs below holds for the first 1302 allocations.
After that a new node can get the id of a live one in its region, and its
`alloc_t` then leads to the other's block.

### NodeLookup, MCNodeLookup

`node_lookup` over databases in memory that list each other as backups. The
recursion is an explicit stack (`frames`) with one action per exit of the
function. A world (backup lists, and what the searched region holds in each
database) is chosen at `Init` and does not change. `StackFrames` is the room on
the stack; a call without room sets `fault`.

The copy of the entry's address into the other database's `header->other`
(`node.c:65`) is left out: nothing reads it for a database in memory.

What a lookup searches is `Way`. The recursive call gets the slot as its backup
index, counted from 0, where an index is counted from 1. So for the first entry
it names no backup and searches the database of that entry, with its list. For a
later entry it searches one database only, and not the one the entry names, but
the one which that database's list names one place earlier (`Behind`). Databases
along the first entries, and those behind later entries of theirs, are all that
is searched; `FindsWhatItSearches` says that the node is found exactly if one of
them has it, and where: in the backup that the reference names
(`FoundWhereAsked`), and along the first entries if they have it
(`FirstEntriesSearched`). An entry that leads nowhere ends the search of its list (`Intact`).

`Work` bounds what a lookup has left to do: three steps for each entry of each
list in progress, and as much for all calls the stack still has room for while a
lookup follows first entries only.

Fairness: weak fairness of `Next`. The function runs alone on the only CPU.

| Run | Shows |
|---|---|
| `NodeLookup.cfg` | all lists of two entries over three databases without a cycle of first entries, with null and broken entries and missing regions, every backup index: the lookup returns, needs at most four frames and `Work` steps, finds the node where the reference says, searches everything along the first entries, and finds it exactly if `Way` has it |
| `NodeLookupItems.cfg` | violated: a database that is the second entry is not searched |

Worlds whose first entries form a cycle are left out: there the recursion has no
end, and overflows the stack when no database has the node. The theorems have
them; of the run's properties only `StackSuffices` and `Returns` are about worlds
without.

Three databases are enough for a chain of two hops and, from its end, a call by
the second entry; two entries tell the first from the later ones.

### Ata, MCAta

The driver and the disk are two processes: between any two register accesses of
the driver the disk may get on with its work.

| TLA+ | code |
|---|---|
| `pc`, `step`, `moved`, `call` | where `ata_read` or `ata_write` is, the registers written, the loop's `i`, the arguments |
| `buffer` | the 512-byte slots of the caller's buffer that were named so far, and what is or was there |
| `Begin`, `OutRegister`, `OutCommand` | the six `outb`; `Registers` has what each stores in its byte |
| `PollError`, `MoveIn`, `MoveOut` | one turn of the loop: `ata_poll`, then the sector through the data port and `buf` advanced twice |
| `Flush` | the last `outb` of `ata_write`, at once |
| `dev`, `medium` | the disk's registers and state, and what was written to it |
| `taken` | history: the disk took every register of the call in progress |

The disk is not in the repository. Assumed of it: it ignores its registers while
it is busy or has a sector to move, takes the count 0 for 256, stops at an error
with nothing more to move, and both drives are there. It may fail at any
request. `ata_poll` looks at the error bit before it looks at BSY, and a busy
disk need not keep that bit valid: while the disk is busy a poll may read an
error (`ErrorRead`), and the call then returns while its command is still under
way.

Most properties have `taken` as a condition, and need it: `ata_write` returns
while its last sector and the flush are under way, and what happens to a call
whose registers fall into that time is up to the disk. `StridePlaces` has no such
condition. `InRange` keeps the properties to sectors that 28 bits can name: bit 28
of a larger number lands on the drive bit, so that sector 2^28 is sector 0 of the
other drive.

Fairness: the driver is the only code that runs, and a disk that has a command
ends it, with an error or without one. With both, a call that the disk took
returns. One that was not taken may poll for ever, and so the model may stop.

A poll that learns nothing is no step of the model: it changes nothing. So "a
taken call returns" (`CallsReturn`) has three parts. No step of driver or disk
leads back to an earlier place (`WorkDecreases`, by the count `Work` of steps
left); `ata_poll` waits for nothing that the disk has not been asked for
(`PollsADeviceAtWork`, a part of it); and the disk does what it was asked for,
which is the fairness above. The first two hold of every disk, the third is an
assumption: a disk that stays silent hangs the kernel.

| Run | Shows |
|---|---|
| `Ata.cfg` | three calls in every order, 0 to 2 sectors each: what a taken read delivers and where, what a taken write leaves on the disk and nothing else, that a call polls only a disk with something to answer, that every step of a call, taken or not, leaves less to do, and that taken calls return if the disk ends its commands |

Bounds: `MaxCalls`. Three calls are enough for a call, one that meets what it
left behind (a busy disk, an unread sector) and one that meets both. Two sectors
tell the last from the others, and the two sector numbers make a carry between
the registers and need three of them.

### DiskAttach, MCDiskAttach

The only use of the disk in the kernel: `kmain` looks up node 1 of region 0 by
way of the second backup entry. The module extends `NodeStore` and uses its
`Alloc`, so the blocks of the attachment are nodes of the database that the
lookup works on.

| TLA+ | code |
|---|---|
| `disk` | what is on the disk: signature and reference as expected or not, and what each sector a lookup reads is as a header: type, table sizes, next position |
| `header` | the header at 16 MiB, to which `alloc_db` and every copy of it point |
| `blocks` | `header_alloc`, `region_alloc`, `backup_alloc` |
| `HeaderIs` | what lies in the header's block: sector 0, or a sector of a list that was read over it |
| `AsInt`, `SectorsFor` | `regions_size` and `backups_size`: a 64-bit product kept in an `int`, and rounded up |
| `pending` | sectors the disk still has ready: a read of 0 sectors asks it for 256 and takes none |
| `AllocHeader` ... `Adopt` | `node_lookup_database_ref`, case 2, one action for each allocation, read and copy, with each early return |
| `Search` | back in `node_lookup`: the type is looked at again |
| `FreeAgain`, `stray` | a free whose node is gone: `node_lookup` goes on to the backup entries and opens the disk's into `db2`, which is not initialized |
| `Descend`, `depth` | `node_lookup_by_index`, `alloc`, `node_add`, `node_lookup_by_index`, ... on a bounded stack |
| `OtherAlloc`, `OtherFill`, `OtherFree`, `OtherFails` | everyone else's use of `alloc_db` between lookups |

Addresses and sizes are sectors; the byte that makes every list's block one byte
longer than its sectors is left out, and a list of nothing but that byte has a
block of one sector. A sector of a list lies where `Ata` puts it, twice as far as
the lookup thinks. A read that fails ends the command; how many sectors of a list
arrived before is not looked at.

The sizes are ints, and the model computes them so: a count whose bytes do not fit
wraps, to a block of nothing but the odd byte and a read of no sectors, or to a
negative size. `alloc` keeps a buffer of the size on its stack. A size that is
negative or larger than the stack has room for (`StackSectors`) ends in "lost": what
the code does from there is undefined. `IntRange` stands for 2^32 (in the runs
2^30, as TLC's own numbers have 32 bits).

A list can be read over the header's own block, when that lies behind the list's
after frees. The code goes on with what it finds there, and so does the model: the
size of the backup list, the header that is copied over `alloc_db`'s, and the type
the search then looks at are those of the sector of the list that now lies in the
block (`HeaderIs`, `Adopt`). When a free that missed has read the whole disk its
header goes to wherever `db2` points: "lost" too.

No disk has type 1 there (`TypeAssumption`): reading an image of a database in
memory as such would need `NodeStore`'s lists in the image. The first `for(;;)` of
`node_lookup_by_index` (`node.c:151`) is never reached: the `alloc` before it does
not return.

Fairness: the kernel runs nothing else, so a lookup goes on.

| Run | Shows |
|---|---|
| `DiskAttach.cfg` | two lookups or repeated frees, disks of types 2, 3 and 5, one with a wrong reference and two whose lists overflow an int, list sectors that read as zeros, as a header of type 2 and as one too large; every read and every allocation may fail. While nothing was freed, nothing of others and no header is touched. After frees, what a read puts into other blocks is never the first sector of a list nor the header; the header in memory changes only by way of an accepted disk, to the header that was accepted or a later sector of its lists; the lists fit their blocks if their bytes fit an int and the header was not overwritten; and a lookup returns if all that can lie in the header's block is neither of type 2 nor too large for the stack |
| `DiskAttachReturn.cfg` | violated: the lookup `kmain` makes of a disk that `dbfmt` wrote ends with the stack |

Bounds: `MaxLookups`, `OtherAllocs`, `MaxDraws`, `DataCap`, `Room` (sectors one
lookup may need, and may touch past the data area), `StackFrames`, `StackSectors`.
The header of
an accepted disk takes the place of the one in memory, table sizes included,
which `design.txt:82-83` says never change. Two lookups let the second meet the
header the first left; three allocations of others and three nodes make the table
full at each of the lookup's three, and let others free blocks that the lists
are then read into; lists of one, two and three sectors have none, one and two
sectors past their place. Any `StackFrames` shows the same, as no call of the
recursion returns.

### BackupRefs, MCBackupRefs

Several databases in memory and one handle, `alloc_db`. A call with a backup in
its reference opens the backup and then hands the whole reference on, so that it
is followed a second time from there; `node_delete` and `node_set` open it into
the caller's handle itself.

| TLA+ | code |
|---|---|
| `handle` | the database that `alloc_db`'s five pointers describe |
| `nodes`, `next`, `data`, `backups` | the lists, the header field and the data area of every database |
| `Found`, `InEntries`, `ByIndex` | the result of `node_lookup` without and with a backup; `NodeLookup` has its steps |
| `Add`, `AddFull` | `node_add` |
| `GetData`, `got` | `node_get_data` and the pointer it gave |
| `DeleteHere`, `DeleteByBackup` | `node_delete` with all of `node_lookup`, `memset` and `node_set` |
| `deleted` | history: the ids of which `node_delete` returned `OK` |

References are used with every backup index, right or wrong, also after the
handle they were made through has become another's. Ids do not repeat, entries
lead to databases in memory, and first entries form no cycle.

| Run | Shows |
|---|---|
| `BackupRefs.cfg` | in each database nodes share no byte, and a node is gone exactly when `node_delete` returned `OK` for it |
| `BackupRefsData.cfg` | violated: `node_get_data` adds the position of a node of one database to the data area of another |

Bounds: `MaxIds` and `DataCap`. Three databases make two hops; two nodes each are
a node and the neighbour that is damaged; three ids force a reuse. The three sets
of lists are a chain, one through second entries with a way back, and one with an
entry that does not open.

### KernelFormat, DiskFormat, Boot, MCBoot

`DiskFormat` is `dbfmt`, `KernelFormat` is what `kmain` stores at 16 MiB, and
`Boot` composes them: the Makefile builds `os.img` from an image that `dbfmt` has
written, and the kernel starts from that; `make` sees whether the formatter ended
well, not whether its writes did.

| TLA+ | code |
|---|---|
| `image`, `buffer` | the file, as the set of pieces written and not written over, and what `fwrite` took that the next `fseek` or `fclose` pushes out |
| `Open` ... `Close` | `main` of the formatter, one action for each turn of a loop, or each of its two writes |
| `PushWorks`, `PushFails`, `failures` | the buffer going to the file, or not: the results of `fwrite`, `fseek` and `fclose` are ignored, and the formatter goes on |
| `Killed` | the end of the process at any point, by a signal or a file that is not there; the buffer may or may not reach the file |
| `RegionRead`, `BackupRead`, `NodeRead` | where the kernel looks on the disk, with the kernel's own sizes |
| `memory`, `cold` | the words of the three lists in memory, and what they held at boot, zeros or junk |
| `SetHeader`, `SetRegion`, `SetBackup`, `SetDisk` | `kmain`, one action for each turn of a loop, with the byte each `memset` really stores |
| `Walked`, `node_get_max_node`, `BackupsOf`, `DataOf` | how `node.c` reads the lists |

Memory and file are counted in words of eight bytes; a stray byte clears the low
byte of a word. The content of a file is a token.

What the formatter writes for a node are the first 48 bytes of the stream's own
structure (`main.c:73`, `main.c:95`), while it prints the id, region and backup the
node should have (`main.c:75`), and `kmain` looks for just that node. This is a bug
that a look at the image shows, so it has no run of its own: in the model the
content of these places is "FILE", and no property claims that a node is found.
Where the kernel looks there is not even that structure: its entries of the backup
list are smaller than the formatter's (`other[256]` and `other[512]`), so it looks
for the nodes of the first regions inside the backup list. `KernelReadsLists` says
nothing of nodes.

A write that fails goes unnoticed, and the header, which is written last, still
stands for all of it. The properties about a file with a header are therefore
about formatting without a failed write (`failures = 0`); only that an old header
never stands beside new pieces holds in any case.

| Run | Shows |
|---|---|
| `Boot.cfg` | wherever the formatter ends and whatever write fails, an old header has nothing new beside it; without a failed write a header on the disk means that every list and the data of every file is there, and that the kernel finds regions and null entries where it looks; `kmain`'s stray bytes and short loop leave the lists as meant; in memory that was zero at boot the regions read past the region list name no node outside the node list, and a database opened by its address has its data area where it was put |

`HeaderMeansComplete` is about at most as many files as there are nodes: the node
of one file more is written over the data of the first. `NodesInTheList` and
`OpenedWhereFormatted` are about memory that was zero at boot (`cold = 0`): the
first backup entry, which is read as a region, keeps its bytes at `ref`, of which
`memset` clears none. With junk there the walk over the regions runs into it, and
the data area is taken to be elsewhere. No fairness: these are
safety properties, and the process may end anywhere.

Bounds: the sizes, and one failed write (`MaxFailures`). The tables have the
code's 32 regions, 4 and 32 backups; the nodes of a region are fewer
(`NODES_PER_REGION`, `NODES_IN_REGION`), for the length of the behaviours only
(with the code's 32 in both, and no failed write, the run passes too). The command lines are none, one file, three with an empty one, one for each
node and one more.

### Console, DebugPrint, MCDebugPrint

`DebugPrint` is the debug output and the serial port, two processes as in `Ata`.
`Console` is what callers rely on: what they ask for appears, whole, in order and
in the end.

| TLA+ | code |
|---|---|
| `InitWrite`, `InitWrites` | `debug_init`, one `outb` at a time |
| `ptr`, `rodata` | `msg`, and the kernel's strings one behind the other |
| `Call`, `Plain`, `NoArgument`, `NumberArgument`, `StringArgument`, `CharArgument`, `EndOfText` | `debug_printf`, one turn of its loop |
| `NextArg`, `Leftovers`, `TextArg`, `LeftoverTexts` | `va_arg`: when nothing is left, what a register happened to hold; for %s a pointer, to some text or out of the memory |
| `After`, `Counted`, `DigitStored`, `puti` | the two loops of `debug_puti` |
| `ArgIndex`, `Passes`, `Complete`, `LacksNumber` | which argument a conversion takes, and whether it was passed |
| `putc`, `Ready` | `debug_putc` |
| `uart`, `outb`, `Send` | the port: divisor, format, loopback, and the characters it has taken |
| `overrun`, "wild" | `buf[count] = 0` with `count` = 64: it hits something or nothing; "wild" is also the end of a %s whose pointer leads nowhere |
| `history` | the calls made |

The port is not in the repository. Assumed of it: a PC UART with or without a
transmit FIFO (`FifoSize`), which takes a character more only while there is
room, and which sends what it has at the speed set then, to the line or, in
loopback, to itself. In the build of the Makefile (`gcc -O3`) the byte after `buf`
is padding; other builds may have something there, and the model has both.

`Meant` is the text of the calls up to the first that has no meaning (a lone % at
its end, missing arguments, a number that overruns `buf`); until then the
mapping shows that every step of port and kernel is a step of `Console` or a
stutter, and that all of it is shown. The first character on the line may be the
test byte of `debug_init`, which leaves loopback without waiting for it.
`node.c:152` is such a call without a meaning, behind a `for(;;)`.

Fairness: the kernel runs nothing else (`Step`), and a port that holds a character
sends it (`Send`). Callers need not call, so the model may stop.

| Run | Shows |
|---|---|
| `DebugPrint.cfg` | two calls out of all orders of formats with every conversion: `Console` is implemented, `debug_puti` stores past `buf` only for a number with the top bit in base 2 or one that was not passed, the loop stays within the format unless a lone % ends it, and every step of a call, with missing arguments too, brings it nearer to its end |

Bounds: `MaxCalls`, `Width` (5 bits stand for 64, and 5 bytes for those of
`buf`: the number of digits in base 2 is the width in both). Two calls are enough
for one to meet what the other left in the port and for the format behind a lone
%; the numbers are 0, those with one and two digits in each base, and the largest.

## Proofs

Each module's theorems are in a module of its name with `Proofs` behind it.
`NatSets` has what they share: induction and recursion over the natural numbers
in the form the provers can use. A formula becomes the set of the numbers it
holds for (`SetInduction`, `LeastElement`), and a recursive function exists
because its finite beginnings do (`Repetition`); `ScanTakes` below, which counts
arguments along a format, or `CountedIs`, which divides until nothing is left,
are proved with them.

All theorems hold for every value of the constants that the named assumptions
of the modules admit. What a theorem assumes beyond them is in its statement and
in this section.

### NodeStoreProofs

For every node list, region list (overlapping regions too), set of sizes and
bound. `Zeroed`: the node list reads as zeros at boot (otherwise nodes that
nobody allocated are in use from the start). `Fresh`: the ids are distinct
(`IdGenerator.cfg` says how long).

| Theorem | Property | Assumes |
|---|---|---|
| `TypeCorrect` | `TypeOK` | |
| `NoOverlap` | `ExtentsBelowNext`, `ExtentsDisjoint` | `Zeroed` |
| `HandlesResolve`, `NodesHaveHolders` | `LiveHandleResolves`, `NoLeakedNode` | `Zeroed`, `Fresh` |
| `FreeIsByOwner` | `OnlyOwnerFrees` | `Zeroed`, `Fresh` |
| `ImplementsHeap` | `ImplementsBlockHeap` | `Zeroed`, `Fresh` |
| `DamageBounded` | `DamageIsFirstByte` | `Zeroed`, `Fresh` |
| `ExtentsKept` | `ExtentsStable` | |

- `Extents`: the two parts of `NoOverlap` are inductive only together. A node that
  grows goes to `next_data_pos`, which is apart from the others because they end
  there.
- `Ownership`: neither `LiveHandleResolves` nor `NoLeakedNode` is inductive. An
  allocation is known by the id it drew (`HandlesDrawn`), ids of nodes differ
  (`UniqueIds`), and live allocations and used nodes own each other (`LiveOwns`,
  `NodesOwned`). From it follow the two facts everything else rests on: the
  lookup after `node_add` finds the node it took (`AllocFindsItsNode`), and a
  reference that matches a node is held by its owner (`OwnerIsHolder`). With
  `Extents` it maps the bytes of a live block to its node's, and shows that the
  byte a free clears past its block is the first of a block or of none.

### AtaProofs

For every set of sectors and counts, any number of calls and every timing of the
disk.

| Theorem | Property |
|---|---|
| `AddressExact` | what `Registers` stores names the sector asked for, below 2^28 |
| `TypeCorrect` | `TypeOK` |
| `StrideKept` | `StridePlaces` |
| `ReadsDeliver` | `ReadDelivers` |
| `OneSectorAtRisk` | `OnlyLastAtRisk` |
| `WritesStay` | `WritesWhereAsked` |
| `WorkGoesDown` | `WorkDecreases` |
| `PollsAtWork` | `PollsADeviceAtWork`, its first part |

- `Digits`: a sector number is made of its bytes and the drive bit.
- `AtaInv` adds to `ReadDelivers` what holds in the middle of a call: the
  registers written so far are those of this call, a disk which took the command
  is at sector `moved` of it, and the `moved` slots filled so far have their
  sectors. While a read that was taken is in progress nothing is written to the
  medium, since no sector of an earlier write is pending when the command is
  accepted.
- `WriteInv` is the same for writes. The disk stores a sector some time after it
  was handed to it, so in the middle of a call all sectors moved are on the medium
  but for at most the last (`Stored`, `WriteStep`), which is then the only one on
  its way (`LastOnItsWay`), also after `ata_write` has returned.
- `AimInv`: once the registers are taken they name the command and count of the
  call, and in the loop the disk has as many sectors left as the driver, but for
  the one in hand, or has failed (`AtWork`). For its other part
  `WorkGoesDown` needs no more than `AtaInv`.

### BackupRefsProofs

For every number of databases, all backup lists (cycles of second entries and
entries that open nothing included) and sizes.

| Theorem | Property |
|---|---|
| `BackupTypeCorrect` | `TypeOK` |
| `ApartInEveryDatabase` | `ExtentsApart` |
| `ToldTheTruth` | `DeletedWhenTold` |

- `BackupInv`: types, extents of every database, and where ids are: a node's id is
  in one database only (`OnlyPlace`), used ids were issued and not deleted
  (`InUse`), and those have a place (`HasPlace`). Deleting by way of a backup
  changes the handle and then looks the whole reference up again, so that what
  matters is that the node found in the end has the id that was asked for,
  wherever it is.
- `ReadTyped`: `ByIndex` is a recursive function over the places of the search
  (`InEntries`); `Looks` says what it is, by `Rank`, and that its value is a
  database which has the id, or none.

### DiskAttachProofs

For every set of disks, whatever others allocate, fill and free between lookups,
and whatever fails.

| Theorem | Property | Assumes |
|---|---|---|
| `DiskTypeCorrect` | `DiskTypeOK` | |
| `AdoptedListsFit` | `ListsFit` | `Fresh` |
| `HeaderAdoptedOnce` | `HeaderOnlyFromItsDisk` | `Fresh` |
| `DamageIsBounded` | `DamageIsListTail` | `Fresh` |
| `OverrunsDoNoHarm` | `OverrunHarmless` | `Fresh` |
| `OverflowOnlyByType2` | `OverflowNeedsType2`, without which `ReturnsUnlessType2` is false | `Fresh` |

- `AttachInv`: what each program point of the lookup knows of its blocks and of the
  header (`Stages`), and that a lookup's blocks are live: others free only their
  own.
- `Space` takes the place of `Extents`: blocks are apart and inside the data area,
  but they end before `next_data_pos` only until that is the disk's.
- `DamageIsListTail` is inductive with these. `OverrunHarmless` needs `Quiet`:
  before anything was freed every null node is empty (`NullsEmpty`), so that a
  block is always taken at the end of the data area, and the one a list is read
  into is the last there (`OnTop`): what is past it is nobody's.
- `Told`: what lies in the header's block is sector 0 when the region list's size is
  taken from it, and later may be a sector of a list but never the first of the
  region list; what was taken while it was sector 0 is what that says. From it
  follow `ListsFit` and, with `Quiet`, what can be adopted.
- `HeaderInv`: the header at 16 MiB is the one of boot or was adopted, from sector 0
  or, after a free, from a sector of a list, so that its type is 2 only if one of
  those says so.

### KernelFormat and DiskFormat: BootProofs

For tables of every size and all command lines.

| Theorem | Property | Assumes |
|---|---|---|
| `BootTypeCorrect` | `TypeOK` | |
| `HeaderIsTrue` | `HeaderMeansComplete` | |
| `KernelReadsTheFile` | `KernelReadsLists` | `MAX_BACKUPS >= 2` |
| `ListsCorrect` | `ListsAsMeant` | |
| `NodesStayInTheList` | `NodesInTheList` | |
| `OpenedInPlace` | `OpenedWhereFormatted` | |

With two entries or more the kernel's backup list starts and ends inside the
formatter's, whose entries are 69 words to its 37. What `HeaderIsTrue` and
`KernelReadsTheFile` say of a file with a header has the condition that no write
failed in the property itself, as `NodesStayInTheList` and `OpenedInPlace` have
memory that was zero at boot.

- `FileInv`: what holds whatever fails: types, and that an old header is alone in
  the file or was emptied with it (`OldOrNew`).
- `DiskInv`, as long as no write failed: every piece lies in its own part of the
  image, in the file or still in the stream's buffer (`AllPlaced`), so that no
  later write covers an earlier one, and the header is written when all else is (`HeaderLast`).
- `Complete`: in addition every piece is exactly where the running sum of the sizes
  puts it (`AllExact`, `NextData`), and those of the loops that ended are there.
- `KernelInv`: for each turn of `kmain`'s loops, what every word of the three lists
  is: stored, cleared by a `memset` that is one byte off, or as at boot.

### NodeLookupProofs

For every finite set of databases and all backup lists.

| Theorem | Property | Assumes |
|---|---|---|
| `LookupTypeCorrect` | `TypeOK` | |
| `FoundInPlace` | `FoundWhereAsked`, a part of `FindsWhatItSearches` | |
| `FirstEntriesFound` | `FirstEntriesSearched`, another | |
| `StackIsEnough` | `StackSuffices` | `StackFrames > Cardinality(Db)`; no cycle of first entries among databases that miss (`FirstCycle`) |
| `LookupEnds` | `LookupIsShort` | |
| `LookupFindsExactly` | `FindsWhatItSearches` | |

- `LookupInv`: the frames are a chain of calls, each made for the entry its caller
  is at (`Chain`); a call that returned was made at an entry (`Awaited`); what is
  found is where the outermost reference asked (`FoundInv`). Cycles are not
  excluded: where the recursion has no end the three still hold.
- `SearchedInv`: a lookup that descends has followed first entries only and was in
  no database twice (`Descending`); once a call by a first entry returned without
  result, all databases along the first entries were searched.
- The stack bound is the pigeonhole principle on the databases of the calls in
  progress, plus one call by a later entry.
- `LookupEnds` is one lemma for each way a step changes the calls (`ReturnWorks`,
  `MoveWorks`, `PushWorks`) on what `Work` is at each place (`WorkHere`). The call
  for a first entry is the only one that adds a list; it takes the room for it
  from the stack that is left.
- `WayInv`: a lookup without a backup is in one of four situations. It descends
  along first entries, never twice to the same database (`Descending`); it goes
  round in a cycle of them, out of which it does not come (`Looping`); it is on
  its way back, where every database along the first entries has been searched
  and each either is done with (`Clean`) or has a call in progress that has tried
  all entries up to its own (`Passed`, `FailsWith`); or it has the node (`Found`).
  The turn from the first to the third is where a search has seen all of the
  first entries, because a set that is closed under them has them all
  (`FirstEntriesClosed`, `NoHitOnTheWay`). With a backup a lookup is one call and
  one search (`AskedInv`).

### DebugPrintProofs

For every kernel image, all calls, every width of a number and size of the FIFO.
`DebugAssumption` states what is asked of the calls: a % stands at the end of a
format or before a character, not at the end of the last string of the image;
arguments are passed only for conversions, each of its conversion's type, but any
may be missing.

| Theorem | Property | Assumes |
|---|---|---|
| `PrintfStaysInFormat` | `StaysInFormat`, a part of `PrintfAdvances` | |
| `DebugTypeCorrect` | `TypeOK` | |
| `BufferHolds` | `BufferKept` | |
| `PrintfGoesForward` | `PrintfAdvances` | |
| `NumeralIs` | `debug_puti` gives the numeral, in every base | |
| `EveryTextIsShown` | `ImplementsConsole` without its fairness | `Distinct` |

`Distinct`: no text begins with byte 174, which `debug_init` sends as a test and may
leave on the line, since the mapping `Heard` tells the two apart by it only. It is
not ASCII, and no string of the kernel has it.

- `ScanInv`: between two turns of the loop `msg` is at a piece of the format of the
  call in progress or at its end (`Here`, `Within`), and the arguments left are
  those of the conversions from there on (`Rest`). After a lone % it is anywhere
  in the strings behind it.
- It rests on lemmas about the image as a flattened sequence: where its strings and
  pieces start (`NextStarts`, `NextPiece`) and which argument is whose
  (`ArgIndexIs`, `ScanTakes`).
- `PrintfGoesForward` is also `ScanInv`, with `PlacesInImage`: also behind a lone % `msg` is
  at a place of some string of the image, so it cannot leave it.
- `CountedIs`: `debug_puti` divides exactly as often as the number has digits, so
  it fills `buf` in base 2 with the top bit set and in no other case.
- `DebugInv`: the registers, the queue and the characters on their way.
- `PortInv`: when `debug_init` is done, the port is out of loopback and at the agreed
  speed, and at most the test byte is in its queue.
- `ToldInv`: what was brought to the port (`Body`: the line and the queue, without
  the test byte) is what was meant, but in a call; then it is what was meant
  before, and what the pieces so far give (`Given`) when the characters in hand
  are counted in (`Telling`). After the first call without a meaning it only
  begins with it. The invariant is about `Body` and not `Heard` because
  `debug_putc` moves a character to the queue and only a later `Send` shows it;
  `LineBegins` and `BodyBegins` bring the two together.

### Only model-checked

- `IdsDiffer` of `IdGenerator`: a fact of one seed and one stream (false from id
  1303 on), which TLC evaluates.
- Liveness under fairness, which the prover has no rules for, as it has none for
  ENABLED: `Returns`, `CallsReturn`, `ReturnsUnlessType2`, and the fairness of
  `Console`, by which all of a text is shown in the end (what is shown until then
  is `EveryTextIsShown`). What is proved towards them: each step leaves less to do
  (`LookupEnds`, `WorkGoesDown`, `PrintfGoesForward`), the driver waits only for a disk
  that has something to answer (`PollsAtWork`), a lookup does not end with the
  stack (`StackIsEnough`, and `OverflowOnlyByType2` for the disk). What is left to
  the runs: that there always is a next step, and that it is taken.
- The violated properties of the four findings' runs have counterexamples, no
  proofs.

## Not modelled

- `graphics.c`: arithmetic on pixels without state of its own; nothing calls it
  (its only use in `kmain` is commented out). `pow`, `strcmp`, `strlen`,
  `rand_seed` and `gdt_set_gate` have no caller either.
- Inline assembly (`gdt.c`, `page.c`, `port.c`): single instructions. What `inb`,
  `outb`, `inw` and `outw` do is in the devices of `Ata` and `DebugPrint`.
- Vendored headers, the linker script and the boot loader's configuration: no
  behaviour.
- A limit of the data area in memory (`node.c:379`): the code has none to compare
  with, and the models bound it.
- The byte `kmain` stores past its local `backup` (`kernel.c:117`): what lies there
  is the compiler's choice. In the Makefile's build it is a dead variable.
- What the copy to an uninitialized pointer (`node.c:112` by way of `node.c:239`)
  does to memory.
