----------------------------- MODULE DiskFormat -----------------------------
(***************************************************************************)
(* The formatter (src/dbfmt/main.c): it writes a disk database into an     *)
(* image file. It may be killed at any point, and it looks at no result of *)
(* a write, so that one that fails goes unnoticed.                         *)
(*                                                                         *)
(* The image is the set of the pieces that were written and that nothing   *)
(* was written over since; between them it reads as zeros. Positions and   *)
(* sizes are words of eight bytes. A piece is in the file when the next    *)
(* fseek, or the fclose, pushes it out of the stream's buffer.             *)
(***************************************************************************)
EXTENDS Integers, Sequences

CONSTANTS
  MAX_REGIONS, MAX_BACKUPS, NODES_IN_REGION,  \* 32, 32 and 32 in main.c
  CommandLines,   \* the sizes of the files that are named on the command line
  MaxFailures,    \* how many writes to the file may fail
  Unwritten       \* nothing in the buffer

ASSUME DiskAssumption ==
  /\ MAX_REGIONS \in Nat \ {0} /\ MAX_BACKUPS \in Nat \ {0} /\ NODES_IN_REGION \in Nat \ {0}
  /\ CommandLines \subseteq Seq(Nat) /\ MaxFailures \in Nat

SectorSize  == 64           \* 512 bytes
RegionSize  == 2            \* sizeof(node_region_entry_t)
BackupSize  == 69           \* sizeof(node_backup_entry_t): type, 32 bytes ref, 512 bytes other
NodeSize    == 6            \* sizeof(node_t)
HeaderSize  == 10           \* sizeof(node_database_header_t), 76 bytes, rounded up
MAX_NODES   == NODES_IN_REGION * MAX_REGIONS

BehindTheHeader == 10

HEADER_POS  == 0
REGIONS_POS == SectorSize
BACKUPS_POS == REGIONS_POS + RegionSize * MAX_REGIONS
NODES_POS   == BACKUPS_POS + BackupSize * MAX_BACKUPS
DATA_POS    == NODES_POS + NodeSize * MAX_NODES

VARIABLES
  files,          \* the command line
  pc,             \* what is written next; "done", "failed" or "killed"
  i,              \* the loop variable
  next_data_pos,  \* as in the header that is still in memory
  image,          \* what is in the file
  buffer,         \* what fwrite took and the file does not have yet
  failures        \* writes to the file that failed

dvars == <<files, pc, i, next_data_pos, image, buffer, failures>>

(* A region, a null backup entry, the bytes of the stream's own structure, *)
(* a file's data, a header with its next_data_pos, a header of before.     *)
Content == {"region", "backup", "FILE", "data", "header", "old header"} \X Nat
Piece   == [what : Content, pos : Nat, size : Nat]

ASSUME UnwrittenAssumption == Unwritten \notin Piece

DiskTypeOK ==
  /\ files \in CommandLines
  /\ pc \in {"start", "regions", "backups", "node", "data", "null nodes", "header", "close",
             "done", "failed", "killed"}
  /\ i \in 0 .. Len(files) + MAX_REGIONS + MAX_BACKUPS + MAX_NODES /\ next_data_pos \in Nat
  /\ image \subseteq Piece /\ buffer \in Piece \cup {Unwritten} /\ failures \in 0 .. MaxFailures
  /\ \A p \in image : p.what[1] = "region" => p.what[2] < MAX_REGIONS

-----------------------------------------------------------------------------
(* Bugs the code could have had: an image that is not emptied first, a     *)
(* loop that goes one too far; above, a region list right behind the       *)
(* header's fields.                                                        *)

KeepsTheImage == image

GoesOneFurther(n) == i = n

-----------------------------------------------------------------------------
(* Writing.                                                                *)

Apart(p, q) == p.pos + p.size <= q.pos \/ q.pos + q.size <= p.pos
Over(img, p) == {q \in img : Apart(p, q)} \cup {p}

Pushed == IF buffer = Unwritten THEN image ELSE Over(image, buffer)

(* The buffer goes to the file, or the write fails (a full disk, say), and *)
(* what was in the buffer is gone. A piece is written as a whole or not.   *)
PushWorks == image' = Pushed /\ UNCHANGED failures
PushFails == /\ buffer # Unwritten /\ failures < MaxFailures
             /\ failures' = failures + 1 /\ UNCHANGED image

(* fwrite; of no bytes it does nothing.                                    *)
Buffer(what, pos, size) ==
  buffer' = IF size = 0 THEN Unwritten ELSE [what |-> what, pos |-> pos, size |-> size]

(* fseek and fwrite. An fseek that could not write the buffer does not     *)
(* move: the piece takes the place of the lost one.                        *)
Write(what, pos, size) ==
  \/ PushWorks /\ Buffer(what, pos, size)
  \/ PushFails /\ Buffer(what, buffer.pos, size)

Last(n) == i + 1 = n
Loop(n, after) == /\ i' = IF Last(n) THEN 0 ELSE i + 1
                  /\ pc' = IF Last(n) THEN after ELSE pc

DiskInit ==
  /\ files \in CommandLines /\ pc = "start" /\ i = 0 /\ next_data_pos = 0
  /\ image = {[what |-> <<"old header", 0>>, pos |-> HEADER_POS, size |-> SectorSize]}
  /\ buffer = Unwritten /\ failures = 0

(* No image is named, or it cannot be opened (the first fseek faults).     *)
Usage == /\ pc = "start" /\ pc' = "failed"
         /\ UNCHANGED <<files, i, next_data_pos, image, buffer, failures>>

(* fopen with "w"                                                          *)
Truncated == {}
Open == /\ pc = "start" /\ pc' = "regions" /\ image' = Truncated
        /\ UNCHANGED <<files, i, next_data_pos, buffer, failures>>

WriteRegion ==
  /\ pc = "regions"
  /\ Write(<<"region", i>>, REGIONS_POS + RegionSize * i, RegionSize)
  /\ Loop(MAX_REGIONS, "backups")
  /\ UNCHANGED <<files, next_data_pos>>

AfterBackups == IF files = <<>> THEN "null nodes" ELSE "node"
WriteBackup ==
  /\ pc = "backups"
  /\ Write(<<"backup", i>>, BACKUPS_POS + BackupSize * i, BackupSize)
  /\ Loop(MAX_BACKUPS, AfterBackups)
  /\ UNCHANGED <<files, next_data_pos>>

(* A node: what is written is not the node, but the first bytes at `db`.   *)
WriteNode ==
  /\ pc = "node"
  /\ Write(<<"FILE", 0>>, NODES_POS + NodeSize * i, NodeSize)
  /\ pc' = "data"
  /\ UNCHANGED <<files, i, next_data_pos>>

WriteData ==
  /\ pc = "data"
  /\ Write(<<"data", i>>, DATA_POS + next_data_pos, files[i + 1])
  /\ next_data_pos' = next_data_pos + files[i + 1]
  /\ i' = i + 1
  /\ pc' = IF i' < Len(files) THEN "node" ELSE IF i' < MAX_NODES THEN "null nodes" ELSE "header"
  /\ UNCHANGED files

(* The rest of the node list, in the same way.                             *)
WriteNullNode ==
  /\ pc = "null nodes"
  /\ Write(<<"FILE", 0>>, NODES_POS + NodeSize * i, NodeSize)
  /\ Loop(MAX_NODES, "header")
  /\ UNCHANGED <<files, next_data_pos>>

WriteHeader ==
  /\ pc = "header"
  /\ Write(<<"header", next_data_pos>>, HEADER_POS, HeaderSize)
  /\ pc' = "close"
  /\ UNCHANGED <<files, i, next_data_pos>>

Close ==
  /\ pc = "close"
  /\ PushWorks \/ PushFails
  /\ buffer' = Unwritten /\ pc' = "done"
  /\ UNCHANGED <<files, i, next_data_pos>>

(* The process ends: by a signal, or by the fault that a file which is not *)
(* there makes (fseek on a null stream). What was in the buffer may or may *)
(* not be in the file.                                                     *)
Killed ==
  /\ pc \notin {"start", "done", "failed", "killed"}
  /\ pc' = "killed" /\ buffer' = Unwritten
  /\ image' \in {image, Pushed}
  /\ UNCHANGED <<files, i, next_data_pos, failures>>

DiskNext == \/ Usage \/ Open \/ WriteRegion \/ WriteBackup \/ WriteNode \/ WriteData
            \/ WriteNullNode \/ WriteHeader \/ Close \/ Killed

-----------------------------------------------------------------------------
(* Where the kernel looks: the header in the first sector, the region list *)
(* from the next one on, the backup list in the sector after that, both of *)
(* the sizes the header tells (node_lookup_database_ref), and the nodes    *)
(* behind as many entries of the kernel's own size (node_lookup_by_index). *)

KernelBackupSize  == 37
SectorsFor(words) == (words + SectorSize - 1) \div SectorSize
RegionRead(k)     == SectorSize + RegionSize * k
BackupRead(k)     == SectorSize * (1 + SectorsFor(RegionSize * MAX_REGIONS)) + KernelBackupSize * k
NodeRead(k)       == SectorSize + RegionSize * MAX_REGIONS + KernelBackupSize * MAX_BACKUPS + NodeSize * k

Written(kind) == {p \in image : p.what[1] = kind}

(* A run of words that is null: in a backup entry, or not written.         *)
Null(pos, size) ==
  \A p \in image \ Written("backup") : Apart(p, [pos |-> pos, size |-> size])

-----------------------------------------------------------------------------
(* The header of before is in the file with nothing new beside it (main:   *)
(* fopen with "w" first). However the formatter ends, a file with a new    *)
(* header is a whole database, as long as no write failed: every region,   *)
(* every entry, and the data of every file where the nodes printed say it  *)
(* is, if there are no more files than nodes (main: the header last). A    *)
(* failed write goes unnoticed: the header is still written.               *)
Offset[k \in Nat] == IF k = 0 THEN 0 ELSE Offset[k - 1] + files[k]

HeaderMeansComplete ==
  /\ Written("old header") # {} => image = Written("old header")
  /\ failures = 0 => \A h \in Written("header") :
       /\ \A k \in 0 .. MAX_REGIONS - 1 : \E p \in Written("region") : p.what[2] = k
       /\ \A k \in 0 .. MAX_BACKUPS - 1 : \E p \in Written("backup") : p.what[2] = k
       /\ Len(files) <= MAX_NODES =>
            /\ h.what[2] = Offset[Len(files)]
            /\ \A k \in DOMAIN files :
                 files[k] > 0 =>
                   [what |-> <<"data", k - 1>>, pos |-> DATA_POS + Offset[k - 1], size |-> files[k]] \in image

(* The two programs disagree on the size of a backup entry (256 bytes of   *)
(* `other` and 512). Once the header is there, and if no write failed, the *)
(* kernel still finds every region, and all its backup entries are null.   *)
(* Of the nodes it says nothing: the formatter writes none (WriteNode).    *)
KernelReadsLists ==
  failures = 0 /\ Written("header") # {} =>
    /\ \A k \in 0 .. MAX_REGIONS - 1 :
         [what |-> <<"region", k>>, pos |-> RegionRead(k), size |-> RegionSize] \in image
    /\ \A k \in 0 .. MAX_BACKUPS - 1 : Null(BackupRead(k), KernelBackupSize)

==============================================================================
