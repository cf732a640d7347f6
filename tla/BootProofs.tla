----------------------------- MODULE BootProofs -----------------------------
(***************************************************************************)
(* What holds of the formatter and of the kernel's start for tables of     *)
(* every size and every command line, with proofs.                         *)
(***************************************************************************)
EXTENDS Boot, NatSets

(* A loop variable that goes around.                                       *)
LEMMA WrapsAround ==
  ASSUME NEW n \in Nat \ {0}, NEW k \in Nat, k < n
  PROVE  \/ k + 1 < n /\ (k + 1) % n = k + 1
         \/ k + 1 = n /\ (k + 1) % n = 0
BY SMT

-----------------------------------------------------------------------------
(* The formatter: where pieces lie, in the image or still in the buffer,   *)
(* and which of them are there.                                            *)

Placed(p) ==
  /\ p.what[1] \in {"header", "old header"} => p.pos + p.size <= REGIONS_POS
  /\ p.what[1] = "region" => /\ p.what[2] < MAX_REGIONS /\ p.size = RegionSize
                             /\ p.pos = REGIONS_POS + RegionSize * p.what[2]
  /\ p.what[1] = "backup" => BACKUPS_POS <= p.pos /\ p.pos + p.size <= NODES_POS
  /\ p.what[1] \in {"FILE", "data"} => NODES_POS <= p.pos

AllPlaced == /\ \A p \in image : Placed(p)
             /\ buffer # Unwritten => Placed(buffer)

(* A loop's variable is below the loop's bound.                            *)
InLoop ==
  /\ pc = "start" => i = 0
  /\ pc = "regions" => i < MAX_REGIONS
  /\ pc = "backups" => i < MAX_BACKUPS
  /\ pc \in {"node", "data"} => i < Len(files)
  /\ pc = "null nodes" => i < MAX_NODES

TheRegion(k) == [what |-> <<"region", k>>, pos |-> REGIONS_POS + RegionSize * k, size |-> RegionSize]

(* The regions written so far are in the image or about to be.             *)
RegionsKept ==
  pc \notin {"start", "failed", "killed"} =>
    \A k \in 0 .. MAX_REGIONS - 1 :
      (pc = "regions" => k < i) => TheRegion(k) \in image \cup {buffer}

(* The header is the last piece, behind all regions.                       *)
HeaderLast ==
  /\ buffer # Unwritten => (buffer.what[1] = "header" <=> pc = "close")
  /\ pc = "close" => buffer # Unwritten
  /\ Written("header") # {} =>
       /\ pc \in {"done", "killed"}
       /\ \A k \in 0 .. MAX_REGIONS - 1 : TheRegion(k) \in image

DiskInv == DiskTypeOK /\ InLoop /\ AllPlaced /\ RegionsKept /\ HeaderLast

OldHeader == [what |-> <<"old header", 0>>, pos |-> HEADER_POS, size |-> SectorSize]

(* What holds of the file even when writes fail: until the file is opened  *)
(* it has the old header and nothing else, from then on no old header.     *)
IsNew(p) == p.what[1] # "old header" /\ (p.what[1] = "region" => p.what[2] < MAX_REGIONS)

OldOrNew ==
  /\ pc \in {"start", "failed"} => image = {OldHeader} /\ buffer = Unwritten
  /\ pc \notin {"start", "failed"} => /\ \A p \in image : IsNew(p)
                                      /\ buffer # Unwritten => IsNew(buffer)

FileInv == DiskTypeOK /\ InLoop /\ OldOrNew

-----------------------------------------------------------------------------
(* The kernel: what each word of the lists holds, while they are stored.   *)

RegionsStored == CASE kpc = "header" -> 0 [] kpc = "regions" -> ki [] OTHER -> MAX_REGION
BackupsStored == CASE kpc \in {"header", "regions"} -> 0 [] kpc = "backups" -> ki [] OTHER -> MAX_BACKUP
NodesNulled   == IF RegionsStored = 0 THEN 0 ELSE RegionsStored - 1 + NODES_PER_REGION

KernelLoops ==
  /\ kpc \in {"header", "disk", "ready"} => ki = 0
  /\ kpc = "regions" => ki < MAX_REGION
  /\ kpc = "backups" => ki < MAX_BACKUP

RegionWordsSet ==
  \A r \in 0 .. RegionsStored - 1 :
    memory[Region(r)] = r * NODES_PER_REGION /\ memory[Region(r) + 1] = RegionEnd(r)

(* No stray byte has shown: a word that nobody means to store holds what   *)
(* it held at boot, or a zero.                                             *)
InDiskEntry(a) == kpc = "ready" /\ a - Backup(DiskSlot) \in 0 .. BackupWords - 1

BackupWordsSet ==
  /\ \A a \in BACKUP_LIST_ADDR .. NODE_LIST_ADDR - 1 :
       memory[a] \in (IF InDiskEntry(a) THEN {DiskEntry[a - Backup(DiskSlot)]} ELSE {0, cold})
  /\ \A b \in 0 .. BackupsStored - 1 : ~InDiskEntry(Backup(b)) => memory[Backup(b)] = 0

NodeWordsSet ==
  \A a \in NODE_LIST_ADDR .. DATA_ADDR - 1 : memory[a] = IF a < NodeAt(NodesNulled) THEN 0 ELSE cold

HeaderSet == kpc # "header" => header = [regions |-> MAX_REGION, backups |-> MAX_BACKUP]

KernelInv == KernelTypeOK /\ KernelLoops /\ HeaderSet /\ RegionWordsSet /\ BackupWordsSet /\ NodeWordsSet

-----------------------------------------------------------------------------
(* The formatter's tables in numbers.                                      *)
LEMMA DiskNumbers ==
  /\ MAX_REGIONS \in Nat \ {0} /\ MAX_BACKUPS \in Nat \ {0} /\ NODES_IN_REGION \in Nat \ {0}
  /\ MAX_NODES \in Nat \ {0}
  /\ REGIONS_POS = 64 /\ RegionSize = 2 /\ BackupSize = 69 /\ NodeSize = 6 /\ HeaderSize = 10
  /\ HEADER_POS = 0 /\ SectorSize = 64
  /\ BACKUPS_POS = 64 + 2 * MAX_REGIONS
  /\ NODES_POS = BACKUPS_POS + 69 * MAX_BACKUPS /\ NODES_POS \in Nat
  /\ DATA_POS \in Nat /\ DATA_POS >= NODES_POS
<1>1. /\ MAX_REGIONS \in Nat \ {0} /\ MAX_BACKUPS \in Nat \ {0} /\ NODES_IN_REGION \in Nat \ {0}
  BY DiskAssumption
<1>2. \A a, b \in Nat \ {0} : a * b \in Nat \ {0}
  BY SMT
<1>3. MAX_NODES \in Nat \ {0}
  BY <1>1, <1>2 DEF MAX_NODES
<1>4. /\ REGIONS_POS = 64 /\ RegionSize = 2 /\ BackupSize = 69 /\ NodeSize = 6 /\ HeaderSize = 10
      /\ HEADER_POS = 0 /\ SectorSize = 64
  BY DEF REGIONS_POS, SectorSize, RegionSize, BackupSize, NodeSize, HeaderSize, HEADER_POS
<1>5. /\ BACKUPS_POS = 64 + 2 * MAX_REGIONS
      /\ NODES_POS = BACKUPS_POS + 69 * MAX_BACKUPS
      /\ DATA_POS = NODES_POS + 6 * MAX_NODES
  BY <1>4 DEF BACKUPS_POS, NODES_POS, DATA_POS
<1>. QED
  BY <1>1, <1>3, <1>4, <1>5, SMT

(* A region entry is a piece, and it is where every region is placed.      *)
LEMMA RegionIsPiece ==
  ASSUME NEW k \in 0 .. MAX_REGIONS - 1
  PROVE  TheRegion(k) \in Piece /\ Placed(TheRegion(k)) /\ TheRegion(k) # Unwritten
<1>1. REGIONS_POS + RegionSize * k \in Nat /\ RegionSize \in Nat /\ k \in Nat /\ k < MAX_REGIONS
  BY DiskNumbers, SMT
<1>2. <<"region", k>> \in Content
  BY <1>1 DEF Content
<1>3. TheRegion(k) \in Piece
  BY <1>1, <1>2 DEF TheRegion, Piece
<1>4. Placed(TheRegion(k))
  BY <1>1 DEF TheRegion, Placed
<1>. QED
  BY <1>3, <1>4, UnwrittenAssumption

(* Every kind of piece, with a number.                                     *)
LEMMA Contents ==
  ASSUME NEW n \in Nat
  PROVE  /\ <<"region", n>> \in Content /\ <<"backup", n>> \in Content /\ <<"FILE", n>> \in Content
         /\ <<"data", n>> \in Content /\ <<"header", n>> \in Content
         /\ <<"old header", n>> \in Content
BY DEF Content

(* A command line is a sequence of sizes.                                  *)
LEMMA CommandLine ==
  ASSUME NEW f \in CommandLines
  PROVE  f \in Seq(Nat) /\ Len(f) \in Nat
<1>1. f \in Seq(Nat)
  BY DiskAssumption
<1>. QED
  BY <1>1

(* Every loop is entered with a bound above 0.                             *)
LEMMA LoopsEnter == 0 < MAX_REGIONS /\ 0 < MAX_BACKUPS /\ 0 < MAX_NODES
BY DiskNumbers, SMT

(* What a piece holds is a kind and a number.                              *)
LEMMA ContentIsPair ==
  ASSUME NEW c \in Content
  PROVE  /\ c = <<c[1], c[2]>> /\ c[2] \in Nat
         /\ c[1] \in {"region", "backup", "FILE", "data", "header", "old header"}
<1>1. \A S, T : \A x \in S \X T : x = <<x[1], x[2]>> /\ x[1] \in S /\ x[2] \in T
  OBVIOUS
<1>. QED
  BY <1>1 DEF Content

(* Nothing that is placed hits a region entry, but that entry itself.      *)
LEMMA RegionsApart ==
  ASSUME NEW p \in Piece, Placed(p), NEW k \in 0 .. MAX_REGIONS - 1
  PROVE  Apart(TheRegion(k), p) \/ TheRegion(k) = p
<1> DEFINE r == TheRegion(k)
<1>1. r.pos = 64 + 2 * k /\ r.size = 2 /\ r.what = <<"region", k>>
  BY DiskNumbers DEF TheRegion
<1>2. p.pos \in Nat /\ p.size \in Nat /\ p.what \in Content
  BY DEF Piece
<1>3. p.what = <<p.what[1], p.what[2]>> /\ p.what[2] \in Nat
      /\ p.what[1] \in {"region", "backup", "FILE", "data", "header", "old header"}
  BY <1>2, ContentIsPair
<1>4. CASE p.what[1] = "region"
  <2> DEFINE j == p.what[2]
  <2>1. j \in Nat /\ p.pos = 64 + 2 * j /\ p.size = 2
    BY <1>3, <1>4, DiskNumbers DEF Placed
  <2>2. CASE j = k
    <3>1. p = [what |-> p.what, pos |-> p.pos, size |-> p.size]
      BY DEF Piece
    <3>. QED
      BY <3>1, <2>1, <2>2, <1>3, <1>4, DiskNumbers DEF TheRegion
  <2>3. CASE j # k
    <3>1. j + 1 <= k \/ k + 1 <= j
      BY <2>1, <2>3
    <3> HIDE DEF j, r
    <3>. QED
      BY <3>1, <2>1, <1>1, SMT DEF Apart, r
  <2>. QED
    BY <2>2, <2>3
<1>5. CASE p.what[1] \in {"header", "old header"}
  <2>1. p.pos + p.size <= 64
    BY <1>5, DiskNumbers DEF Placed
  <2>. QED
    BY <2>1, <1>1, <1>2, SMT DEF Apart
<1>6. CASE p.what[1] \in {"backup", "FILE", "data"}
  <2>1. p.pos >= 64 + 2 * MAX_REGIONS
    <3>1. p.pos >= BACKUPS_POS \/ p.pos >= NODES_POS
      BY <1>6 DEF Placed
    <3>. QED
      BY <3>1, <1>2, DiskNumbers, SMT
  <2>. QED
    BY <2>1, <1>1, <1>2, DiskNumbers, SMT DEF Apart
<1>. QED
  BY <1>3, <1>4, <1>5, <1>6

(* What is pushed out of the buffer: pieces in their places, every region  *)
(* that was there, and a header only if one was there.                     *)
LEMMA PushKeeps ==
  ASSUME DiskTypeOK, AllPlaced
  PROVE  /\ Pushed \subseteq Piece
         /\ \A p \in Pushed : Placed(p)
         /\ \A p \in Pushed : p \in image \/ (buffer # Unwritten /\ p = buffer)
         /\ \A k \in 0 .. MAX_REGIONS - 1 : TheRegion(k) \in image \cup {buffer} => TheRegion(k) \in Pushed
<1>1. image \subseteq Piece /\ buffer \in Piece \cup {Unwritten}
  BY DEF DiskTypeOK
<1>2. \A p \in image : Placed(p)
  BY DEF AllPlaced
<1>3. CASE buffer = Unwritten
  <2>1. Pushed = image
    BY <1>3 DEF Pushed
  <2>. QED
    BY <2>1, <1>1, <1>2, <1>3, RegionIsPiece
<1>4. CASE buffer # Unwritten
  <2>1. buffer \in Piece /\ Placed(buffer)
    BY <1>1, <1>4 DEF AllPlaced
  <2>2. Pushed = {q \in image : Apart(buffer, q)} \cup {buffer} \/ Pushed = {q \in image : Apart(q, buffer)} \cup {buffer}
    BY <1>4 DEF Pushed, Over, Apart
  <2>3. \A q : Apart(buffer, q) <=> Apart(q, buffer)
    BY DEF Apart
  <2>4. ASSUME NEW k \in 0 .. MAX_REGIONS - 1, TheRegion(k) \in image \cup {buffer}
        PROVE  TheRegion(k) \in Pushed
    BY <2>1, <2>2, <2>3, <2>4, RegionsApart
  <2>. QED
    BY <1>1, <1>2, <1>4, <2>1, <2>2, <2>4
<1>. QED
  BY <1>3, <1>4

(* The count of failures, in its bounds.                                   *)
LEMMA FailuresCount ==
  /\ 0 \in 0 .. MaxFailures
  /\ \A f \in 0 .. MaxFailures : f \in Nat /\ (f < MaxFailures => f + 1 \in 0 .. MaxFailures)
<1>1. MaxFailures \in Nat
  BY DiskAssumption
<1>. QED
  BY <1>1, SMT

(* Whatever is pushed was in the image or in the buffer.                   *)
LEMMA PushIsOld == Pushed \subseteq image \cup ({buffer} \ {Unwritten})
BY DEF Pushed, Over

(* Without a failure a write is what it should be.                         *)
LEMMA WriteWorks ==
  ASSUME failures = 0, failures' = 0
  PROVE  /\ ~PushFails
         /\ \A what, pos, size :
              Write(what, pos, size) =>
                image' = Pushed
                /\ buffer' = IF size = 0 THEN Unwritten ELSE [what |-> what, pos |-> pos, size |-> size]
<1>1. ~PushFails
  BY DEF PushFails
<1>. QED
  BY <1>1 DEF Write, PushWorks, Buffer

(* A write leaves pieces in their places and keeps the regions.            *)
LEMMA WriteKeeps ==
  ASSUME DiskTypeOK, AllPlaced, NEW what, NEW pos, NEW size, Write(what, pos, size),
         failures = 0, failures' = 0,
         what \in Content, pos \in Nat, size \in Nat, Placed([what |-> what, pos |-> pos, size |-> size])
  PROVE  /\ image' = Pushed /\ image' \subseteq Piece /\ buffer' \in Piece \cup {Unwritten}
         /\ AllPlaced'
         /\ buffer' # Unwritten => buffer'.what = what
         /\ size # 0 => buffer' = [what |-> what, pos |-> pos, size |-> size] /\ buffer' # Unwritten
         /\ \A k \in 0 .. MAX_REGIONS - 1 : TheRegion(k) \in image \cup {buffer} => TheRegion(k) \in image'
<1> DEFINE p == [what |-> what, pos |-> pos, size |-> size]
<1>1. image' = Pushed /\ buffer' = IF size = 0 THEN Unwritten ELSE p
  BY WriteWorks
<1>2. p \in Piece /\ p # Unwritten /\ p.what = what
  BY UnwrittenAssumption DEF Piece
<1>3. AllPlaced'
  <2>1. \A q \in image' : Placed(q)
    BY <1>1, PushKeeps
  <2>2. buffer' # Unwritten => Placed(buffer')
    BY <1>1
  <2>. QED
    BY <2>1, <2>2 DEF AllPlaced, Placed
<1>. QED
  BY <1>1, <1>2, <1>3, PushKeeps

(* Before the file is closed no header is pushed into the image.           *)
LEMMA NoHeaderYet ==
  ASSUME DiskInv, pc \notin {"close", "done", "killed"}
  PROVE  \A p \in Pushed : p.what[1] # "header"
<1>1. \A p \in Pushed : p \in image \/ (buffer # Unwritten /\ p = buffer)
  BY PushKeeps DEF DiskInv
<1>2. \A p \in image : p.what[1] # "header"
  BY DEF DiskInv, HeaderLast, Written
<1>3. buffer # Unwritten => buffer.what[1] # "header"
  BY DEF DiskInv, HeaderLast
<1>. QED
  BY <1>1, <1>2, <1>3

(* What every step that writes a piece other than the header keeps.        *)
LEMMA PieceWritten ==
  ASSUME DiskInv, pc \notin {"close", "done", "failed", "killed", "start"},
         NEW what, NEW pos, NEW size, Write(what, pos, size), failures = 0, failures' = 0,
         what \in Content, pos \in Nat, size \in Nat, Placed([what |-> what, pos |-> pos, size |-> size]),
         what[1] # "header", pc' # "close"
  PROVE  /\ image' \subseteq Piece /\ buffer' \in Piece \cup {Unwritten}
         /\ \A p \in image' : p.what[1] = "region" => p.what[2] < MAX_REGIONS
         /\ AllPlaced' /\ HeaderLast'
         /\ size # 0 => buffer' = [what |-> what, pos |-> pos, size |-> size]
         /\ \A k \in 0 .. MAX_REGIONS - 1 : TheRegion(k) \in image \cup {buffer} => TheRegion(k) \in image'
<1>1. DiskTypeOK /\ AllPlaced
  BY DEF DiskInv
<1>2. /\ image' = Pushed /\ image' \subseteq Piece /\ buffer' \in Piece \cup {Unwritten}
      /\ AllPlaced'
      /\ buffer' # Unwritten => buffer'.what = what
      /\ size # 0 => buffer' = [what |-> what, pos |-> pos, size |-> size]
      /\ \A k \in 0 .. MAX_REGIONS - 1 : TheRegion(k) \in image \cup {buffer} => TheRegion(k) \in image'
  BY <1>1, WriteKeeps
<1>3. \A p \in image' : p.what[1] = "region" => p.what[2] < MAX_REGIONS
  BY <1>2 DEF AllPlaced, Placed
<1>4. Written("header")' = {}
  BY <1>2, NoHeaderYet DEF Written
<1>5. HeaderLast'
  BY <1>2, <1>4 DEF HeaderLast
<1>. QED
  BY <1>2, <1>3, <1>5

(* dbfmt starts with an image that has the old header only, and nothing    *)
(* buffered.                                                               *)
LEMMA DiskInitInv == DiskInit => FileInv /\ DiskInv
<1> SUFFICES ASSUME DiskInit PROVE FileInv /\ DiskInv
  OBVIOUS
<1> DEFINE h == [what |-> <<"old header", 0>>, pos |-> HEADER_POS, size |-> SectorSize]
<1>1. /\ files \in CommandLines /\ pc = "start" /\ i = 0 /\ next_data_pos = 0
      /\ image = {h} /\ buffer = Unwritten /\ failures \in 0 .. MaxFailures
  BY FailuresCount DEF DiskInit
<1>2. h \in Piece /\ h.what[1] = "old header" /\ Placed(h)
  <2>1. <<"old header", 0>> \in Content /\ HEADER_POS \in Nat /\ SectorSize \in Nat
    BY Contents, DiskNumbers
  <2>2. h \in Piece
    BY <2>1 DEF Piece
  <2>3. h.what[1] = "old header" /\ h.pos + h.size <= REGIONS_POS
    BY DiskNumbers
  <2>. QED
    BY <2>2, <2>3 DEF Placed
<1>3. Len(files) \in Nat
  BY <1>1, CommandLine
<1>4. 0 \in 0 .. Len(files) + MAX_REGIONS + MAX_BACKUPS + MAX_NODES
  BY <1>3, DiskNumbers, SMT
<1>5. DiskTypeOK
  BY <1>1, <1>2, <1>4 DEF DiskTypeOK
<1>6. InLoop /\ RegionsKept
  BY <1>1 DEF InLoop, RegionsKept
<1>7. AllPlaced
  BY <1>1, <1>2 DEF AllPlaced
<1>8. HeaderLast
  BY <1>1, <1>2 DEF HeaderLast, Written
<1>9. OldOrNew
  BY <1>1 DEF OldOrNew, OldHeader
<1>. QED
  BY <1>5, <1>6, <1>7, <1>8, <1>9 DEF DiskInv, FileInv

(* A loop of n turns.                                                      *)
LEMMA LoopTurns ==
  ASSUME NEW n \in Nat, i \in Nat, i < n, NEW after, Loop(n, after)
  PROVE  \/ i + 1 < n /\ i' = i + 1 /\ pc' = pc
         \/ i + 1 = n /\ i' = 0 /\ pc' = after
BY DEF Loop, Last

(* A piece that a write pushes, or puts into the buffer, is a piece, and a *)
(* new one, whether the write fails or not.                                *)
LEMMA WriteTyped ==
  ASSUME DiskTypeOK, OldOrNew, pc \notin {"start", "failed"},
         NEW what, NEW pos, NEW size, Write(what, pos, size),
         what \in Content, pos \in Nat, size \in Nat,
         what[1] # "old header", what[1] = "region" => what[2] < MAX_REGIONS
  PROVE  /\ image' \subseteq Piece /\ buffer' \in Piece \cup {Unwritten}
         /\ failures' \in 0 .. MaxFailures
         /\ \A p \in image' : IsNew(p)
         /\ buffer' # Unwritten => IsNew(buffer)'
<1>1. /\ image \subseteq Piece /\ buffer \in Piece \cup {Unwritten} /\ failures \in 0 .. MaxFailures
      /\ \A p \in image : IsNew(p)
      /\ buffer # Unwritten => IsNew(buffer) /\ buffer.pos \in Nat
  BY DEF DiskTypeOK, OldOrNew, Piece
<1>2. /\ image' = Pushed \/ image' = image
      /\ failures' = failures \/ (failures < MaxFailures /\ failures' = failures + 1)
  BY DEF Write, PushWorks, PushFails
<1>3. image' \subseteq image \cup ({buffer} \ {Unwritten})
  BY <1>2, PushIsOld
<1>4. failures' \in 0 .. MaxFailures
  BY <1>1, <1>2, FailuresCount
<1>5. PICK at \in Nat : buffer' = IF size = 0 THEN Unwritten ELSE [what |-> what, pos |-> at, size |-> size]
  <2>1. CASE Buffer(what, pos, size)
    BY <2>1 DEF Buffer
  <2>2. CASE PushFails /\ Buffer(what, buffer.pos, size)
    BY <2>2, <1>1 DEF Buffer, PushFails
  <2>. QED
    BY <2>1, <2>2 DEF Write
<1>6. [what |-> what, pos |-> at, size |-> size] \in Piece
  BY DEF Piece
<1>7. buffer' \in Piece \cup {Unwritten} /\ (buffer' # Unwritten => buffer'.what = what)
  BY <1>5, <1>6
<1>8. buffer' # Unwritten => IsNew(buffer)'
  BY <1>7 DEF IsNew
<1>. QED
  BY <1>1, <1>3, <1>4, <1>7, <1>8

(* What holds of the file whatever fails is inductive.                     *)
LEMMA FileStepInv == FileInv /\ [DiskNext]_dvars => FileInv'
<1> SUFFICES ASSUME FileInv, [DiskNext]_dvars PROVE FileInv'
  OBVIOUS
<1>1. DiskTypeOK /\ InLoop /\ OldOrNew
  BY DEF FileInv
<1>2. /\ files \in CommandLines /\ files \in Seq(Nat) /\ Len(files) \in Nat
      /\ i \in 0 .. Len(files) + MAX_REGIONS + MAX_BACKUPS + MAX_NODES /\ i \in Nat /\ next_data_pos \in Nat
      /\ image \subseteq Piece /\ buffer \in Piece \cup {Unwritten} /\ failures \in 0 .. MaxFailures
  <2>1. /\ files \in CommandLines /\ i \in 0 .. Len(files) + MAX_REGIONS + MAX_BACKUPS + MAX_NODES
        /\ next_data_pos \in Nat /\ image \subseteq Piece /\ buffer \in Piece \cup {Unwritten}
        /\ failures \in 0 .. MaxFailures
    BY <1>1 DEF DiskTypeOK
  <2>2. files \in Seq(Nat) /\ Len(files) \in Nat
    BY <2>1, CommandLine
  <2>3. i \in Nat
    BY <2>1
  <2>. QED
    BY <2>1, <2>2, <2>3
<1> DEFINE bound == Len(files) + MAX_REGIONS + MAX_BACKUPS + MAX_NODES
<1>3. \A n \in Nat : n < Len(files) \/ n < MAX_REGIONS \/ n < MAX_BACKUPS \/ n < MAX_NODES \/ n = 0
                     \/ n = Len(files)
        => n \in 0 .. bound
  BY <1>2, DiskNumbers, SMT
<1> HIDE DEF FileInv
<1>4. CASE Usage
  <2>1. pc' = "failed" /\ UNCHANGED <<files, i, next_data_pos, image, buffer, failures>> /\ pc = "start"
    BY <1>4 DEF Usage
  <2>2. DiskTypeOK' /\ InLoop' /\ OldOrNew'
    BY <1>1, <2>1 DEF DiskTypeOK, InLoop, OldOrNew
  <2>. QED
    BY <2>2 DEF FileInv
<1>5. CASE Open
  <2>1. /\ pc' = "regions" /\ image' = {} /\ UNCHANGED <<files, i, next_data_pos, buffer, failures>>
        /\ pc = "start" /\ i = 0 /\ buffer = Unwritten
    BY <1>5, <1>1 DEF Open, Truncated, InLoop, OldOrNew
  <2>2. DiskTypeOK' /\ InLoop' /\ OldOrNew'
    BY <1>1, <2>1, DiskNumbers DEF DiskTypeOK, InLoop, OldOrNew
  <2>. QED
    BY <2>2 DEF FileInv
<1>6. CASE WriteRegion
  <2> DEFINE what == <<"region", i>>
             pos  == REGIONS_POS + RegionSize * i
  <2>1. /\ pc = "regions" /\ i < MAX_REGIONS /\ Write(what, pos, RegionSize)
        /\ Loop(MAX_REGIONS, "backups") /\ UNCHANGED <<files, next_data_pos>>
    BY <1>6, <1>1 DEF WriteRegion, InLoop
  <2>2. \/ i + 1 < MAX_REGIONS /\ i' = i + 1 /\ pc' = "regions"
        \/ i + 1 = MAX_REGIONS /\ i' = 0 /\ pc' = "backups"
    BY <2>1, <1>2, LoopTurns, DiskNumbers
  <2>3. what \in Content /\ pos \in Nat /\ RegionSize \in Nat
    <3>1. what \in Content
      BY <1>2, Contents
    <3>2. pos \in Nat /\ RegionSize \in Nat
      BY <1>2, DiskNumbers
    <3>. QED
      BY <3>1, <3>2
  <2>4. what[1] # "old header" /\ (what[1] = "region" => what[2] < MAX_REGIONS)
    BY <2>1
  <2>5. /\ image' \subseteq Piece /\ buffer' \in Piece \cup {Unwritten}
        /\ failures' \in 0 .. MaxFailures
        /\ \A p \in image' : IsNew(p)
        /\ buffer' # Unwritten => IsNew(buffer)'
    <3> HIDE DEF what, pos
    <3>. QED
      BY <1>1, <2>1, <2>3, <2>4, WriteTyped
  <2>6. i' \in 0 .. bound
    <3>1. \A m \in Nat : m < MAX_REGIONS => m \in 0 .. bound
      BY <1>3
    <3> HIDE DEF bound
    <3>2. i' \in Nat /\ i' < MAX_REGIONS
      <4>1. CASE i + 1 < MAX_REGIONS /\ i' = i + 1
        BY <4>1, <1>2
      <4>2. CASE i' = 0
        BY <4>2, LoopsEnter
      <4>. QED
        BY <2>2, <4>1, <4>2
    <3>. QED
      BY <3>1, <3>2
  <2>7. DiskTypeOK' /\ InLoop' /\ OldOrNew'
    BY <2>1, <2>2, <2>5, <2>6, <1>2, LoopsEnter DEF DiskTypeOK, InLoop, OldOrNew, IsNew
  <2>. QED
    BY <2>7 DEF FileInv
<1>7. CASE WriteBackup
  <2> DEFINE what == <<"backup", i>>
             pos  == BACKUPS_POS + BackupSize * i
  <2>1. /\ pc = "backups" /\ i < MAX_BACKUPS /\ Write(what, pos, BackupSize)
        /\ Loop(MAX_BACKUPS, AfterBackups) /\ UNCHANGED <<files, next_data_pos>>
    BY <1>7, <1>1 DEF WriteBackup, InLoop
  <2>2. /\ \/ i + 1 < MAX_BACKUPS /\ i' = i + 1 /\ pc' = "backups"
           \/ i + 1 = MAX_BACKUPS /\ i' = 0 /\ pc' = AfterBackups
        /\ \/ AfterBackups = "node" /\ Len(files) > 0
           \/ AfterBackups = "null nodes"
    <3>1. \/ i + 1 < MAX_BACKUPS /\ i' = i + 1 /\ pc' = "backups"
          \/ i + 1 = MAX_BACKUPS /\ i' = 0 /\ pc' = AfterBackups
      BY <2>1, <1>2, LoopTurns, DiskNumbers
    <3>2. \/ AfterBackups = "node" /\ Len(files) > 0
          \/ AfterBackups = "null nodes"
      BY <1>2 DEF AfterBackups
    <3>. QED
      BY <3>1, <3>2
  <2>3. what \in Content /\ pos \in Nat /\ BackupSize \in Nat
    <3>1. what \in Content
      BY <1>2, Contents
    <3>2. pos \in Nat /\ BackupSize \in Nat
      BY <1>2, DiskNumbers
    <3>. QED
      BY <3>1, <3>2
  <2>4. what[1] # "old header" /\ what[1] # "region"
    OBVIOUS
  <2>5. /\ image' \subseteq Piece /\ buffer' \in Piece \cup {Unwritten}
        /\ failures' \in 0 .. MaxFailures
        /\ \A p \in image' : IsNew(p)
        /\ buffer' # Unwritten => IsNew(buffer)'
    <3> HIDE DEF what, pos
    <3>. QED
      BY <1>1, <2>1, <2>3, <2>4, WriteTyped
  <2>6. i' \in 0 .. bound
    <3>1. \A m \in Nat : m < MAX_BACKUPS => m \in 0 .. bound
      BY <1>3
    <3> HIDE DEF bound
    <3>2. i' \in Nat /\ i' < MAX_BACKUPS
      <4>1. CASE i + 1 < MAX_BACKUPS /\ i' = i + 1
        BY <4>1, <1>2
      <4>2. CASE i' = 0
        BY <4>2, LoopsEnter
      <4>. QED
        BY <2>2, <4>1, <4>2
    <3>. QED
      BY <3>1, <3>2
  <2>7. DiskTypeOK' /\ InLoop' /\ OldOrNew'
    BY <2>1, <2>2, <2>5, <2>6, <1>2, LoopsEnter DEF DiskTypeOK, InLoop, OldOrNew, IsNew
  <2>. QED
    BY <2>7 DEF FileInv
<1>8. CASE WriteNode
  <2> DEFINE what == <<"FILE", 0>>
             pos  == NODES_POS + NodeSize * i
  <2>1. /\ pc = "node" /\ Write(what, pos, NodeSize) /\ pc' = "data"
        /\ UNCHANGED <<files, i, next_data_pos>>
    BY <1>8 DEF WriteNode
  <2>3. what \in Content /\ pos \in Nat /\ NodeSize \in Nat
    <3>1. what \in Content
      BY <1>2, Contents
    <3>2. pos \in Nat /\ NodeSize \in Nat
      BY <1>2, DiskNumbers
    <3>. QED
      BY <3>1, <3>2
  <2>4. what[1] # "old header" /\ what[1] # "region"
    OBVIOUS
  <2>5. /\ image' \subseteq Piece /\ buffer' \in Piece \cup {Unwritten}
        /\ failures' \in 0 .. MaxFailures
        /\ \A p \in image' : IsNew(p)
        /\ buffer' # Unwritten => IsNew(buffer)'
    <3> HIDE DEF what, pos
    <3>. QED
      BY <1>1, <2>1, <2>3, <2>4, WriteTyped
  <2>7. DiskTypeOK' /\ InLoop' /\ OldOrNew'
    BY <1>1, <2>1, <2>5, <1>2 DEF DiskTypeOK, InLoop, OldOrNew, IsNew
  <2>. QED
    BY <2>7 DEF FileInv
<1>9. CASE WriteData
  <2> DEFINE what == <<"data", i>>
             pos  == DATA_POS + next_data_pos
             size == files[i + 1]
  <2>1. /\ pc = "data" /\ i < Len(files) /\ Write(what, pos, size)
        /\ next_data_pos' = next_data_pos + size /\ i' = i + 1 /\ files' = files
        /\ \/ i' < Len(files) /\ pc' = "node"
           \/ i' < MAX_NODES /\ pc' = "null nodes"
           \/ pc' = "header"
    BY <1>9, <1>1 DEF WriteData, InLoop
  <2>2. size \in Nat
    <3> DEFINE n == Len(files)
    <3>1. i \in Nat /\ n \in Nat /\ i < n
      BY <2>1, <1>2
    <3> HIDE DEF n
    <3>2. i + 1 \in 1 .. n
      BY <3>1, SMT
    <3> USE DEF n
    <3>. QED
      BY <3>2, <1>2
  <2>3. what \in Content /\ pos \in Nat
    <3>1. what \in Content
      BY <1>2, Contents
    <3>2. pos \in Nat
      BY <1>2, DiskNumbers
    <3>. QED
      BY <3>1, <3>2
  <2>4. what[1] # "old header" /\ what[1] # "region"
    OBVIOUS
  <2>5. /\ image' \subseteq Piece /\ buffer' \in Piece \cup {Unwritten}
        /\ failures' \in 0 .. MaxFailures
        /\ \A p \in image' : IsNew(p)
        /\ buffer' # Unwritten => IsNew(buffer)'
    <3> HIDE DEF what, pos, size
    <3>. QED
      BY <1>1, <2>1, <2>2, <2>3, <2>4, WriteTyped
  <2>6. i' \in 0 .. bound /\ next_data_pos' \in Nat
    <3> DEFINE n == Len(files)
    <3>1. i \in Nat /\ n \in Nat /\ i < n /\ i' = i + 1 /\ next_data_pos' = next_data_pos + size
      BY <2>1, <1>2
    <3>2. \A m \in Nat : m < n \/ m = n => m \in 0 .. bound
      BY <1>3
    <3> HIDE DEF size, n, bound
    <3>3. i' \in Nat /\ (i' < n \/ i' = n)
      BY <3>1, SMT
    <3>4. next_data_pos' \in Nat
      BY <3>1, <2>2, <1>2
    <3>. QED
      BY <3>2, <3>3, <3>4
  <2>7. DiskTypeOK' /\ InLoop' /\ OldOrNew'
    BY <2>1, <2>5, <2>6, <1>2 DEF DiskTypeOK, InLoop, OldOrNew, IsNew
  <2>. QED
    BY <2>7 DEF FileInv
<1>10. CASE WriteNullNode
  <2> DEFINE what == <<"FILE", 0>>
             pos  == NODES_POS + NodeSize * i
  <2>1. /\ pc = "null nodes" /\ i < MAX_NODES /\ Write(what, pos, NodeSize)
        /\ Loop(MAX_NODES, "header") /\ UNCHANGED <<files, next_data_pos>>
    BY <1>10, <1>1 DEF WriteNullNode, InLoop
  <2>2. \/ i + 1 < MAX_NODES /\ i' = i + 1 /\ pc' = "null nodes"
        \/ i + 1 = MAX_NODES /\ i' = 0 /\ pc' = "header"
    BY <2>1, <1>2, LoopTurns, DiskNumbers
  <2>3. what \in Content /\ pos \in Nat /\ NodeSize \in Nat
    <3>1. what \in Content
      BY <1>2, Contents
    <3>2. pos \in Nat /\ NodeSize \in Nat
      BY <1>2, DiskNumbers
    <3>. QED
      BY <3>1, <3>2
  <2>4. what[1] # "old header" /\ what[1] # "region"
    OBVIOUS
  <2>5. /\ image' \subseteq Piece /\ buffer' \in Piece \cup {Unwritten}
        /\ failures' \in 0 .. MaxFailures
        /\ \A p \in image' : IsNew(p)
        /\ buffer' # Unwritten => IsNew(buffer)'
    <3> HIDE DEF what, pos
    <3>. QED
      BY <1>1, <2>1, <2>3, <2>4, WriteTyped
  <2>6. i' \in 0 .. bound
    <3>1. \A m \in Nat : m < MAX_NODES => m \in 0 .. bound
      BY <1>3
    <3> HIDE DEF bound
    <3>2. i' \in Nat /\ i' < MAX_NODES
      <4>1. CASE i + 1 < MAX_NODES /\ i' = i + 1
        BY <4>1, <1>2
      <4>2. CASE i' = 0
        BY <4>2, LoopsEnter
      <4>. QED
        BY <2>2, <4>1, <4>2
    <3>. QED
      BY <3>1, <3>2
  <2>7. DiskTypeOK' /\ InLoop' /\ OldOrNew'
    BY <2>1, <2>2, <2>5, <2>6, <1>2, LoopsEnter DEF DiskTypeOK, InLoop, OldOrNew, IsNew
  <2>. QED
    BY <2>7 DEF FileInv
<1>11. CASE WriteHeader
  <2> DEFINE what == <<"header", next_data_pos>>
             pos  == HEADER_POS
  <2>1. /\ pc = "header" /\ Write(what, pos, HeaderSize) /\ pc' = "close"
        /\ UNCHANGED <<files, i, next_data_pos>>
    BY <1>11 DEF WriteHeader
  <2>3. what \in Content /\ pos \in Nat /\ HeaderSize \in Nat
    <3>1. what \in Content
      BY <1>2, Contents
    <3>2. pos \in Nat /\ HeaderSize \in Nat
      BY <1>2, DiskNumbers
    <3>. QED
      BY <3>1, <3>2
  <2>4. what[1] # "old header" /\ what[1] # "region"
    OBVIOUS
  <2>5. /\ image' \subseteq Piece /\ buffer' \in Piece \cup {Unwritten}
        /\ failures' \in 0 .. MaxFailures
        /\ \A p \in image' : IsNew(p)
        /\ buffer' # Unwritten => IsNew(buffer)'
    <3> HIDE DEF what, pos
    <3>. QED
      BY <1>1, <2>1, <2>3, <2>4, WriteTyped
  <2>7. DiskTypeOK' /\ InLoop' /\ OldOrNew'
    BY <2>1, <2>5, <1>2 DEF DiskTypeOK, InLoop, OldOrNew, IsNew
  <2>. QED
    BY <2>7 DEF FileInv
<1>12. ASSUME Close \/ Killed
       PROVE  FileInv'
  <2>1. /\ pc \notin {"start", "failed"} /\ pc' \in {"done", "killed"} /\ buffer' = Unwritten
        /\ image' = image \/ image' = Pushed
        /\ failures' = failures \/ (failures < MaxFailures /\ failures' = failures + 1)
        /\ UNCHANGED <<files, i, next_data_pos>>
    BY <1>12 DEF Close, Killed, PushWorks, PushFails
  <2>2. image' \subseteq image \cup ({buffer} \ {Unwritten})
    BY <2>1, PushIsOld
  <2>3. image' \subseteq Piece /\ \A p \in image' : IsNew(p)
    BY <1>1, <1>2, <2>1, <2>2 DEF OldOrNew
  <2>4. failures' \in 0 .. MaxFailures
    BY <1>2, <2>1, FailuresCount
  <2>5. DiskTypeOK' /\ InLoop' /\ OldOrNew'
    BY <2>1, <2>3, <2>4, <1>2 DEF DiskTypeOK, InLoop, OldOrNew, IsNew
  <2>. QED
    BY <2>5 DEF FileInv
<1>13. CASE UNCHANGED dvars
  BY ZenonT(30), <1>1, <1>13 DEF FileInv, dvars, DiskTypeOK, InLoop, OldOrNew, IsNew
<1>. QED
  BY <1>4, <1>5, <1>6, <1>7, <1>8, <1>9, <1>10, <1>11, <1>12, <1>13 DEF DiskNext

(* As long as no write fails, the formatter's invariant is inductive.      *)
LEMMA DiskStepInv == FileInv /\ DiskInv /\ failures = 0 /\ failures' = 0 /\ [DiskNext]_dvars => DiskInv'
<1> SUFFICES ASSUME FileInv, DiskInv, failures = 0, failures' = 0, [DiskNext]_dvars PROVE DiskInv'
  OBVIOUS
<1>0. DiskTypeOK' /\ InLoop'
  BY FileStepInv DEF FileInv
<1>1. DiskTypeOK /\ InLoop /\ AllPlaced /\ RegionsKept /\ HeaderLast
  BY DEF DiskInv
<1>2. /\ files \in CommandLines /\ files \in Seq(Nat) /\ Len(files) \in Nat
      /\ i \in 0 .. Len(files) + MAX_REGIONS + MAX_BACKUPS + MAX_NODES /\ i \in Nat /\ next_data_pos \in Nat
      /\ image \subseteq Piece /\ buffer \in Piece \cup {Unwritten}
  <2>1. files \in CommandLines /\ i \in 0 .. Len(files) + MAX_REGIONS + MAX_BACKUPS + MAX_NODES
        /\ next_data_pos \in Nat /\ image \subseteq Piece /\ buffer \in Piece \cup {Unwritten}
    BY <1>1 DEF DiskTypeOK
  <2>2. files \in Seq(Nat) /\ Len(files) \in Nat
    BY <2>1, CommandLine
  <2>3. i \in Nat
    BY <2>1
  <2>. QED
    BY <2>1, <2>2, <2>3
<1> HIDE DEF DiskInv
<1>4. CASE Usage
  <2>1. pc' = "failed" /\ UNCHANGED <<files, i, next_data_pos, image, buffer>> /\ pc = "start"
    BY <1>4 DEF Usage
  <2>2. AllPlaced' /\ RegionsKept' /\ HeaderLast'
    BY <1>1, <2>1 DEF AllPlaced, Placed, RegionsKept, HeaderLast, Written
  <2>. QED
    BY <1>0, <2>2 DEF DiskInv
<1>5. CASE Open
  <2>1. pc' = "regions" /\ image' = {} /\ UNCHANGED <<files, i, next_data_pos, buffer>> /\ pc = "start" /\ i = 0
    BY <1>5, <1>1 DEF Open, Truncated, InLoop
  <2>3. AllPlaced' /\ HeaderLast'
    BY <1>1, <2>1 DEF AllPlaced, Placed, HeaderLast, Written
  <2>4. RegionsKept'
    BY <2>1, <1>2 DEF RegionsKept
  <2>. QED
    BY <1>0, <2>3, <2>4 DEF DiskInv
<1>6. CASE WriteRegion
  <2> DEFINE what == <<"region", i>>
             pos  == REGIONS_POS + RegionSize * i
  <2>1. /\ pc = "regions" /\ i < MAX_REGIONS /\ Write(what, pos, RegionSize)
        /\ Loop(MAX_REGIONS, "backups") /\ UNCHANGED <<files, next_data_pos>>
    BY <1>6, <1>1 DEF WriteRegion, InLoop
  <2>2. \/ i + 1 < MAX_REGIONS /\ i' = i + 1 /\ pc' = "regions"
        \/ i + 1 = MAX_REGIONS /\ i' = 0 /\ pc' = "backups"
    BY <2>1, <1>2, LoopTurns, DiskNumbers
  <2>3. i \in 0 .. MAX_REGIONS - 1
    BY <2>1, <1>2, DiskNumbers
  <2>4. TheRegion(i) = [what |-> what, pos |-> pos, size |-> RegionSize]
    BY DEF TheRegion
  <2>5. what \in Content /\ pos \in Nat /\ RegionSize \in Nat /\ RegionSize # 0 /\ what[1] = "region"
    <3>1. what \in Content
      BY <1>2, Contents
    <3>2. pos \in Nat /\ RegionSize \in Nat /\ RegionSize # 0
      BY <1>2, DiskNumbers
    <3>. QED
      BY <3>1, <3>2
  <2>6. /\ image' \subseteq Piece /\ buffer' \in Piece \cup {Unwritten}
        /\ \A p \in image' : p.what[1] = "region" => p.what[2] < MAX_REGIONS
        /\ AllPlaced' /\ HeaderLast'
        /\ buffer' = TheRegion(i)
        /\ \A k \in 0 .. MAX_REGIONS - 1 : TheRegion(k) \in image \cup {buffer} => TheRegion(k) \in image'
    <3>1. Placed([what |-> what, pos |-> pos, size |-> RegionSize])
      BY <2>3, <2>4, RegionIsPiece
    <3> HIDE DEF what, pos
    <3>. QED
      BY <2>1, <2>2, <2>4, <2>5, <3>1, PieceWritten
  <2>7. RegionsKept'
    <3> SUFFICES ASSUME NEW k \in 0 .. MAX_REGIONS - 1, pc' = "regions" => k < i'
                 PROVE  TheRegion(k) \in image' \cup {buffer'}
      BY DEF RegionsKept, TheRegion
    <3>1. k < i \/ k = i
      BY <2>2, <1>2, DiskNumbers
    <3>. QED
      BY <3>1, <2>6, <2>1, <1>1 DEF RegionsKept
  <2>. QED
    BY <1>0, <2>6, <2>7 DEF DiskInv
<1>7. CASE WriteBackup
  <2> DEFINE what == <<"backup", i>>
             pos  == BACKUPS_POS + BackupSize * i
  <2>1. /\ pc = "backups" /\ i < MAX_BACKUPS /\ Write(what, pos, BackupSize)
        /\ Loop(MAX_BACKUPS, AfterBackups) /\ UNCHANGED <<files, next_data_pos>>
    BY <1>7, <1>1 DEF WriteBackup, InLoop
  <2>2. \/ i + 1 < MAX_BACKUPS /\ i' = i + 1 /\ pc' = "backups"
        \/ i + 1 = MAX_BACKUPS /\ i' = 0 /\ pc' = AfterBackups
    BY <2>1, <1>2, LoopTurns, DiskNumbers
  <2>3. \/ AfterBackups = "node" /\ Len(files) > 0
        \/ AfterBackups = "null nodes"
    BY <1>2 DEF AfterBackups
  <2>4. what \in Content /\ pos \in Nat /\ BackupSize \in Nat /\ what[1] = "backup"
    <3>1. what \in Content
      BY <1>2, Contents
    <3>2. pos \in Nat /\ BackupSize \in Nat
      BY <1>2, DiskNumbers
    <3>. QED
      BY <3>1, <3>2
  <2>5. Placed([what |-> what, pos |-> pos, size |-> BackupSize])
    <3>1. BACKUPS_POS <= pos /\ pos + BackupSize <= NODES_POS
      BY <2>1, <1>2, DiskNumbers, SMT
    <3>. QED
      BY <3>1 DEF Placed
  <2>6. /\ image' \subseteq Piece /\ buffer' \in Piece \cup {Unwritten}
        /\ \A p \in image' : p.what[1] = "region" => p.what[2] < MAX_REGIONS
        /\ AllPlaced' /\ HeaderLast'
        /\ \A k \in 0 .. MAX_REGIONS - 1 : TheRegion(k) \in image \cup {buffer} => TheRegion(k) \in image'
    <3> HIDE DEF what, pos
    <3>. QED
      BY <2>1, <2>2, <2>3, <2>4, <2>5, PieceWritten
  <2>7. RegionsKept'
    BY <1>1, <2>1, <2>2, <2>3, <2>6 DEF RegionsKept, TheRegion
  <2>. QED
    BY <1>0, <2>6, <2>7 DEF DiskInv
<1>8. CASE WriteNode
  <2> DEFINE what == <<"FILE", 0>>
             pos  == NODES_POS + NodeSize * i
  <2>1. /\ pc = "node" /\ Write(what, pos, NodeSize) /\ UNCHANGED <<files, next_data_pos>>
    BY <1>8 DEF WriteNode
  <2>2. pc' = "data" /\ i' = i
    BY <1>8 DEF WriteNode
  <2>4. what \in Content /\ pos \in Nat /\ NodeSize \in Nat /\ what[1] = "FILE"
    <3>1. what \in Content
      BY Contents
    <3>2. pos \in Nat /\ NodeSize \in Nat
      BY <1>2, DiskNumbers
    <3>. QED
      BY <3>1, <3>2
  <2>5. Placed([what |-> what, pos |-> pos, size |-> NodeSize])
    <3>1. NODES_POS <= pos
      BY <1>2, DiskNumbers, SMT
    <3>. QED
      BY <3>1 DEF Placed
  <2>6. /\ image' \subseteq Piece /\ buffer' \in Piece \cup {Unwritten}
        /\ \A p \in image' : p.what[1] = "region" => p.what[2] < MAX_REGIONS
        /\ AllPlaced' /\ HeaderLast'
        /\ \A k \in 0 .. MAX_REGIONS - 1 : TheRegion(k) \in image \cup {buffer} => TheRegion(k) \in image'
    <3> HIDE DEF what, pos
    <3>. QED
      BY <2>1, <2>2, <2>4, <2>5, PieceWritten
  <2>7. RegionsKept'
    BY <1>1, <2>1, <2>2, <2>6 DEF RegionsKept, TheRegion
  <2>. QED
    BY <1>0, <2>6, <2>7 DEF DiskInv
<1>9. CASE WriteData
  <2> DEFINE what == <<"data", i>>
             pos  == DATA_POS + next_data_pos
             size == files[i + 1]
  <2>1. /\ pc = "data" /\ i < Len(files) /\ Write(what, pos, size)
        /\ next_data_pos' = next_data_pos + size /\ i' = i + 1 /\ files' = files
        /\ pc' = IF i' < Len(files) THEN "node" ELSE IF i' < MAX_NODES THEN "null nodes" ELSE "header"
    BY <1>9, <1>1 DEF WriteData, InLoop
  <2>2. \/ i' < Len(files) /\ pc' = "node"
        \/ i' < MAX_NODES /\ pc' = "null nodes"
        \/ pc' = "header"
    BY <2>1
  <2>3. size \in Nat
    <3> DEFINE n == Len(files)
    <3>0. i \in Nat /\ n \in Nat /\ i < n
      BY <2>1, <1>2
    <3> HIDE DEF n
    <3>1. i + 1 \in 1 .. n
      BY <3>0, SMT
    <3> USE DEF n
    <3>. QED
      BY <3>1, <1>2
  <2>4. what \in Content /\ pos \in Nat /\ what[1] = "data"
    <3>1. what \in Content
      BY <1>2, Contents
    <3>2. pos \in Nat
      BY <1>2, DiskNumbers
    <3>. QED
      BY <3>1, <3>2
  <2>5. Placed([what |-> what, pos |-> pos, size |-> size])
    <3>1. NODES_POS <= pos
      BY <1>2, DiskNumbers, SMT
    <3>. QED
      BY <3>1 DEF Placed
  <2>6. /\ image' \subseteq Piece /\ buffer' \in Piece \cup {Unwritten}
        /\ \A p \in image' : p.what[1] = "region" => p.what[2] < MAX_REGIONS
        /\ AllPlaced' /\ HeaderLast'
        /\ \A k \in 0 .. MAX_REGIONS - 1 : TheRegion(k) \in image \cup {buffer} => TheRegion(k) \in image'
    <3> HIDE DEF what, pos, size
    <3>. QED
      BY <2>1, <2>2, <2>3, <2>4, <2>5, PieceWritten
  <2>7. RegionsKept'
    BY <1>1, <2>1, <2>2, <2>6 DEF RegionsKept, TheRegion
  <2>. QED
    BY <1>0, <2>6, <2>7 DEF DiskInv
<1>10. CASE WriteNullNode
  <2> DEFINE what == <<"FILE", 0>>
             pos  == NODES_POS + NodeSize * i
  <2>1. /\ pc = "null nodes" /\ Write(what, pos, NodeSize) /\ UNCHANGED <<files, next_data_pos>>
    BY <1>10 DEF WriteNullNode
  <2>3. i < MAX_NODES /\ Loop(MAX_NODES, "header")
    BY <2>1, <1>1, <1>10 DEF WriteNullNode, InLoop
  <2>2. \/ i + 1 < MAX_NODES /\ i' = i + 1 /\ pc' = "null nodes"
        \/ i + 1 = MAX_NODES /\ i' = 0 /\ pc' = "header"
    BY <2>1, <2>3, <1>2, LoopTurns, DiskNumbers
  <2>4. what \in Content /\ pos \in Nat /\ NodeSize \in Nat /\ what[1] = "FILE"
    <3>1. what \in Content
      BY Contents
    <3>2. pos \in Nat /\ NodeSize \in Nat
      BY <1>2, DiskNumbers
    <3>. QED
      BY <3>1, <3>2
  <2>5. Placed([what |-> what, pos |-> pos, size |-> NodeSize])
    <3>1. NODES_POS <= pos
      BY <1>2, DiskNumbers, SMT
    <3>. QED
      BY <3>1 DEF Placed
  <2>6. /\ image' \subseteq Piece /\ buffer' \in Piece \cup {Unwritten}
        /\ \A p \in image' : p.what[1] = "region" => p.what[2] < MAX_REGIONS
        /\ AllPlaced' /\ HeaderLast'
        /\ \A k \in 0 .. MAX_REGIONS - 1 : TheRegion(k) \in image \cup {buffer} => TheRegion(k) \in image'
    <3> HIDE DEF what, pos
    <3>. QED
      BY <2>1, <2>2, <2>4, <2>5, PieceWritten
  <2>7. RegionsKept'
    BY <1>1, <2>1, <2>2, <2>6 DEF RegionsKept, TheRegion
  <2>. QED
    BY <1>0, <2>6, <2>7 DEF DiskInv
<1>11. CASE WriteHeader
  <2> DEFINE what == <<"header", next_data_pos>>
  <2>1. /\ pc = "header" /\ Write(what, HEADER_POS, HeaderSize) /\ pc' = "close"
        /\ UNCHANGED <<files, i, next_data_pos>>
    BY <1>11 DEF WriteHeader
  <2>2. what \in Content /\ HEADER_POS \in Nat /\ HeaderSize \in Nat /\ HeaderSize # 0
    <3>1. what \in Content
      BY <1>2, Contents
    <3>. QED
      BY <3>1, DiskNumbers
  <2>3. what[1] = "header"
    OBVIOUS
  <2>4. Placed([what |-> what, pos |-> HEADER_POS, size |-> HeaderSize])
    <3>1. HEADER_POS + HeaderSize <= REGIONS_POS
      BY DiskNumbers
    <3>. QED
      BY <3>1 DEF Placed
  <2> HIDE DEF what
  <2>5. /\ image' = Pushed /\ image' \subseteq Piece /\ buffer' \in Piece \cup {Unwritten}
        /\ AllPlaced' /\ buffer' # Unwritten /\ buffer'.what = what
        /\ \A k \in 0 .. MAX_REGIONS - 1 : TheRegion(k) \in image \cup {buffer} => TheRegion(k) \in image'
    BY <1>1, <2>1, <2>2, <2>4, WriteKeeps
  <2>6. RegionsKept'
    BY <1>1, <2>1, <2>5 DEF RegionsKept, TheRegion
  <2>7. HeaderLast'
    <3>1. Written("header")' = {}
      BY <2>1, <2>5, NoHeaderYet DEF Written
    <3>. QED
      BY <2>1, <2>3, <2>5, <3>1 DEF HeaderLast
  <2>. QED
    BY <1>0, <2>5, <2>6, <2>7 DEF DiskInv
<1>12. CASE Close
  <2>1. /\ pc = "close" /\ pc' = "done" /\ image' = Pushed /\ buffer' = Unwritten
        /\ UNCHANGED <<files, i, next_data_pos>>
    BY <1>12, WriteWorks DEF Close, PushWorks
  <2>2. /\ image' \subseteq Piece /\ \A p \in image' : Placed(p)
        /\ \A k \in 0 .. MAX_REGIONS - 1 : TheRegion(k) \in image \cup {buffer} => TheRegion(k) \in image'
    BY <1>1, <2>1, PushKeeps
  <2>3. AllPlaced'
    BY <2>1, <2>2 DEF AllPlaced, Placed
  <2>4. \A k \in 0 .. MAX_REGIONS - 1 : TheRegion(k) \in image'
    BY <1>1, <2>1, <2>2 DEF RegionsKept
  <2>5. RegionsKept' /\ HeaderLast'
    BY <2>1, <2>4 DEF RegionsKept, HeaderLast, TheRegion
  <2>. QED
    BY <1>0, <2>3, <2>5 DEF DiskInv
<1>13. CASE Killed
  <2>1. /\ pc \notin {"start", "done", "failed", "killed"} /\ pc' = "killed" /\ buffer' = Unwritten
        /\ image' = image \/ image' = Pushed
        /\ UNCHANGED <<files, i, next_data_pos>>
    BY <1>13 DEF Killed
  <2>2. /\ image' \subseteq Piece /\ \A p \in image' : Placed(p)
    BY <1>1, <1>2, <2>1, PushKeeps DEF AllPlaced
  <2>3. AllPlaced'
    BY <2>1, <2>2 DEF AllPlaced, Placed
  <2>4. RegionsKept'
    BY <2>1 DEF RegionsKept
  <2>5. Written("header") = {}
    BY <1>1, <2>1 DEF HeaderLast
  <2>6. HeaderLast'
    <3>1. CASE image' = image
      BY <3>1, <2>1, <2>5 DEF HeaderLast, Written
    <3>2. CASE image' = Pushed /\ pc # "close"
      <4>1. Written("header")' = {}
        BY <3>2, <2>1, NoHeaderYet DEF Written
      <4>. QED
        BY <4>1, <2>1 DEF HeaderLast
    <3>3. CASE image' = Pushed /\ pc = "close"
      <4>1. \A k \in 0 .. MAX_REGIONS - 1 : TheRegion(k) \in image'
        BY <1>1, <3>3, PushKeeps DEF RegionsKept
      <4>. QED
        BY <4>1, <2>1 DEF HeaderLast, TheRegion
    <3>. QED
      BY <3>1, <3>2, <3>3, <2>1
  <2>. QED
    BY <1>0, <2>3, <2>4, <2>6 DEF DiskInv
<1>14. CASE UNCHANGED dvars
  BY ZenonT(30), <1>0, <1>1, <1>14 DEF DiskInv, dvars, AllPlaced, Placed, RegionsKept, TheRegion,
                     HeaderLast, Written
<1>. QED
  BY <1>4, <1>5, <1>6, <1>7, <1>8, <1>9, <1>10, <1>11, <1>12, <1>13, <1>14 DEF DiskNext

(* Whatever lies between the beginning of the backup list and its end is   *)
(* null for who reads it.                                                  *)
LEMMA BackupsNull ==
  ASSUME DiskInv, NEW pos \in Nat, NEW size \in Nat,
         BACKUPS_POS <= pos, pos + size <= NODES_POS
  PROVE  Null(pos, size)
<1> SUFFICES ASSUME NEW p \in image, p.what[1] # "backup"
             PROVE  Apart(p, [pos |-> pos, size |-> size])
  BY DEF Null, Written
<1>1. p \in Piece /\ Placed(p)
  BY DEF DiskInv, DiskTypeOK, AllPlaced
<1>2. p.pos \in Nat /\ p.size \in Nat /\ p.what \in Content
  BY <1>1 DEF Piece
<1>3. p.what[2] \in Nat /\ p.what[1] \in {"region", "FILE", "data", "header", "old header"}
  BY <1>2, ContentIsPair
<1>4. CASE p.what[1] = "region"
  <2> DEFINE k == p.what[2]
  <2>1. k \in Nat /\ k < MAX_REGIONS /\ p.size = 2 /\ p.pos = 64 + 2 * k
    BY <1>1, <1>3, <1>4, DiskNumbers DEF Placed
  <2> HIDE DEF k
  <2>2. p.pos + p.size <= pos
    BY <2>1, DiskNumbers, SMT
  <2>. QED
    BY <2>2 DEF Apart
<1>5. CASE p.what[1] \in {"FILE", "data"}
  <2>1. NODES_POS <= p.pos
    BY <1>1, <1>5 DEF Placed
  <2>2. pos + size <= p.pos
    BY <2>1, <1>2, DiskNumbers, SMT
  <2>. QED
    BY <2>2 DEF Apart
<1>6. CASE p.what[1] \in {"header", "old header"}
  <2>1. p.pos + p.size <= REGIONS_POS
    BY <1>1, <1>6 DEF Placed
  <2>2. p.pos + p.size <= pos
    BY <2>1, <1>2, DiskNumbers, SMT
  <2>. QED
    BY <2>2 DEF Apart
<1>. QED
  BY <1>3, <1>4, <1>5, <1>6

(* A region list of any length, rounded up to sectors, and a shorter entry *)
(* each: the kernel looks for its backups behind the formatter's regions   *)
(* and not behind the formatter's backups.                                 *)
LEMMA BackupsReadInside ==
  ASSUME MAX_BACKUPS >= 2, NEW k \in 0 .. MAX_BACKUPS - 1
  PROVE  /\ BackupRead(k) \in Nat /\ BACKUPS_POS <= BackupRead(k)
         /\ BackupRead(k) + KernelBackupSize <= NODES_POS
<1> DEFINE s == (2 * MAX_REGIONS + 63) \div 64
<1>1. MAX_REGIONS \in Nat /\ MAX_BACKUPS \in Nat
  BY DiskNumbers
<1>2. s \in Nat /\ 2 * MAX_REGIONS <= 64 * s /\ 64 * s <= 2 * MAX_REGIONS + 62
  BY <1>1, SMT
<1>3. BackupRead(k) = 64 * (1 + s) + 37 * k /\ KernelBackupSize = 37
  <2>1. RegionSize * MAX_REGIONS + SectorSize - 1 = 2 * MAX_REGIONS + 63
    BY <1>1, DiskNumbers
  <2>. QED
    BY <2>1, DiskNumbers DEF BackupRead, SectorsFor, KernelBackupSize
<1> HIDE DEF s
<1>4. k \in Nat /\ k + 1 <= MAX_BACKUPS
  BY <1>1
<1>. QED
  BY <1>1, <1>2, <1>3, <1>4, DiskNumbers, SMT

(* A write that failed is not forgotten.                                   *)
LEMMA FailuresStay ==
  ASSUME DiskTypeOK, [DiskNext]_dvars
  PROVE  failures' = 0 => failures = 0
<1>1. failures \in Nat
  BY FailuresCount DEF DiskTypeOK
<1>2. failures' = failures \/ failures' = failures + 1
  BY DEF DiskNext, dvars, Usage, Open, WriteRegion, WriteBackup, WriteNode, WriteData, WriteNullNode,
         WriteHeader, Close, Killed, Write, PushWorks, PushFails
<1>. QED
  BY <1>1, <1>2

(* The formatter's invariants hold throughout, the one about the whole     *)
(* file as long as no write has failed.                                    *)
LEMMA DiskAlways == Spec => []FileInv /\ [](failures = 0 => DiskInv)
<1>1. Init => FileInv /\ (failures = 0 => DiskInv)
  BY DiskInitInv DEF Init
<1>2. FileInv /\ (failures = 0 => DiskInv) /\ [Next]_vars => (FileInv /\ (failures = 0 => DiskInv))'
  <2>1. [Next]_vars => [DiskNext]_dvars
    BY DEF Next, vars
  <2>2. FileInv /\ [DiskNext]_dvars => (failures' = 0 => failures = 0)
    BY FailuresStay DEF FileInv
  <2>. QED
    BY <2>1, <2>2, FileStepInv, DiskStepInv
<1>. QED
  BY <1>1, <1>2, PTL DEF Spec

(* As long as no write fails, a file that has a header has its regions and *)
(* its null backup entries where the kernel reads them, for every command  *)
(* line and whenever the formatter ends, with tables of any size as long   *)
(* as there are two backup entries or more (main,                          *)
(* node_lookup_database_ref). Of the nodes it says nothing.                *)
THEOREM KernelReadsTheFile ==
  ASSUME MAX_BACKUPS >= 2
  PROVE  Spec => []KernelReadsLists
<1>1. (failures = 0 => DiskInv) => KernelReadsLists
  <2> SUFFICES ASSUME failures = 0, DiskInv, Written("header") # {} PROVE
        /\ \A k \in 0 .. MAX_REGIONS - 1 :
             [what |-> <<"region", k>>, pos |-> RegionRead(k), size |-> RegionSize] \in image
        /\ \A k \in 0 .. MAX_BACKUPS - 1 : Null(BackupRead(k), KernelBackupSize)
    BY DEF KernelReadsLists
  <2>1. ASSUME NEW k \in 0 .. MAX_REGIONS - 1
        PROVE  [what |-> <<"region", k>>, pos |-> RegionRead(k), size |-> RegionSize] \in image
    <3>1. RegionRead(k) = REGIONS_POS + RegionSize * k
      BY DEF RegionRead, REGIONS_POS
    <3>2. TheRegion(k) \in image
      BY DEF DiskInv, HeaderLast
    <3>. QED
      BY <3>1, <3>2 DEF TheRegion
  <2>2. ASSUME NEW k \in 0 .. MAX_BACKUPS - 1
        PROVE  Null(BackupRead(k), KernelBackupSize)
    <3>1. KernelBackupSize \in Nat
      BY DEF KernelBackupSize
    <3>. QED
      BY <3>1, BackupsReadInside, BackupsNull
  <2>. QED
    BY <2>1, <2>2
<1>. QED
  BY <1>1, DiskAlways, PTL

-----------------------------------------------------------------------------
(* The kernel's tables in numbers.                                         *)
LEMMA KernelNumbers ==
  /\ MAX_REGION \in Nat \ {0} /\ NODES_PER_REGION \in Nat \ {0} /\ MAX_BACKUP \in Nat /\ MAX_BACKUP >= 2
  /\ NumNodes \in Nat /\ NumNodes >= 6
  /\ REGION_LIST_ADDR = 64 /\ BACKUP_LIST_ADDR = 64 + 2 * MAX_REGION
  /\ NODE_LIST_ADDR = BACKUP_LIST_ADDR + 37 * MAX_BACKUP /\ DATA_ADDR = NODE_LIST_ADDR + 6 * NumNodes
  /\ BACKUP_LIST_ADDR \in Nat /\ NODE_LIST_ADDR \in Nat /\ DATA_ADDR \in Nat
<1>1. /\ MAX_REGION \in Nat \ {0} /\ NODES_PER_REGION \in Nat \ {0} /\ MAX_BACKUP \in Nat /\ MAX_BACKUP >= 2
      /\ MAX_REGION * NODES_PER_REGION >= 6
  BY KernelAssumption
<1>2. \A a, b \in Nat \ {0} : a * b \in Nat
  BY SMT
<1>3. NumNodes \in Nat /\ NumNodes >= 6
  BY <1>1, <1>2 DEF NumNodes
<1>4. /\ REGION_LIST_ADDR = 64 /\ BACKUP_LIST_ADDR = 64 + 2 * MAX_REGION
      /\ NODE_LIST_ADDR = BACKUP_LIST_ADDR + 37 * MAX_BACKUP /\ DATA_ADDR = NODE_LIST_ADDR + 6 * NumNodes
  BY DEF REGION_LIST_ADDR, BACKUP_LIST_ADDR, NODE_LIST_ADDR, DATA_ADDR, Sector, RegionWords,
         BackupWords, NodeWords
<1>. QED
  BY <1>1, <1>3, <1>4, SMT

(* The addresses of entries, as numbers.                                   *)
LEMMA Addresses ==
  ASSUME NEW n \in Int
  PROVE  /\ Region(n) = 64 + 2 * n
         /\ Backup(n) = BACKUP_LIST_ADDR + 37 * n
         /\ NodeAt(n) = NODE_LIST_ADDR + 6 * n
BY KernelNumbers DEF Region, Backup, NodeAt, RegionWords, BackupWords, NodeWords

(* The reference of the disk's entry is a number.                          *)
LEMMA ReferenceIsNumber == reference \in Nat
BY DEF reference

(* A stray byte past a memset changes nothing where nobody has stored.     *)
LEMMA StrayByte ==
  ASSUME NEW mem \in [Lists -> Nat \cup {Junk}], NEW s, NEW n, mem[s + n] \in {0, Junk}
  PROVE  memset(mem, s, n) = mem
<1>1. LowByteCleared(mem[s + n]) = mem[s + n]
  <2>1. Junk \notin 0 .. 255
    BY KernelAssumption
  <2>. QED
    BY <2>1 DEF LowByteCleared
<1>. QED
  BY <1>1 DEF memset

(* kmain starts with lists that are all zeros or all junk.                 *)
LEMMA KernelInitInv == KernelInit => KernelInv
<1> SUFFICES ASSUME KernelInit PROVE KernelInv
  OBVIOUS
<1>1. /\ cold \in {0, Junk} /\ header = [regions |-> 0, backups |-> 0]
      /\ memory = [a \in Lists |-> cold] /\ kpc = "header" /\ ki = 0
  BY DEF KernelInit
<1>2. memory \in [Lists -> Nat \cup {Junk}]
  BY <1>1
<1>3. 0 \in 0 .. MAX_REGION + MAX_BACKUP
  BY KernelNumbers
<1>4. KernelTypeOK
  BY <1>1, <1>2, <1>3 DEF KernelTypeOK
<1>5. KernelLoops /\ HeaderSet
  BY <1>1 DEF KernelLoops, HeaderSet
<1>6. RegionsStored = 0 /\ BackupsStored = 0 /\ NodesNulled = 0
  BY <1>1 DEF RegionsStored, BackupsStored, NodesNulled
<1>7. RegionWordsSet
  BY <1>6 DEF RegionWordsSet
<1>8. \A a \in BACKUP_LIST_ADDR .. DATA_ADDR - 1 : memory[a] = cold
  <2>1. \A a \in BACKUP_LIST_ADDR .. DATA_ADDR - 1 : a \in Lists
    BY KernelNumbers DEF Lists
  <2>. QED
    BY <1>1, <2>1
<1>9. BackupWordsSet
  <2>1. \A a \in BACKUP_LIST_ADDR .. NODE_LIST_ADDR - 1 : memory[a] = cold /\ ~InDiskEntry(a)
    BY <1>1, <1>8, KernelNumbers DEF InDiskEntry
  <2>2. 0 .. BackupsStored - 1 = {}
    BY <1>6
  <2>. QED
    BY <2>1, <2>2 DEF BackupWordsSet
<1>10. NodeWordsSet
  <2>1. NodeAt(NodesNulled) = NODE_LIST_ADDR
    BY <1>6, Addresses, KernelNumbers
  <2>2. \A a \in NODE_LIST_ADDR .. DATA_ADDR - 1 : ~(a < NODE_LIST_ADDR) /\ memory[a] = cold
    BY <1>8, KernelNumbers
  <2>. QED
    BY <2>1, <2>2 DEF NodeWordsSet
<1>. QED
  BY <1>4, <1>5, <1>7, <1>9, <1>10 DEF KernelInv

(* Where the words of one table are not in another.                        *)
LEMMA TablesApart ==
  /\ \A r \in 0 .. MAX_REGION - 1 : /\ Region(r) \in Lists /\ Region(r) + 1 \in Lists
                                    /\ Region(r) + 1 < BACKUP_LIST_ADDR
  /\ \A a \in BACKUP_LIST_ADDR .. NODE_LIST_ADDR - 1 : a \in Lists
  /\ \A a \in NODE_LIST_ADDR .. DATA_ADDR - 1 : a \in Lists
  /\ \A n \in Nat : NodeAt(n) >= NODE_LIST_ADDR
<1>1. ASSUME NEW r \in 0 .. MAX_REGION - 1
      PROVE  Region(r) \in Lists /\ Region(r) + 1 \in Lists /\ Region(r) + 1 < BACKUP_LIST_ADDR
  <2>1. Region(r) = 64 + 2 * r /\ r \in Nat /\ r + 1 <= MAX_REGION
    BY Addresses, KernelNumbers
  <2>. QED
    BY <2>1, KernelNumbers, SMT DEF Lists
<1>2. \A a \in BACKUP_LIST_ADDR .. DATA_ADDR - 1 : a \in Lists
  BY KernelNumbers DEF Lists
<1>3. \A n \in Nat : NodeAt(n) >= NODE_LIST_ADDR
  BY Addresses, KernelNumbers
<1>. QED
  BY <1>1, <1>2, <1>3, KernelNumbers

(* The kernel's invariant is inductive.                                    *)
LEMMA KernelStepInv == KernelInv /\ [KernelNext]_kvars => KernelInv'
<1> SUFFICES ASSUME KernelInv, [KernelNext]_kvars PROVE KernelInv'
  OBVIOUS
<1>1. KernelTypeOK /\ KernelLoops /\ HeaderSet /\ RegionWordsSet /\ BackupWordsSet /\ NodeWordsSet
  BY DEF KernelInv
<1>2. /\ cold \in {0, Junk} /\ memory \in [Lists -> Nat \cup {Junk}]
      /\ header \in [regions : {0, MAX_REGION}, backups : {0, MAX_BACKUP}]
      /\ ki \in 0 .. MAX_REGION + MAX_BACKUP /\ ki \in Nat
      /\ kpc \in {"header", "regions", "backups", "disk", "ready"}
  BY <1>1, KernelNumbers DEF KernelTypeOK
<1>3. \A n \in Nat : n < MAX_REGION \/ n < MAX_BACKUP => n \in 0 .. MAX_REGION + MAX_BACKUP
  BY KernelNumbers
<1>4. CASE SetHeader
  <2>1. /\ kpc = "header" /\ memory' = memset(memory, 0, Sector) /\ kpc' = "regions"
        /\ header' = [regions |-> MAX_REGION, backups |-> MAX_BACKUP] /\ cold' = cold /\ ki' = ki /\ ki = 0
    BY <1>4, <1>1 DEF SetHeader, KernelLoops
  <2>2. memory' \in [Lists -> Nat \cup {Junk}]
    <3>1. 64 \in Lists
      BY KernelNumbers DEF Lists
    <3>2. LowByteCleared(memory[64]) \in Nat \cup {Junk}
      BY <1>2, <3>1 DEF LowByteCleared
    <3>3. memory' = [memory EXCEPT ![64] = LowByteCleared(memory[64])]
      BY <2>1 DEF memset, Sector
    <3>. QED
      BY <3>2, <3>3, <1>2
  <2>3. \A a \in Lists : a # 64 => memory'[a] = memory[a]
    BY <2>1, <1>2 DEF memset, Sector
  <2>4. \A a \in BACKUP_LIST_ADDR .. DATA_ADDR - 1 : memory'[a] = memory[a]
    <3>1. \A a \in BACKUP_LIST_ADDR .. DATA_ADDR - 1 : a \in Lists /\ a # 64
      BY KernelNumbers DEF Lists
    <3>. QED
      BY <2>3, <3>1
  <2>5. /\ RegionsStored = 0 /\ BackupsStored = 0 /\ NodesNulled = 0
        /\ RegionsStored' = 0 /\ BackupsStored' = 0 /\ NodesNulled' = 0
    BY <2>1 DEF RegionsStored, BackupsStored, NodesNulled
  <2>6. KernelTypeOK'
    BY <1>2, <2>1, <2>2 DEF KernelTypeOK
  <2>7. KernelLoops' /\ HeaderSet'
    BY <2>1, KernelNumbers DEF KernelLoops, HeaderSet
  <2>8. RegionWordsSet'
    BY <2>5 DEF RegionWordsSet
  <2>9. BackupWordsSet'
    <3>1. \A a : ~InDiskEntry(a) /\ ~InDiskEntry(a)'
      BY <2>1 DEF InDiskEntry
    <3>2. \A a \in BACKUP_LIST_ADDR .. NODE_LIST_ADDR - 1 : a \in BACKUP_LIST_ADDR .. DATA_ADDR - 1
      BY KernelNumbers
    <3>3. \A a \in BACKUP_LIST_ADDR .. NODE_LIST_ADDR - 1 : memory'[a] \in {0, cold}
      BY <1>1, <2>4, <3>1, <3>2 DEF BackupWordsSet
    <3>4. 0 .. BackupsStored' - 1 = {}
      BY <2>5
    <3>. QED
      BY <3>1, <3>3, <3>4, <2>1 DEF BackupWordsSet, InDiskEntry
  <2>10. NodeWordsSet'
    <3>1. \A a \in NODE_LIST_ADDR .. DATA_ADDR - 1 : a \in BACKUP_LIST_ADDR .. DATA_ADDR - 1
      BY KernelNumbers
    <3>2. NodeAt(NodesNulled') = NodeAt(NodesNulled)
      BY <2>5
    <3>. QED
      BY <1>1, <2>1, <2>4, <3>1, <3>2 DEF NodeWordsSet, NodeAt
  <2>. QED
    BY <2>6, <2>7, <2>8, <2>9, <2>10 DEF KernelInv
<1>5. CASE SetRegion
  <2> DEFINE nulled == [a \in Lists |-> IF a \in NodeAt(ki) .. NodeAt(ki + NODES_PER_REGION) - 1
                                        THEN 0 ELSE memory[a]]
  <2>1. /\ kpc = "regions" /\ ki < MAX_REGION /\ cold' = cold /\ header' = header
        /\ memory' = [nulled EXCEPT ![Region(ki)] = ki * NODES_PER_REGION, ![Region(ki) + 1] = RegionEnd(ki)]
        /\ ki' = (ki + 1) % MAX_REGION /\ kpc' = IF ki' = 0 THEN "backups" ELSE "regions"
    BY <1>5, <1>1 DEF SetRegion, KernelLoops
  <2>2. \/ ki + 1 < MAX_REGION /\ ki' = ki + 1 /\ kpc' = "regions"
        \/ ki + 1 = MAX_REGION /\ ki' = 0 /\ kpc' = "backups"
    <3> DEFINE w == (ki + 1) % MAX_REGION
    <3>1. \/ ki + 1 < MAX_REGION /\ w = ki + 1
          \/ ki + 1 = MAX_REGION /\ w = 0
      <4>1. MAX_REGION \in Nat \ {0} /\ ki \in Nat /\ ki < MAX_REGION
        BY <2>1, <1>2, KernelNumbers
      <4>. QED
        BY <4>1, WrapsAround, Zenon
    <3>2. ki' = w /\ kpc' = IF w = 0 THEN "backups" ELSE "regions"
      BY <2>1
    <3>3. ki + 1 # 0
      BY <1>2
    <3> HIDE DEF w
    <3>. QED
      BY <3>1, <3>2, <3>3
  <2>3. RegionsStored = ki /\ RegionsStored' = ki + 1 /\ BackupsStored = 0 /\ BackupsStored' = 0
    BY <2>1, <2>2, <1>2 DEF RegionsStored, BackupsStored
  <2>4. NodesNulled = (IF ki = 0 THEN 0 ELSE ki - 1 + NODES_PER_REGION) /\ NodesNulled' = ki + NODES_PER_REGION
    BY <2>3, <1>2, KernelNumbers DEF NodesNulled
  <2>5. ki * NODES_PER_REGION \in Nat /\ RegionEnd(ki) \in Nat
    <3>1. \A a, b \in Nat : a * b + b \in Nat /\ a * b \in Nat
      BY SMT
    <3>. QED
      BY <3>1, <1>2, KernelNumbers DEF RegionEnd
  <2>6. nulled \in [Lists -> Nat \cup {Junk}]
    BY <1>2
  <2> HIDE DEF nulled
  <2>7. memory' \in [Lists -> Nat \cup {Junk}]
    BY <2>1, <2>5, <2>6
  <2>8. ki \in 0 .. MAX_REGION - 1
    BY <2>1, <1>2, KernelNumbers
  <2>9. Region(ki) \in Lists /\ Region(ki) + 1 \in Lists /\ Region(ki) + 1 < BACKUP_LIST_ADDR /\ Region(ki) = 64 + 2 * ki
    BY <2>8, TablesApart, Addresses
  <2>10. /\ memory'[Region(ki)] = ki * NODES_PER_REGION /\ memory'[Region(ki) + 1] = RegionEnd(ki)
         /\ \A a \in Lists : a # Region(ki) /\ a # Region(ki) + 1 => memory'[a] = nulled[a]
    <3>1. Region(ki) # Region(ki) + 1
      BY <2>9, <1>2
    <3>. QED
      BY <2>1, <2>6, <2>9, <3>1
  <2>11. \A a \in BACKUP_LIST_ADDR .. DATA_ADDR - 1 : a \in Lists /\ memory'[a] = nulled[a]
    <3>1. \A a \in BACKUP_LIST_ADDR .. DATA_ADDR - 1 : a \in Lists /\ a # Region(ki) /\ a # Region(ki) + 1
      BY <2>9, <1>2, KernelNumbers DEF Lists
    <3>. QED
      BY <3>1, <2>10
  <2>12. \A a \in Lists : a < NODE_LIST_ADDR => nulled[a] = memory[a]
    <3>1. NodeAt(ki) = NODE_LIST_ADDR + 6 * ki /\ ki \in Nat
      BY <1>2, Addresses
    <3>2. \A a \in Lists : a < NODE_LIST_ADDR => a \notin NodeAt(ki) .. NodeAt(ki + NODES_PER_REGION) - 1
      BY <3>1, KernelNumbers DEF Lists
    <3>. QED
      BY <3>2 DEF nulled
  <2>13. KernelTypeOK'
    <3>1. ki' \in 0 .. MAX_REGION + MAX_BACKUP
      BY <2>2, <1>2, KernelNumbers
    <3>. QED
      BY <1>2, <2>1, <2>2, <2>7, <3>1 DEF KernelTypeOK
  <2>14. KernelLoops' /\ HeaderSet'
    <3>1. 0 < MAX_REGION /\ 0 < MAX_BACKUP
      BY KernelNumbers
    <3>2. KernelLoops'
      BY <2>2, <3>1 DEF KernelLoops
    <3>. QED
      BY <1>1, <2>1, <2>2, <3>2 DEF HeaderSet
  <2>15. RegionWordsSet'
    <3> SUFFICES ASSUME NEW r \in 0 .. ki
                 PROVE  memory'[Region(r)] = r * NODES_PER_REGION /\ memory'[Region(r) + 1] = RegionEnd(r)
      BY <2>3, <1>2 DEF RegionWordsSet, Region, RegionEnd
    <3>1. CASE r = ki
      BY <3>1, <2>10
    <3>2. CASE r # ki
      <4>1. r \in 0 .. ki - 1 /\ r \in 0 .. MAX_REGION - 1 /\ Region(r) = 64 + 2 * r
        BY <3>2, <2>8, KernelNumbers, Addresses
      <4>2. /\ Region(r) \in Lists /\ Region(r) + 1 \in Lists /\ Region(r) + 1 < BACKUP_LIST_ADDR
        BY <4>1, TablesApart
      <4>3. /\ Region(r) # Region(ki) /\ Region(r) + 1 # Region(ki) /\ Region(r) # Region(ki) + 1
            /\ Region(r) + 1 # Region(ki) + 1
        BY <4>1, <2>9, <1>2
      <4>4. Region(r) < NODE_LIST_ADDR /\ Region(r) + 1 < NODE_LIST_ADDR
        BY <4>1, <4>2, KernelNumbers
      <4>5. memory[Region(r)] = r * NODES_PER_REGION /\ memory[Region(r) + 1] = RegionEnd(r)
        BY <1>1, <2>3, <4>1 DEF RegionWordsSet
      <4>. QED
        BY <4>2, <4>3, <4>4, <4>5, <2>10, <2>12
    <3>. QED
      BY <3>1, <3>2
  <2>16. BackupWordsSet'
    <3>1. \A a : ~InDiskEntry(a) /\ ~InDiskEntry(a)'
      BY <2>1, <2>2 DEF InDiskEntry
    <3>2. \A a \in BACKUP_LIST_ADDR .. NODE_LIST_ADDR - 1 : a \in BACKUP_LIST_ADDR .. DATA_ADDR - 1 /\ a < NODE_LIST_ADDR
      BY KernelNumbers
    <3>3. \A a \in BACKUP_LIST_ADDR .. NODE_LIST_ADDR - 1 : memory'[a] \in {0, cold}
      BY <1>1, <2>11, <2>12, <3>1, <3>2 DEF BackupWordsSet
    <3>4. 0 .. BackupsStored' - 1 = {}
      BY <2>3
    <3>. QED
      BY <3>1, <3>3, <3>4, <2>1 DEF BackupWordsSet, InDiskEntry
  <2>17. NodeWordsSet'
    <3> SUFFICES ASSUME NEW a \in NODE_LIST_ADDR .. DATA_ADDR - 1
                 PROVE  memory'[a] = IF a < NodeAt(ki + NODES_PER_REGION) THEN 0 ELSE cold
      BY <2>1, <2>4 DEF NodeWordsSet, NodeAt
    <3>1. a \in BACKUP_LIST_ADDR .. DATA_ADDR - 1 /\ a \in Int /\ a >= NODE_LIST_ADDR
      BY KernelNumbers
    <3>2. memory'[a] = IF a \in NodeAt(ki) .. NodeAt(ki + NODES_PER_REGION) - 1 THEN 0 ELSE memory[a]
      BY <2>11, <3>1 DEF nulled
    <3>3. /\ NodeAt(ki) = NODE_LIST_ADDR + 6 * ki /\ ki \in Nat
          /\ NodeAt(ki + NODES_PER_REGION) = NODE_LIST_ADDR + 6 * (ki + NODES_PER_REGION)
      BY SMTT(30), Addresses, <1>2, KernelNumbers
    <3>4. memory[a] = IF a < NodeAt(NodesNulled) THEN 0 ELSE cold
      BY <1>1 DEF NodeWordsSet
    <3>5. CASE ~(a < NodeAt(ki + NODES_PER_REGION))
      <4>1. a \notin NodeAt(ki) .. NodeAt(ki + NODES_PER_REGION) - 1
        BY <3>1, <3>3, <3>5, KernelNumbers
      <4>2. ~(a < NodeAt(NodesNulled))
        <5>1. NodesNulled \in Nat /\ NodesNulled <= ki + NODES_PER_REGION
          BY <2>4, <1>2, KernelNumbers
        <5>2. NodeAt(NodesNulled) = NODE_LIST_ADDR + 6 * NodesNulled
          BY <5>1, Addresses
        <5>. QED
          BY <5>1, <5>2, <3>1, <3>3, <3>5, KernelNumbers
      <4>. QED
        BY <4>1, <4>2, <3>2, <3>4, <3>5
    <3>6. CASE a < NodeAt(ki + NODES_PER_REGION) /\ a >= NodeAt(ki)
      <4>1. a \in NodeAt(ki) .. NodeAt(ki + NODES_PER_REGION) - 1
        BY <3>1, <3>3, <3>6, KernelNumbers
      <4>. QED
        BY <4>1, <3>2, <3>6
    <3>7. CASE a < NodeAt(ki + NODES_PER_REGION) /\ ~(a >= NodeAt(ki))
      <4>1. a \notin NodeAt(ki) .. NodeAt(ki + NODES_PER_REGION) - 1 /\ ki # 0
        BY <3>1, <3>3, <3>7, KernelNumbers
      <4>2. a < NodeAt(NodesNulled)
        <5>1. NodesNulled \in Nat /\ ki <= NodesNulled
          BY <4>1, <2>4, <1>2, KernelNumbers
        <5>2. NodeAt(NodesNulled) = NODE_LIST_ADDR + 6 * NodesNulled
          BY <5>1, Addresses
        <5>. QED
          BY <5>1, <5>2, <3>1, <3>3, <3>7, KernelNumbers
      <4>. QED
        BY <4>1, <4>2, <3>2, <3>4, <3>7
    <3>. QED
      BY <3>5, <3>6, <3>7
  <2>. QED
    BY <2>13, <2>14, <2>15, <2>16, <2>17 DEF KernelInv
<1>6. CASE SetBackup
  <2> DEFINE w  == (ki + 1) % MAX_BACKUP
             m1 == [memory EXCEPT ![Backup(ki)] = 0]
  <2>1. /\ kpc = "backups" /\ ki < MAX_BACKUP /\ cold' = cold /\ header' = header
        /\ memory' = memset(memset(m1, Backup(ki) + 1, 4), Backup(ki) + Other, Sector)
        /\ ki' = w /\ kpc' = IF ki' = 0 THEN "disk" ELSE "backups"
    BY <1>6, <1>1 DEF SetBackup, KernelLoops
  <2>2. \/ ki + 1 < MAX_BACKUP /\ ki' = ki + 1 /\ kpc' = "backups"
        \/ ki + 1 = MAX_BACKUP /\ ki' = 0 /\ kpc' = "disk"
    <3>1. \/ ki + 1 < MAX_BACKUP /\ w = ki + 1
          \/ ki + 1 = MAX_BACKUP /\ w = 0
      <4>1. MAX_BACKUP \in Nat \ {0} /\ ki \in Nat /\ ki < MAX_BACKUP
        BY <2>1, <1>2, KernelNumbers
      <4>. QED
        BY <4>1, WrapsAround, Zenon
    <3>2. ki + 1 # 0
      BY <1>2
    <3> HIDE DEF w, m1
    <3>. QED
      BY <3>1, <3>2, <2>1
  <2>3. /\ RegionsStored = MAX_REGION /\ RegionsStored' = MAX_REGION
        /\ BackupsStored = ki /\ BackupsStored' = ki + 1 /\ NodesNulled' = NodesNulled
    BY <2>1, <2>2, <1>2 DEF RegionsStored, BackupsStored, NodesNulled
  <2>4. \A a : ~InDiskEntry(a) /\ ~InDiskEntry(a)'
    BY <2>1, <2>2 DEF InDiskEntry
  <2>5. Backup(ki) = BACKUP_LIST_ADDR + 37 * ki /\ ki \in Nat /\ ki + 1 <= MAX_BACKUP
    BY <2>1, <1>2, Addresses, KernelNumbers
  <2>6. Backup(ki) \in BACKUP_LIST_ADDR .. NODE_LIST_ADDR - 1
    BY <2>5, KernelNumbers
  <2> HIDE DEF w, m1
  <2>7. m1 \in [Lists -> Nat \cup {Junk}] /\ m1[Backup(ki)] = 0
        /\ \A a \in Lists : a # Backup(ki) => m1[a] = memory[a]
    BY <1>2, <2>6, TablesApart DEF m1
  <2>8. \A a \in BACKUP_LIST_ADDR .. NODE_LIST_ADDR - 1 : m1[a] \in {0, cold}
    BY <1>1, <2>4, <2>6, <2>7, TablesApart DEF BackupWordsSet
  <2>9. \A a \in NODE_LIST_ADDR .. DATA_ADDR - 1 : m1[a] = memory[a] /\ m1[a] \in {0, cold}
    <3>1. \A a \in NODE_LIST_ADDR .. DATA_ADDR - 1 : a \in Lists /\ a # Backup(ki)
      BY <2>6, TablesApart, KernelNumbers
    <3>. QED
      BY <3>1, <2>7, <1>1 DEF NodeWordsSet
  <2>10. memset(m1, Backup(ki) + 1, 4) = m1
    <3>1. Backup(ki) + 1 + 4 \in BACKUP_LIST_ADDR .. NODE_LIST_ADDR - 1
      BY <2>5, KernelNumbers
    <3>2. m1[Backup(ki) + 1 + 4] \in {0, Junk}
      BY <3>1, <2>8, <1>2
    <3>. QED
      BY <3>2, <2>7, StrayByte
  <2>11. memset(m1, Backup(ki) + Other, Sector) = m1
    <3>1. Backup(ki) + Other + Sector = BACKUP_LIST_ADDR + 37 * ki + 69
      BY <2>5, KernelNumbers DEF Other, Sector
    <3>2. \/ Backup(ki) + Other + Sector \in BACKUP_LIST_ADDR .. NODE_LIST_ADDR - 1
          \/ Backup(ki) + Other + Sector \in NODE_LIST_ADDR .. DATA_ADDR - 1
      <4>1. CASE ki + 1 < MAX_BACKUP
        BY <4>1, <3>1, <2>5, KernelNumbers
      <4>2. CASE ki + 1 = MAX_BACKUP
        BY <4>2, <3>1, <2>5, KernelNumbers
      <4>. QED
        BY <4>1, <4>2, <2>5, KernelNumbers
    <3>3. m1[Backup(ki) + Other + Sector] \in {0, Junk}
      BY <3>2, <2>8, <2>9, <1>2
    <3>. QED
      BY <3>3, <2>7, StrayByte
  <2>12. memory' = m1
    BY <2>1, <2>10, <2>11
  <2>13. KernelTypeOK'
    <3>1. ki' \in 0 .. MAX_REGION + MAX_BACKUP
      BY <2>2, <2>5, KernelNumbers
    <3>. QED
      BY <1>2, <2>1, <2>2, <2>7, <2>12, <3>1 DEF KernelTypeOK
  <2>14. KernelLoops' /\ HeaderSet'
    <3>1. 0 < MAX_REGION /\ 0 < MAX_BACKUP
      BY KernelNumbers
    <3>2. KernelLoops'
      BY <2>2, <3>1 DEF KernelLoops
    <3>. QED
      BY <1>1, <2>1, <2>2, <3>2 DEF HeaderSet
  <2>15. RegionWordsSet'
    <3> SUFFICES ASSUME NEW r \in 0 .. MAX_REGION - 1
                 PROVE  memory'[Region(r)] = r * NODES_PER_REGION /\ memory'[Region(r) + 1] = RegionEnd(r)
      BY <2>3 DEF RegionWordsSet, Region, RegionEnd
    <3>1. memory[Region(r)] = r * NODES_PER_REGION /\ memory[Region(r) + 1] = RegionEnd(r)
      BY <1>1, <2>3 DEF RegionWordsSet
    <3>2. /\ Region(r) \in Lists /\ Region(r) + 1 \in Lists
          /\ Region(r) # Backup(ki) /\ Region(r) + 1 # Backup(ki)
      <4>1. Region(r) = 64 + 2 * r /\ r \in Nat
        BY Addresses, KernelNumbers
      <4>2. Region(r) + 1 < BACKUP_LIST_ADDR
        BY TablesApart
      <4>. QED
        BY <4>1, <4>2, <2>6, TablesApart, KernelNumbers
    <3>. QED
      BY <3>1, <3>2, <2>7, <2>12
  <2>16. BackupWordsSet'
    <3>1. \A a \in BACKUP_LIST_ADDR .. NODE_LIST_ADDR - 1 : memory'[a] \in {0, cold}
      BY <2>8, <2>12
    <3>2. \A b \in 0 .. ki : memory'[Backup(b)] = 0
      <4> SUFFICES ASSUME NEW b \in 0 .. ki PROVE memory'[Backup(b)] = 0
        OBVIOUS
      <4>1. CASE b = ki
        BY <4>1, <2>7, <2>12
      <4>2. CASE b # ki
        <5>1. b \in 0 .. ki - 1 /\ Backup(b) = BACKUP_LIST_ADDR + 37 * b
          BY <4>2, <2>5, Addresses
        <5>2. Backup(b) # Backup(ki) /\ Backup(b) \in BACKUP_LIST_ADDR .. NODE_LIST_ADDR - 1
          BY <5>1, <2>5, KernelNumbers
        <5>3. memory[Backup(b)] = 0
          BY <5>1, <1>1, <2>3, <2>4 DEF BackupWordsSet
        <5>. QED
          BY <5>2, <5>3, <2>7, <2>12, TablesApart
      <4>. QED
        BY <4>1, <4>2
    <3>3. 0 .. BackupsStored' - 1 = 0 .. ki
      BY <2>3, <2>5
    <3>. QED
      BY <3>1, <3>2, <3>3, <2>1, <2>4 DEF BackupWordsSet, InDiskEntry, Backup
  <2>17. NodeWordsSet'
    BY <1>1, <2>1, <2>3, <2>9, <2>12 DEF NodeWordsSet, NodeAt
  <2>. QED
    BY <2>13, <2>14, <2>15, <2>16, <2>17 DEF KernelInv
<1>7. CASE SetDisk
  <2>1. /\ kpc = "disk" /\ kpc' = "ready" /\ cold' = cold /\ header' = header /\ ki' = ki
        /\ memory' = [a \in Lists |-> IF a - Backup(DiskSlot) \in DOMAIN DiskEntry
                                      THEN DiskEntry[a - Backup(DiskSlot)] ELSE memory[a]]
    BY <1>7 DEF SetDisk
  <2>2. DOMAIN DiskEntry = 0 .. 36 /\ BackupWords = 37
    BY DEF DiskEntry, BackupWords
  <2>3. \A v \in 0 .. 36 : DiskEntry[v] \in Nat
    BY ReferenceIsNumber DEF DiskEntry, BackupWords, Other
  <2>4. Backup(DiskSlot) = BACKUP_LIST_ADDR + 37
    BY Addresses DEF DiskSlot
  <2>5. memory' = [a \in Lists |-> IF a - Backup(DiskSlot) \in 0 .. 36
                                   THEN DiskEntry[a - Backup(DiskSlot)] ELSE memory[a]]
    BY <2>1, <2>2
  <2>6. \A a : InDiskEntry(a)' <=> a - Backup(DiskSlot) \in 0 .. 36
    BY <2>1, <2>2 DEF InDiskEntry, Backup
  <2>7. \A a : ~InDiskEntry(a)
    BY <2>1 DEF InDiskEntry
  <2>8. /\ RegionsStored = MAX_REGION /\ RegionsStored' = MAX_REGION
        /\ BackupsStored = MAX_BACKUP /\ BackupsStored' = MAX_BACKUP /\ NodesNulled' = NodesNulled
    BY <2>1 DEF RegionsStored, BackupsStored, NodesNulled
  <2>9. memory' \in [Lists -> Nat \cup {Junk}]
    BY <2>3, <2>5, <1>2
  <2>10. \A a \in Lists : a < BACKUP_LIST_ADDR \/ a >= NODE_LIST_ADDR => memory'[a] = memory[a]
    <3>1. \A a \in Lists : a < BACKUP_LIST_ADDR \/ a >= NODE_LIST_ADDR => a - Backup(DiskSlot) \notin 0 .. 36
      BY <2>4, KernelNumbers DEF Lists
    <3>. QED
      BY <3>1, <2>5
  <2>11. KernelTypeOK' /\ KernelLoops' /\ HeaderSet'
    BY <1>1, <2>1, <2>9 DEF KernelTypeOK, KernelLoops, HeaderSet
  <2>12. RegionWordsSet'
    <3> SUFFICES ASSUME NEW r \in 0 .. MAX_REGION - 1
                 PROVE  memory'[Region(r)] = r * NODES_PER_REGION /\ memory'[Region(r) + 1] = RegionEnd(r)
      BY <2>8 DEF RegionWordsSet, Region, RegionEnd
    <3>1. memory[Region(r)] = r * NODES_PER_REGION /\ memory[Region(r) + 1] = RegionEnd(r)
      BY <1>1, <2>8 DEF RegionWordsSet
    <3>2. /\ Region(r) \in Lists /\ Region(r) + 1 \in Lists
          /\ Region(r) < BACKUP_LIST_ADDR /\ Region(r) + 1 < BACKUP_LIST_ADDR
      <4>1. Region(r) = 64 + 2 * r /\ r \in Nat
        BY Addresses, KernelNumbers
      <4>. QED
        BY <4>1, TablesApart, KernelNumbers
    <3>. QED
      BY <3>1, <3>2, <2>10
  <2>13. BackupWordsSet'
    <3>1. ASSUME NEW a \in BACKUP_LIST_ADDR .. NODE_LIST_ADDR - 1
          PROVE  memory'[a] \in (IF InDiskEntry(a)' THEN {DiskEntry[a - Backup(DiskSlot)]} ELSE {0, cold})
      <4>1. a \in Lists /\ memory[a] \in {0, cold}
        BY <1>1, <2>7, TablesApart DEF BackupWordsSet
      <4>2. CASE InDiskEntry(a)'
        BY <4>1, <4>2, <2>5, <2>6
      <4>3. CASE ~InDiskEntry(a)'
        BY <4>1, <4>3, <2>5, <2>6
      <4>. QED
        BY <4>2, <4>3
    <3>2. ASSUME NEW b \in 0 .. MAX_BACKUP - 1, ~InDiskEntry(Backup(b))'
          PROVE  memory'[Backup(b)] = 0
      <4>1. Backup(b) \in Lists
        <5>1. Backup(b) = BACKUP_LIST_ADDR + 37 * b /\ b \in Nat /\ b + 1 <= MAX_BACKUP
          BY Addresses, KernelNumbers
        <5>2. Backup(b) \in BACKUP_LIST_ADDR .. NODE_LIST_ADDR - 1
          BY <5>1, KernelNumbers
        <5>. QED
          BY <5>2, TablesApart
      <4>2. memory[Backup(b)] = 0
        BY <1>1, <2>7, <2>8 DEF BackupWordsSet
      <4>3. Backup(b) - Backup(DiskSlot) \notin 0 .. 36
        BY <3>2, <2>6 DEF Backup
      <4>. QED
        BY <4>1, <4>2, <4>3, <2>5
    <3>. QED
      BY <3>1, <3>2, <2>1, <2>8 DEF BackupWordsSet, InDiskEntry, Backup
  <2>14. NodeWordsSet'
    <3>1. \A a \in NODE_LIST_ADDR .. DATA_ADDR - 1 : a \in Lists /\ a >= NODE_LIST_ADDR
      BY TablesApart, KernelNumbers
    <3>. QED
      BY <1>1, <2>1, <2>8, <2>10, <3>1 DEF NodeWordsSet, NodeAt
  <2>. QED
    BY <2>11, <2>12, <2>13, <2>14 DEF KernelInv
<1>8. CASE UNCHANGED kvars
  <2>1. /\ cold' = cold /\ header' = header /\ memory' = memory /\ kpc' = kpc /\ ki' = ki
    BY <1>8 DEF kvars
  <2>2. RegionsStored' = RegionsStored /\ BackupsStored' = BackupsStored /\ NodesNulled' = NodesNulled
    BY <2>1 DEF RegionsStored, BackupsStored, NodesNulled
  <2>3. KernelTypeOK' /\ KernelLoops' /\ HeaderSet'
    BY <1>1, <2>1 DEF KernelTypeOK, KernelLoops, HeaderSet
  <2>4. RegionWordsSet' /\ BackupWordsSet' /\ NodeWordsSet'
    BY <1>1, <2>1, <2>2 DEF RegionWordsSet, BackupWordsSet, NodeWordsSet, InDiskEntry
  <2>. QED
    BY <2>3, <2>4 DEF KernelInv
<1>. QED
  BY <1>4, <1>5, <1>6, <1>7, <1>8 DEF KernelNext

(* The kernel's invariant holds throughout.                                *)
LEMMA KernelAlways == Spec => []KernelInv
<1>1. Init => KernelInv
  BY KernelInitInv DEF Init
<1>2. KernelInv /\ [Next]_vars => KernelInv'
  <2>1. [Next]_vars => [KernelNext]_kvars
    BY DEF Next, vars
  <2>. QED
    BY <2>1, KernelStepInv
<1>. QED
  BY <1>1, <1>2, PTL DEF Spec

(* Every variable of the formatter and of the kernel has its type: no loop *)
(* variable leaves its range, what is stored in the lists are words, and a *)
(* region in the image is one of the table's (TypeOK of Boot).             *)
THEOREM BootTypeCorrect == Spec => []TypeOK
<1>1. KernelInv /\ FileInv => TypeOK
  BY DEF KernelInv, FileInv, TypeOK
<1>. QED
  BY <1>1, KernelAlways, DiskAlways, PTL

(* The region that a node number falls into.                               *)
LEMMA Quotient ==
  ASSUME NEW n \in Nat, NEW m \in Nat \ {0}
  PROVE  \E q \in Nat : q * m <= n /\ n < q * m + m
<1> DEFINE q == n \div m
<1>1. q \in Nat /\ q * m <= n /\ n < q * m + m
  BY SMT
<1>. QED
  BY <1>1

(* Rows of a table: multiples of the row's length keep their order, and    *)
(* the next row begins where one ends.                                     *)
LEMMA Multiples ==
  ASSUME NEW a \in Nat, NEW b \in Nat, NEW m \in Nat
  PROVE  /\ a * m \in Nat /\ b * m \in Nat
         /\ a + 1 <= b => a * m + m <= b * m
         /\ a <= b => a * m <= b * m
<1>1. \A x, y \in Nat : x * y \in Nat
  BY SMT
<1>2. ASSUME a <= b
      PROVE  a * m <= b * m
  <2>1. PICK d \in Nat : b = a + d
    <3>1. b - a \in Nat /\ b = a + (b - a)
      BY <1>2
    <3>. QED
      BY <3>1
  <2>2. b * m = a * m + d * m
    BY <2>1, SMT
  <2>. QED
    BY <2>2, <1>1, SMT
<1>3. ASSUME a + 1 <= b
      PROVE  a * m + m <= b * m
  <2>1. PICK d \in Nat : b = a + 1 + d
    <3>1. b - a - 1 \in Nat /\ b = a + 1 + (b - a - 1)
      BY <1>3
    <3>. QED
      BY <3>1
  <2>2. b * m = a * m + m + d * m
    BY <2>1, SMT
  <2>. QED
    BY <2>2, <1>1, SMT
<1>. QED
  BY <1>1, <1>2, <1>3

(* A finished region table: region r holds NODES_PER_REGION nodes, from    *)
(* r * NODES_PER_REGION on.                                                *)
LEMMA ReadyRegions ==
  ASSUME KernelInv, kpc = "ready", NEW r \in 0 .. MAX_REGION - 1
  PROVE  /\ RegionAt(r).start = r * NODES_PER_REGION
         /\ RegionAt(r).end = r * NODES_PER_REGION + NODES_PER_REGION
         /\ r * NODES_PER_REGION \in Nat
         /\ r * NODES_PER_REGION + NODES_PER_REGION <= NumNodes
<1>1. RegionsStored = MAX_REGION
  BY DEF RegionsStored
<1>2. memory[Region(r)] = r * NODES_PER_REGION /\ memory[Region(r) + 1] = RegionEnd(r)
  BY <1>1 DEF KernelInv, RegionWordsSet
<1>3. /\ r * NODES_PER_REGION \in Nat
      /\ r * NODES_PER_REGION + NODES_PER_REGION <= MAX_REGION * NODES_PER_REGION
  <2>1. r \in Nat /\ r + 1 <= MAX_REGION /\ MAX_REGION \in Nat /\ NODES_PER_REGION \in Nat
    BY KernelNumbers
  <2>. QED
    BY <2>1, Multiples
<1>. QED
  BY <1>2, <1>3 DEF RegionAt, RegionEnd, NumNodes

(* A finished backup list: the disk's entry, and null entries.             *)
LEMMA ReadyBackups ==
  ASSUME KernelInv, kpc = "ready", NEW b \in 0 .. MAX_BACKUP - 1
  PROVE  memory[Backup(b)] = IF b = 1 THEN 2 ELSE 0
<1>1. BackupsStored = MAX_BACKUP
  BY DEF BackupsStored
<1>2. Backup(b) = BACKUP_LIST_ADDR + 37 * b /\ Backup(DiskSlot) = BACKUP_LIST_ADDR + 37 /\ b \in Nat
      /\ b + 1 <= MAX_BACKUP
  BY Addresses, KernelNumbers DEF DiskSlot
<1>3. Backup(b) \in BACKUP_LIST_ADDR .. NODE_LIST_ADDR - 1
  BY <1>2, KernelNumbers
<1>4. CASE b = 1
  <2>1. Backup(b) - Backup(DiskSlot) = 0
    BY <1>2, <1>4, KernelNumbers
  <2>2. InDiskEntry(Backup(b))
    BY <2>1 DEF InDiskEntry, BackupWords
  <2>3. memory[Backup(b)] = DiskEntry[0]
    BY <1>3, <2>1, <2>2 DEF KernelInv, BackupWordsSet
  <2>. QED
    BY <1>4, <2>3 DEF DiskEntry, BackupWords
<1>5. CASE b # 1
  <2>1. Backup(b) - Backup(DiskSlot) \notin 0 .. 36
    BY <1>2, <1>5, KernelNumbers
  <2>2. ~InDiskEntry(Backup(b))
    BY <2>1 DEF InDiskEntry, BackupWords
  <2>3. memory[Backup(b)] = 0
    BY <1>1, <2>2 DEF KernelInv, BackupWordsSet
  <2>. QED
    BY <1>5, <2>3
<1>. QED
  BY <1>4, <1>5

(* Nodes 0 to MAX_REGION + NODES_PER_REGION - 2 are null, and all if       *)
(* memory was zero at boot.                                                *)
LEMMA ReadyNodes ==
  ASSUME KernelInv, kpc = "ready", NEW n \in 0 .. NumNodes - 1
  PROVE  (\A w \in 0 .. NodeWords - 1 : memory[NodeAt(n) + w] = 0)
           <=> (cold = 0 \/ n < MAX_REGION + NODES_PER_REGION - 1)
<1>1. NodesNulled = MAX_REGION - 1 + NODES_PER_REGION
  <2>1. RegionsStored = MAX_REGION
    BY DEF RegionsStored
  <2>. QED
    BY <2>1, KernelNumbers DEF NodesNulled
<1>2. n \in Nat /\ n + 1 <= NumNodes /\ NodeAt(n) = NODE_LIST_ADDR + 6 * n
  BY KernelNumbers, Addresses
<1>3. NodeAt(NodesNulled) = NODE_LIST_ADDR + 6 * (MAX_REGION - 1 + NODES_PER_REGION)
  BY <1>1, Addresses, KernelNumbers
<1>4. ASSUME NEW w \in 0 .. 5
      PROVE  memory[NodeAt(n) + w] = IF n < MAX_REGION + NODES_PER_REGION - 1 THEN 0 ELSE cold
  <2>1. NodeAt(n) + w \in NODE_LIST_ADDR .. DATA_ADDR - 1
    BY <1>2, KernelNumbers
  <2>2. memory[NodeAt(n) + w] = IF NodeAt(n) + w < NodeAt(NodesNulled) THEN 0 ELSE cold
    BY <2>1 DEF KernelInv, NodeWordsSet
  <2>3. NodeAt(n) + w < NodeAt(NodesNulled) <=> n < MAX_REGION + NODES_PER_REGION - 1
    BY <1>2, <1>3, KernelNumbers
  <2>. QED
    BY <2>2, <2>3
<1>5. 0 \in 0 .. 5 /\ NodeWords - 1 = 5
  BY DEF NodeWords
<1>. QED
  BY <1>4, <1>5

(* The four memsets of kmain that store past their blocks do no harm,      *)
(* whatever memory held and whatever the sizes of the tables: regions,     *)
(* backup entries and nodes are what kmain means them to be (ListsAsMeant).*)
THEOREM ListsCorrect == Spec => []ListsAsMeant
<1>1. KernelInv => ListsAsMeant
  <2> SUFFICES ASSUME KernelInv, kpc = "ready" PROVE
        /\ \A n \in 0 .. NumNodes - 1 :
             \E r \in 0 .. MAX_REGION - 1 :
               /\ n \in RegionAt(r).start .. RegionAt(r).end - 1
               /\ \A s \in 0 .. MAX_REGION - 1 : n \in RegionAt(s).start .. RegionAt(s).end - 1 => s = r
        /\ \A b \in 0 .. MAX_BACKUP - 1 : memory[Backup(b)] = IF b = 2 - 1 THEN 2 ELSE 0
        /\ \A n \in 0 .. NumNodes - 1 :
             (\A w \in 0 .. NodeWords - 1 : memory[NodeAt(n) + w] = 0)
               <=> (cold = 0 \/ n < MAX_REGION + NODES_PER_REGION - 1)
    BY DEF ListsAsMeant
  <2>1. ASSUME NEW n \in 0 .. NumNodes - 1
        PROVE  \E r \in 0 .. MAX_REGION - 1 :
                 /\ n \in RegionAt(r).start .. RegionAt(r).end - 1
                 /\ \A s \in 0 .. MAX_REGION - 1 : n \in RegionAt(s).start .. RegionAt(s).end - 1 => s = r
    <3> DEFINE N == NODES_PER_REGION
    <3>1. n \in Nat /\ N \in Nat \ {0} /\ n < MAX_REGION * N /\ MAX_REGION \in Nat
      BY KernelNumbers DEF NumNodes
    <3>2. PICK r \in Nat : r * N <= n /\ n < r * N + N
      BY <3>1, Quotient
    <3>3. r \in 0 .. MAX_REGION - 1
      <4>1. ~(MAX_REGION <= r)
        <5>1. MAX_REGION <= r => MAX_REGION * N <= r * N
          BY <3>1, Multiples
        <5>2. MAX_REGION * N \in Nat /\ r * N \in Nat
          BY <3>1, Multiples
        <5>. QED
          BY <5>1, <5>2, <3>1, <3>2, SMT
      <4>. QED
        BY <4>1, <3>1
    <3>4. n \in RegionAt(r).start .. RegionAt(r).end - 1
      <4>1. RegionAt(r).start = r * N /\ RegionAt(r).end = r * N + N /\ r * N \in Nat
        BY <3>3, ReadyRegions
      <4> HIDE DEF N
      <4>. QED
        BY <4>1, <3>1, <3>2
    <3>5. ASSUME NEW s \in 0 .. MAX_REGION - 1, n \in RegionAt(s).start .. RegionAt(s).end - 1
          PROVE  s = r
      <4>1. RegionAt(s).start = s * N /\ RegionAt(s).end = s * N + N /\ s * N \in Nat /\ s \in Nat
        BY ReadyRegions, <3>1
      <4>2. s * N <= n /\ n < s * N + N
        <5> HIDE DEF N
        <5>. QED
          BY <4>1, <3>5, <3>1
      <4>3. s + 1 <= r => s * N + N <= r * N
        BY <3>1, <4>1, Multiples
      <4>4. r + 1 <= s => r * N + N <= s * N
        BY <3>1, <4>1, Multiples
      <4>5. r * N \in Nat
        BY <3>1, Multiples
      <4> HIDE DEF N
      <4>6. ~(s + 1 <= r) /\ ~(r + 1 <= s)
        BY <4>1, <4>2, <4>3, <4>4, <4>5, <3>1, <3>2, SMT
      <4>. QED
        BY <4>6, <4>1
    <3>. QED
      BY <3>3, <3>4, <3>5
  <2>2. ASSUME NEW b \in 0 .. MAX_BACKUP - 1
        PROVE  memory[Backup(b)] = IF b = 2 - 1 THEN 2 ELSE 0
    BY ReadyBackups
  <2>3. ASSUME NEW n \in 0 .. NumNodes - 1
        PROVE  (\A w \in 0 .. NodeWords - 1 : memory[NodeAt(n) + w] = 0)
                 <=> (cold = 0 \/ n < MAX_REGION + NODES_PER_REGION - 1)
    BY ReadyNodes
  <2>. QED
    BY <2>1, <2>2, <2>3
<1>. QED
  BY <1>1, KernelAlways, PTL

(* The walk over the regions ends at the first backup entry, read as a     *)
(* region, when memory was zero at boot.                                   *)
LEMMA WalkEnds ==
  ASSUME KernelInv, kpc = "ready", cold = 0
  PROVE  /\ RegionAt(MAX_REGION).start = 0 /\ RegionAt(MAX_REGION).end = 0
         /\ Walked = 0 .. MAX_REGION - 1
<1>1. Region(MAX_REGION) = Backup(0) /\ Backup(0) = BACKUP_LIST_ADDR
  BY Addresses, KernelNumbers
<1>2. memory[Backup(0)] = 0
  BY ReadyBackups, KernelNumbers
<1>3. memory[Backup(0) + 1] = 0
  <2> DEFINE first == BACKUP_LIST_ADDR
             a     == first + 1
  <2>0. first \in Nat /\ NODE_LIST_ADDR \in Nat /\ first + 74 <= NODE_LIST_ADDR
        /\ Backup(0) = first /\ Backup(DiskSlot) = first + 37
    BY <1>1, Addresses, KernelNumbers DEF DiskSlot
  <2> HIDE DEF first
  <2>1. a \in first .. NODE_LIST_ADDR - 1
    BY <2>0
  <2>2. a - Backup(DiskSlot) \notin 0 .. 36
    BY <2>0
  <2>3. ~InDiskEntry(a)
    BY <2>2 DEF InDiskEntry, BackupWords
  <2>4. memory[a] = 0
    BY <2>1, <2>3 DEF KernelInv, BackupWordsSet, first
  <2>. QED
    BY <2>0, <2>4
<1>4. RegionAt(MAX_REGION).start = 0 /\ RegionAt(MAX_REGION).end = 0
  BY <1>1, <1>2, <1>3 DEF RegionAt
<1>5. \A r \in 0 .. MAX_REGION - 1 : RegionAt(r).end # 0
  <2> SUFFICES ASSUME NEW r \in 0 .. MAX_REGION - 1 PROVE RegionAt(r).end # 0
    OBVIOUS
  <2> DEFINE x == r * NODES_PER_REGION
  <2>1. RegionAt(r).end = x + NODES_PER_REGION /\ x \in Nat
    BY ReadyRegions
  <2> HIDE DEF x
  <2>. QED
    BY <2>1, KernelNumbers
<1>6. Walked = 0 .. MAX_REGION - 1
  <2> DEFINE top  == MAX_REGION + BackupWords
             ends == {r \in 0 .. top : RegionAt(r).end = 0}
  <2>0. top \in Nat /\ MAX_REGION <= top /\ MAX_REGION \in Nat
    BY KernelNumbers DEF BackupWords
  <2>1. Walked = {r \in 0 .. top : \A e \in ends : r < e}
    BY DEF Walked
  <2> HIDE DEF top
  <2>2. MAX_REGION \in ends
    BY <2>0, <1>4
  <2>3. \A e \in ends : e \in Nat /\ e >= MAX_REGION
    BY <2>0, <1>5
  <2>. QED
    BY <2>0, <2>1, <2>2, <2>3
<1>. QED
  BY <1>4, <1>6

(* No lookup and no walk over the regions reaches a node outside the node  *)
(* list, for tables of every size (NodesInTheList; node_lookup_region and  *)
(* node_add, whose bounds are one too high or missing).                    *)
THEOREM NodesStayInTheList == Spec => []NodesInTheList
<1>1. KernelInv => NodesInTheList
  <2> SUFFICES ASSUME KernelInv, kpc = "ready", cold = 0,
                      NEW r \in Walked \cup {j \in 0 .. MAX_REGION + 1 : Admitted(j, header.regions)}
               PROVE  RegionAt(r).start .. RegionAt(r).end - 1 \subseteq 0 .. NumNodes - 1
    BY DEF NodesInTheList
  <2>1. r \in 0 .. MAX_REGION
    <3>1. CASE r \in Walked
      BY <3>1, WalkEnds, KernelNumbers
    <3>2. CASE r \in 0 .. MAX_REGION + 1 /\ ~(r > MAX_REGION)
      BY <3>2, KernelNumbers
    <3>3. header.regions = MAX_REGION
      BY DEF KernelInv, HeaderSet
    <3>. QED
      BY <3>1, <3>2, <3>3 DEF Admitted
  <2>2. CASE r = MAX_REGION
    <3>1. RegionAt(r).start = 0 /\ RegionAt(r).end = 0
      BY <2>2, WalkEnds
    <3>. QED
      BY <3>1
  <2>3. CASE r # MAX_REGION
    <3> DEFINE x == r * NODES_PER_REGION
    <3>1. r \in 0 .. MAX_REGION - 1
      BY <2>1, <2>3, KernelNumbers
    <3>2. RegionAt(r).start = x /\ RegionAt(r).end = x + NODES_PER_REGION /\ x \in Nat
          /\ x + NODES_PER_REGION <= NumNodes
      BY <3>1, ReadyRegions
    <3> HIDE DEF x
    <3>. QED
      BY <3>2, KernelNumbers
  <2>. QED
    BY <2>2, <2>3
<1>. QED
  BY <1>1, KernelAlways, PTL

(* In memory that was zero at boot, the data area of the kernel's database *)
(* is found where kmain put it when the database is opened by its address, *)
(* for tables of every size (OpenedWhereFormatted;                         *)
(* node_lookup_database_ref). With other memory it need not be.            *)
THEOREM OpenedInPlace == Spec => []OpenedWhereFormatted
<1>1. KernelInv => OpenedWhereFormatted
  <2> SUFFICES ASSUME KernelInv, kpc = "ready", cold = 0
               PROVE  DataOf(NodesOf(BackupsOf(RegionsOf))) = DATA_ADDR
    BY DEF OpenedWhereFormatted
  <2>1. header = [regions |-> MAX_REGION, backups |-> MAX_BACKUP]
    BY DEF KernelInv, HeaderSet
  <2>2. BackupsOf(RegionsOf) = BACKUP_LIST_ADDR
    BY <2>1 DEF BackupsOf, RegionsOf, BACKUP_LIST_ADDR, REGION_LIST_ADDR
  <2>3. NodesOf(BACKUP_LIST_ADDR) = NODE_LIST_ADDR
    BY <2>1 DEF NodesOf, NODE_LIST_ADDR
  <2>4. node_get_max_node = NumNodes
    <3>1. Walked = 0 .. MAX_REGION - 1 /\ MAX_REGION - 1 \in 0 .. MAX_REGION - 1
      BY WalkEnds, KernelNumbers
    <3>2. Walked # {} /\ MAX_REGION - 1 \in Walked /\ \A j \in Walked : j <= MAX_REGION - 1
      BY <3>1, KernelNumbers
    <3> DEFINE last == CHOOSE r \in Walked : \A j \in Walked : j <= r
    <3>3. last = MAX_REGION - 1
      <4>1. \E r \in Walked : \A j \in Walked : j <= r
        BY <3>2
      <4>2. last \in Walked /\ \A j \in Walked : j <= last
        BY <4>1
      <4> HIDE DEF last
      <4>3. last <= MAX_REGION - 1 /\ MAX_REGION - 1 <= last
        BY <4>2, <3>2
      <4>. QED
        BY <4>2, <4>3, <3>1, KernelNumbers
    <3>4. RegionAt(last).end = (MAX_REGION - 1) * NODES_PER_REGION + NODES_PER_REGION
      BY <3>1, <3>3, ReadyRegions
    <3>5. (MAX_REGION - 1) * NODES_PER_REGION + NODES_PER_REGION = MAX_REGION * NODES_PER_REGION
      <4>1. \A x, y \in Int : (x - 1) * y + y = x * y
        BY SMT
      <4>. QED
        BY <4>1, KernelNumbers
    <3>6. node_get_max_node = RegionAt(last).end
      BY <3>2 DEF node_get_max_node
    <3>. QED
      BY <3>4, <3>5, <3>6 DEF NumNodes
  <2>5. DataOf(NODE_LIST_ADDR) = DATA_ADDR
    BY <2>4 DEF DataOf, DATA_ADDR
  <2>. QED
    BY <2>2, <2>3, <2>5
<1>. QED
  BY <1>1, KernelAlways, PTL

-----------------------------------------------------------------------------
(* Where the data of the files lie. Offset is defined by recursion: that   *)
(* such a function exists is shown for its beginnings, by induction.       *)

UpTo(f, n, h) == h = [k \in 0 .. n |-> IF k = 0 THEN 0 ELSE h[k - 1] + f[k]]

(* Such a function of running sums exists for every n, by induction.       *)
LEMMA UpToExists ==
  ASSUME NEW f, NEW n \in Nat
  PROVE  \E h : UpTo(f, n, h)
<1> DEFINE S == {m \in Nat : \E h : UpTo(f, m, h)}
<1>1. 0 \in S
  <2> DEFINE h == [k \in 0 .. 0 |-> 0]
  <2>1. UpTo(f, 0, h)
    BY DEF UpTo
  <2>. QED
    BY <2>1
<1>2. ASSUME NEW m \in Nat, m \in S
      PROVE  m + 1 \in S
  <2>1. PICK h : UpTo(f, m, h)
    BY <1>2
  <2> DEFINE g == [k \in 0 .. m + 1 |-> IF k = m + 1 THEN h[m] + f[m + 1] ELSE h[k]]
  <2>2. \A k \in 0 .. m : h[k] = IF k = 0 THEN 0 ELSE h[k - 1] + f[k]
    BY <2>1 DEF UpTo
  <2>3. \A k \in 0 .. m + 1 : g[k] = IF k = 0 THEN 0 ELSE g[k - 1] + f[k]
    <3> SUFFICES ASSUME NEW k \in 0 .. m + 1 PROVE g[k] = IF k = 0 THEN 0 ELSE g[k - 1] + f[k]
      OBVIOUS
    <3>1. CASE k = m + 1
      <4>1. k # 0 /\ k - 1 = m /\ m \in 0 .. m + 1 /\ m # m + 1
        BY <3>1
      <4>. QED
        BY <3>1, <4>1
    <3>2. CASE k # m + 1
      <4>1. k \in 0 .. m /\ (k # 0 => k - 1 \in 0 .. m + 1 /\ k - 1 # m + 1)
        BY <3>2
      <4>. QED
        BY <3>2, <4>1, <2>2
    <3>. QED
      BY <3>1, <3>2
  <2>4. g = [k \in 0 .. m + 1 |-> g[k]]
    OBVIOUS
  <2> HIDE DEF g
  <2>5. UpTo(f, m + 1, g)
    BY <2>3, <2>4 DEF UpTo
  <2>. QED
    BY <2>5
<1> HIDE DEF S
<1>3. Nat \subseteq S
  BY <1>1, <1>2, SetInduction
<1>. QED
  BY <1>3 DEF S

(* Two of them agree wherever both are defined.                            *)
LEMMA UpToAgrees ==
  ASSUME NEW f, NEW n \in Nat, NEW m \in Nat, NEW g, NEW h, UpTo(f, n, g), UpTo(f, m, h),
         NEW k \in Nat, k <= n, k <= m
  PROVE  g[k] = h[k]
<1> DEFINE S == {j \in Nat : j <= n /\ j <= m => g[j] = h[j]}
<1>1. /\ \A j \in 0 .. n : g[j] = IF j = 0 THEN 0 ELSE g[j - 1] + f[j]
      /\ \A j \in 0 .. m : h[j] = IF j = 0 THEN 0 ELSE h[j - 1] + f[j]
  BY DEF UpTo
<1>2. 0 \in S
  <2>1. 0 \in 0 .. n /\ 0 \in 0 .. m
    OBVIOUS
  <2>. QED
    BY <1>1, <2>1
<1>3. ASSUME NEW j \in Nat, j \in S
      PROVE  j + 1 \in S
  <2> SUFFICES ASSUME j + 1 <= n, j + 1 <= m PROVE g[j + 1] = h[j + 1]
    OBVIOUS
  <2>1. j <= n /\ j <= m /\ j + 1 \in 0 .. n /\ j + 1 \in 0 .. m /\ j + 1 # 0 /\ (j + 1) - 1 = j
    OBVIOUS
  <2>2. g[j] = h[j]
    BY <1>3, <2>1
  <2>3. g[j + 1] = g[j] + f[j + 1] /\ h[j + 1] = h[j] + f[j + 1]
    BY <1>1, <2>1
  <2>. QED
    BY <2>2, <2>3
<1> HIDE DEF S
<1>4. Nat \subseteq S
  BY <1>2, <1>3, SetInduction
<1>. QED
  BY <1>4 DEF S

(* The first word of a file's data, counted from the data area's, is the   *)
(* sum of the sizes of the files before it.                                *)
LEMMA OffsetSums ==
  /\ Offset[0] = 0
  /\ \A k \in Nat : Offset[k + 1] = Offset[k] + files[k + 1]
<1> DEFINE Step(g) == [k \in Nat |-> IF k = 0 THEN 0 ELSE g[k - 1] + files[k]]
           H(n)    == CHOOSE h : UpTo(files, n, h)
           sum     == [k \in Nat |-> H(k)[k]]
<1>1. \A n \in Nat : UpTo(files, n, H(n))
  BY UpToExists
<1>2. ASSUME NEW k \in Nat
      PROVE  sum[k] = IF k = 0 THEN 0 ELSE sum[k - 1] + files[k]
  <2>1. \A j \in 0 .. k : H(k)[j] = IF j = 0 THEN 0 ELSE H(k)[j - 1] + files[j]
    BY <1>1 DEF UpTo
  <2>2. H(k)[k] = IF k = 0 THEN 0 ELSE H(k)[k - 1] + files[k]
    BY <2>1
  <2>3. ASSUME k # 0 PROVE k - 1 \in Nat /\ H(k)[k - 1] = H(k - 1)[k - 1]
    <3>1. k - 1 \in Nat /\ k - 1 <= k
      BY <2>3
    <3> HIDE DEF H
    <3>. QED
      BY <3>1, <1>1, UpToAgrees
  <2> HIDE DEF H
  <2>. QED
    BY <2>2, <2>3
<1>3. sum = Step(sum)
  <2> HIDE DEF H
  <2>1. sum = [k \in Nat |-> sum[k]]
    OBVIOUS
  <2>2. sum = [k \in Nat |-> IF k = 0 THEN 0 ELSE sum[k - 1] + files[k]]
    <3> HIDE DEF sum
    <3>. QED
      BY <1>2, <2>1
  <2>. QED
    BY <2>2
<1>4. \E g : g = Step(g)
  <2> HIDE DEF sum
  <2>. QED
    BY <1>3
<1>5. Offset = Step(Offset)
  BY <1>4 DEF Offset
<1>6. \A k \in Nat : Offset[k] = IF k = 0 THEN 0 ELSE Offset[k - 1] + files[k]
  BY <1>5
<1>7. \A k \in Nat : k + 1 \in Nat /\ k + 1 # 0 /\ (k + 1) - 1 = k
  OBVIOUS
<1>. QED
  BY <1>6, <1>7

(* Where the data of the files begins: offsets never decrease and grow by  *)
(* the size of each file.                                                  *)
LEMMA OffsetGrows ==
  ASSUME files \in Seq(Nat)
  PROVE  /\ \A k \in 0 .. Len(files) : Offset[k] \in Nat
         /\ \A j \in 0 .. Len(files), k \in 0 .. Len(files) : j <= k => Offset[j] <= Offset[k]
         /\ \A k \in 1 .. Len(files) : files[k] \in Nat /\ Offset[k] = Offset[k - 1] + files[k]
<1> DEFINE n == Len(files)
           S == {k \in Nat : k <= n => Offset[k] \in Nat /\ \A j \in 0 .. k : Offset[j] \in Nat /\ Offset[j] <= Offset[k]}
<1>1. n \in Nat /\ \A k \in 1 .. n : files[k] \in Nat
  OBVIOUS
<1> HIDE DEF n
<1>2. 0 \in S
  <2>1. \A j \in 0 .. 0 : j = 0
    OBVIOUS
  <2>. QED
    BY <2>1, OffsetSums
<1>3. ASSUME NEW k \in Nat, k \in S
      PROVE  k + 1 \in S
  <2> SUFFICES ASSUME k + 1 <= n
               PROVE  Offset[k + 1] \in Nat /\ \A j \in 0 .. k + 1 : Offset[j] \in Nat /\ Offset[j] <= Offset[k + 1]
    OBVIOUS
  <2>1. k + 1 \in 1 .. n /\ k <= n
    BY <1>1
  <2>2. Offset[k] \in Nat /\ (\A j \in 0 .. k : Offset[j] \in Nat /\ Offset[j] <= Offset[k]) /\ files[k + 1] \in Nat
    BY <1>1, <1>3, <2>1
  <2>3. Offset[k + 1] = Offset[k] + files[k + 1]
    BY OffsetSums
  <2>4. Offset[k + 1] \in Nat /\ Offset[k] <= Offset[k + 1]
    BY <2>2, <2>3
  <2>5. ASSUME NEW j \in 0 .. k + 1 PROVE Offset[j] \in Nat /\ Offset[j] <= Offset[k + 1]
    <3>1. CASE j = k + 1
      BY <3>1, <2>4
    <3>2. CASE j # k + 1
      <4>1. j \in 0 .. k /\ j \in Nat /\ j <= n
        BY <3>2, <2>1, <1>1
      <4>2. Offset[j] \in Nat /\ Offset[j] <= Offset[k]
        BY <4>1, <2>2
      <4>. QED
        BY <4>2, <2>2, <2>4
    <3>. QED
      BY <3>1, <3>2
  <2>. QED
    BY <2>4, <2>5
<1> HIDE DEF S
<1>4. Nat \subseteq S
  BY <1>2, <1>3, SetInduction
<1>5. \A k \in Nat : k <= n => Offset[k] \in Nat /\ \A j \in 0 .. k : Offset[j] \in Nat /\ Offset[j] <= Offset[k]
  BY <1>4 DEF S
<1>6. ASSUME NEW k \in 1 .. n PROVE Offset[k] = Offset[k - 1] + files[k]
  <2>1. k - 1 \in Nat /\ (k - 1) + 1 = k
    BY <1>1
  <2>. QED
    BY <2>1, OffsetSums
<1>. QED
  BY <1>1, <1>5, <1>6 DEF n

-----------------------------------------------------------------------------
(* The whole of a database: beyond DiskInv, which piece lies where, and    *)
(* that entries and data that were written are not lost.                   *)

TheBackup(k) == [what |-> <<"backup", k>>, pos |-> BACKUPS_POS + BackupSize * k, size |-> BackupSize]
TheData(k)   == [what |-> <<"data", k - 1>>, pos |-> DATA_POS + Offset[k - 1], size |-> files[k]]

Fits == Len(files) <= MAX_NODES

Exact(p) ==
  /\ p.what[1] # "old header"
  /\ p.what[1] = "backup" => p.what[2] < MAX_BACKUPS /\ p = TheBackup(p.what[2])
  /\ p.what[1] = "header" => p.what[2] = Offset[Len(files)]
  /\ p.what[1] = "FILE" /\ Fits => p.pos + p.size <= DATA_POS
  /\ p.what[1] = "data" => p.what[2] < Len(files) /\ p = TheData(p.what[2] + 1)

Begun == pc \notin {"start", "failed"}

AllExact == Begun => /\ \A p \in image : Exact(p)
                     /\ buffer # Unwritten => Exact(buffer)

Untouched == ~Begun => image = {OldHeader} /\ buffer = Unwritten

BackupsKept ==
  pc \notin {"start", "failed", "killed", "regions"} =>
    \A k \in 0 .. MAX_BACKUPS - 1 :
      (pc = "backups" => k < i) => TheBackup(k) \in image \cup {buffer}

DataKept ==
  Fits /\ pc \notin {"start", "failed", "killed", "regions", "backups"} =>
    \A k \in 1 .. Len(files) :
      files[k] > 0 /\ (pc \in {"node", "data"} => k <= i) => TheData(k) \in image \cup {buffer}

NextData ==
  /\ pc \in {"start", "regions", "backups"} => next_data_pos = 0
  /\ pc \in {"node", "data"} => next_data_pos = Offset[i]
  /\ pc \in {"null nodes", "header"} => next_data_pos = Offset[Len(files)]

HeaderWhole ==
  Written("header") # {} =>
    /\ \A k \in 0 .. MAX_BACKUPS - 1 : TheBackup(k) \in image
    /\ Fits => \A k \in 1 .. Len(files) : files[k] > 0 => TheData(k) \in image

Complete == AllExact /\ Untouched /\ BackupsKept /\ DataKept /\ NextData /\ HeaderWhole

(* Nothing that is placed exactly hits a backup entry or a file's data.    *)
LEMMA BackupsApart ==
  ASSUME NEW p \in Piece, Placed(p), Exact(p), NEW k \in 0 .. MAX_BACKUPS - 1
  PROVE  Apart(TheBackup(k), p) \/ TheBackup(k) = p
<1> DEFINE b == TheBackup(k)
<1>1. b.pos = BACKUPS_POS + 69 * k /\ b.size = 69 /\ k \in Nat /\ k + 1 <= MAX_BACKUPS
  BY DiskNumbers DEF TheBackup
<1>2. p.pos \in Nat /\ p.size \in Nat /\ p.what \in Content
  BY DEF Piece
<1>3. p.what[2] \in Nat /\ p.what[1] \in {"region", "backup", "FILE", "data", "header", "old header"}
  BY <1>2, ContentIsPair
<1>4. CASE p.what[1] = "backup"
  <2> DEFINE j == p.what[2]
  <2>1. j \in Nat /\ p = TheBackup(j)
    BY <1>3, <1>4 DEF Exact
  <2>2. CASE j = k
    BY <2>1, <2>2
  <2>3. CASE j # k
    <3>1. p.pos = BACKUPS_POS + 69 * j /\ p.size = 69
      BY <2>1, DiskNumbers DEF TheBackup
    <3>2. j + 1 <= k \/ k + 1 <= j
      BY <2>1, <2>3, <1>1
    <3> HIDE DEF j, b
    <3>. QED
      BY <3>1, <3>2, <2>1, <1>1, DiskNumbers, SMT DEF Apart, b
  <2>. QED
    BY <2>2, <2>3
<1>5. CASE p.what[1] = "region"
  <2> DEFINE j == p.what[2]
  <2>1. j \in Nat /\ j < MAX_REGIONS /\ p.pos = 64 + 2 * j /\ p.size = 2
    BY <1>3, <1>5, DiskNumbers DEF Placed
  <2> HIDE DEF j, b
  <2>. QED
    BY <2>1, <1>1, DiskNumbers, SMT DEF Apart, b
<1>6. CASE p.what[1] \in {"header", "old header"}
  <2>1. p.pos + p.size <= 64
    BY <1>6, DiskNumbers DEF Placed
  <2> HIDE DEF b
  <2>. QED
    BY <2>1, <1>1, <1>2, DiskNumbers, SMT DEF Apart, b
<1>7. CASE p.what[1] \in {"FILE", "data"}
  <2>1. p.pos >= NODES_POS
    BY <1>7, <1>2, DiskNumbers DEF Placed
  <2> HIDE DEF b
  <2>. QED
    BY <2>1, <1>1, <1>2, DiskNumbers, SMT DEF Apart, b
<1>. QED
  BY <1>3, <1>4, <1>5, <1>6, <1>7

(* A piece that the formatter wrote has no byte in common with the data of *)
(* a file, or is that data, when the files are no more than the nodes.     *)
LEMMA DataApart ==
  ASSUME files \in Seq(Nat), Fits, NEW p \in Piece, Placed(p), Exact(p), NEW k \in 1 .. Len(files)
  PROVE  Apart(TheData(k), p) \/ TheData(k) = p
<1> DEFINE d == TheData(k)
           o == Offset[k - 1]
           n == Len(files)
<1>1. /\ d.pos = DATA_POS + o /\ d.size = files[k] /\ o \in Nat /\ files[k] \in Nat /\ Offset[k] = o + files[k]
      /\ n \in Nat /\ k \in Nat
  <2>1. n \in Nat /\ k \in Nat /\ k - 1 \in 0 .. n
    OBVIOUS
  <2>. QED
    BY <2>1, OffsetGrows DEF TheData
<1>2. p.pos \in Nat /\ p.size \in Nat /\ p.what \in Content
  BY DEF Piece
<1>3. p.what[2] \in Nat /\ p.what[1] \in {"region", "backup", "FILE", "data", "header", "old header"}
  BY <1>2, ContentIsPair
<1>4. CASE p.what[1] = "data"
  <2> DEFINE j == p.what[2] + 1
             q == Offset[j - 1]
  <2>1. j \in 1 .. n /\ p = TheData(j)
    BY SMTT(30), <1>3, <1>4, <1>1 DEF Exact
  <2>2. CASE j = k
    BY <2>1, <2>2
  <2>3. CASE j # k
    <3>1. p.pos = DATA_POS + q /\ p.size = files[j] /\ q \in Nat /\ files[j] \in Nat /\ Offset[j] = q + files[j]
      <4>1. j - 1 \in 0 .. n
        BY SMTT(30), <2>1, <1>1
      <4>. QED
        BY <2>1, <4>1, OffsetGrows DEF TheData
    <3>2. j <= k - 1 \/ k <= j - 1
      BY <2>1, <2>3, <1>1
    <3>3. j \in 0 .. n /\ k \in 0 .. n /\ j - 1 \in 0 .. n /\ k - 1 \in 0 .. n
      BY SMTT(30), <2>1, <1>1
    <3>4. (j <= k - 1 => Offset[j] <= o) /\ (k <= j - 1 => Offset[k] <= q)
      BY <3>3, OffsetGrows
    <3> DEFINE s == files[j]
               t == files[k]
    <3> HIDE DEF j, d, o, q, s, t, n
    <3>5. \/ DATA_POS + q + s <= DATA_POS + o
          \/ DATA_POS + o + t <= DATA_POS + q
      <4> DEFINE base == DATA_POS
      <4>1. base \in Nat
        BY DiskNumbers
      <4>2. s \in Nat /\ t \in Nat /\ Offset[j] = q + s /\ Offset[k] = o + t /\ q \in Nat /\ o \in Nat
        BY <3>1, <1>1 DEF s, t
      <4>3. q + s <= o \/ o + t <= q
        BY <3>2, <3>4, <4>2
      <4> HIDE DEF base
      <4>4. base + q + s <= base + o \/ base + o + t <= base + q
        BY <4>1, <4>2, <4>3
      <4>. QED
        BY <4>4 DEF base
    <3>. QED
      BY <3>1, <3>5, <1>1 DEF Apart, d, s, t
  <2>. QED
    BY <2>2, <2>3
<1>5. CASE p.what[1] = "region"
  <2> DEFINE j == p.what[2]
  <2>1. j \in Nat /\ j < MAX_REGIONS /\ p.pos = 64 + 2 * j /\ p.size = 2
    BY <1>3, <1>5, DiskNumbers DEF Placed
  <2> HIDE DEF j, d, o
  <2>. QED
    BY <2>1, <1>1, DiskNumbers, SMT DEF Apart, d
<1>6. CASE p.what[1] \in {"header", "old header", "backup", "FILE"}
  <2>1. p.pos + p.size <= DATA_POS
    <3>1. CASE p.what[1] \in {"header", "old header"}
      <4>1. p.pos + p.size <= REGIONS_POS
        BY <3>1 DEF Placed
      <4>. QED
        BY <4>1, <1>2, DiskNumbers
    <3>2. CASE p.what[1] = "backup"
      <4>1. p.pos + p.size <= NODES_POS
        BY <3>2 DEF Placed
      <4>. QED
        BY <4>1, <1>2, DiskNumbers
    <3>3. CASE p.what[1] = "FILE"
      BY <3>3 DEF Exact
    <3>. QED
      BY <1>6, <3>1, <3>2, <3>3
  <2> HIDE DEF d, o
  <2>. QED
    BY <2>1, <1>1, <1>2, DiskNumbers, SMT DEF Apart, d
<1>. QED
  BY <1>3, <1>4, <1>5, <1>6

(* What is pushed out of the buffer is exact, and no entry and no data is  *)
(* lost on the way.                                                        *)
LEMMA PushExact ==
  ASSUME DiskInv, Complete, Begun
  PROVE  /\ \A p \in Pushed : Exact(p)
         /\ \A k \in 0 .. MAX_BACKUPS - 1 : TheBackup(k) \in image \cup {buffer} => TheBackup(k) \in Pushed
         /\ Fits => \A k \in 1 .. Len(files) : TheData(k) \in image \cup {buffer} => TheData(k) \in Pushed
<1>1. /\ image \subseteq Piece /\ buffer \in Piece \cup {Unwritten} /\ files \in Seq(Nat)
      /\ \A p \in image : Exact(p)
      /\ buffer # Unwritten => Exact(buffer) /\ Placed(buffer)
  <2>1. files \in CommandLines
    BY DEF DiskInv, DiskTypeOK
  <2>. QED
    BY <2>1, CommandLine DEF DiskInv, DiskTypeOK, AllPlaced, Complete, AllExact
<1>2. CASE buffer = Unwritten
  <2>1. Pushed = image
    BY <1>2 DEF Pushed
  <2>2. \A k \in 0 .. MAX_BACKUPS - 1 : TheBackup(k) # Unwritten
    <3> SUFFICES ASSUME NEW k \in 0 .. MAX_BACKUPS - 1 PROVE TheBackup(k) \in Piece
      BY UnwrittenAssumption
    <3>1. k \in Nat /\ BACKUPS_POS + BackupSize * k \in Nat /\ BackupSize \in Nat
      BY DiskNumbers
    <3>2. <<"backup", k>> \in Content
      BY <3>1, Contents
    <3>. QED
      BY <3>1, <3>2 DEF TheBackup, Piece
  <2>3. \A k \in 1 .. Len(files) : TheData(k) # Unwritten
    <3> SUFFICES ASSUME NEW k \in 1 .. Len(files) PROVE TheData(k) \in Piece
      BY UnwrittenAssumption
    <3>1. k - 1 \in Nat /\ k - 1 \in 0 .. Len(files)
      BY <1>1
    <3>2. Offset[k - 1] \in Nat /\ files[k] \in Nat
      BY <1>1, <3>1, OffsetGrows
    <3>3. DATA_POS + Offset[k - 1] \in Nat
      BY <3>2, DiskNumbers
    <3>4. <<"data", k - 1>> \in Content
      BY <3>1, Contents
    <3>. QED
      BY <3>2, <3>3, <3>4 DEF TheData, Piece
  <2>. QED
    BY <2>1, <2>2, <2>3, <1>1, <1>2
<1>3. CASE buffer # Unwritten
  <2>1. Pushed = {q \in image : Apart(q, buffer)} \cup {buffer}
    <3>1. \A q : Apart(buffer, q) <=> Apart(q, buffer)
      BY DEF Apart
    <3>2. \/ Pushed = {q \in image : Apart(buffer, q)} \cup {buffer}
          \/ Pushed = {q \in image : Apart(q, buffer)} \cup {buffer}
      BY <1>3 DEF Pushed, Over, Apart
    <3>. QED
      BY <3>1, <3>2
  <2>2. buffer \in Piece /\ Placed(buffer) /\ Exact(buffer)
    BY <1>1, <1>3
  <2>3. ASSUME NEW k \in 0 .. MAX_BACKUPS - 1, TheBackup(k) \in image \cup {buffer}
        PROVE  TheBackup(k) \in Pushed
    BY <2>1, <2>2, <2>3, BackupsApart
  <2>4. ASSUME Fits, NEW k \in 1 .. Len(files), TheData(k) \in image \cup {buffer}
        PROVE  TheData(k) \in Pushed
    BY <2>1, <2>2, <2>4, <1>1, DataApart
  <2>. QED
    BY <1>1, <2>1, <2>2, <2>3, <2>4
<1>. QED
  BY <1>2, <1>3

(* The command line stays what it is, and so does what depends on it.      *)
LEMMA SameCommandLine ==
  ASSUME files' = files
  PROVE  /\ Offset' = Offset /\ Fits' = Fits
         /\ \A k : TheData(k)' = TheData(k)
         /\ \A p : Exact(p)' <=> Exact(p)
<1>1. Offset' = Offset
  BY DEF Offset
<1>2. Fits' = Fits
  BY DEF Fits
<1>3. \A k : TheData(k)' = TheData(k)
  BY <1>1 DEF TheData
<1>4. \A p : Exact(p)' <=> Exact(p)
  BY <1>1, <1>2, <1>3 DEF Exact
<1>. QED
  BY <1>1, <1>2, <1>3, <1>4

(* What a step that writes an exact piece keeps.                           *)
LEMMA WriteExact ==
  ASSUME DiskInv, Complete, Begun, pc \notin {"close", "done", "killed"}, files' = files,
         failures = 0, failures' = 0,
         pc' \notin {"start", "failed"},
         NEW what, NEW pos, NEW size, Write(what, pos, size),
         Exact([what |-> what, pos |-> pos, size |-> size])
  PROVE  /\ AllExact' /\ Untouched' /\ HeaderWhole'
         /\ \A k \in 0 .. MAX_BACKUPS - 1 : TheBackup(k) \in image \cup {buffer} => TheBackup(k) \in image'
         /\ Fits => \A k \in 1 .. Len(files) : TheData(k) \in image \cup {buffer} => TheData(k) \in image'
<1> DEFINE p == [what |-> what, pos |-> pos, size |-> size]
<1>1. image' = Pushed /\ buffer' = IF size = 0 THEN Unwritten ELSE p
  BY WriteWorks
<1>2. /\ \A q \in image' : Exact(q)
      /\ \A k \in 0 .. MAX_BACKUPS - 1 : TheBackup(k) \in image \cup {buffer} => TheBackup(k) \in image'
      /\ Fits => \A k \in 1 .. Len(files) : TheData(k) \in image \cup {buffer} => TheData(k) \in image'
  BY <1>1, PushExact
<1>3. AllExact'
  <2>1. \A q : Exact(q)' <=> Exact(q)
    BY SameCommandLine
  <2>2. \A q \in image' : Exact(q)'
    BY <1>2, <2>1
  <2>3. buffer' # Unwritten => Exact(buffer)'
    <3>1. ASSUME NEW q, q = buffer', Exact(q)' PROVE Exact(buffer)'
      BY <3>1 DEF Exact
    <3>2. buffer' # Unwritten => buffer' = p /\ Exact(p)
      BY <1>1
    <3>. QED
      BY <2>1, <3>1, <3>2
  <2>. QED
    BY <2>2, <2>3 DEF AllExact
<1>4. Untouched'
  BY DEF Untouched, Begun
<1>5. HeaderWhole'
  <2>1. \A q \in Pushed : q.what[1] # "header"
    BY NoHeaderYet
  <2>2. Written("header")' = {}
    BY <1>1, <2>1 DEF Written
  <2>. QED
    BY <2>2 DEF HeaderWhole
<1>. QED
  BY <1>2, <1>3, <1>4, <1>5

(* The header of an older image is told from one that this run wrote.      *)
LEMMA OldIsNoHeader == OldHeader.what[1] = "old header" /\ "old header" # "header"
BY DEF OldHeader

(* Before dbfmt writes anything there is nothing to be incomplete.         *)
LEMMA CompleteInit == DiskInit => Complete
<1> SUFFICES ASSUME DiskInit PROVE Complete
  OBVIOUS
<1>1. pc = "start" /\ next_data_pos = 0 /\ image = {OldHeader} /\ buffer = Unwritten
  BY DEF DiskInit, OldHeader
<1>2. AllExact /\ Untouched /\ BackupsKept /\ DataKept /\ NextData
  BY <1>1 DEF AllExact, Untouched, Begun, BackupsKept, DataKept, NextData
<1>3. HeaderWhole
  BY <1>1, OldIsNoHeader DEF HeaderWhole, Written
<1>. QED
  BY <1>2, <1>3 DEF Complete

(* Every step of the formatter in which no write fails, and its end at any *)
(* point, keeps Complete.                                                  *)
LEMMA CompleteStep == DiskInv /\ Complete /\ failures = 0 /\ failures' = 0 /\ [DiskNext]_dvars => Complete'
<1> SUFFICES ASSUME DiskInv, Complete, failures = 0, failures' = 0, [DiskNext]_dvars PROVE Complete'
  OBVIOUS
<1>1. AllExact /\ Untouched /\ BackupsKept /\ DataKept /\ NextData /\ HeaderWhole
  BY DEF Complete
<1>2. InLoop /\ files \in Seq(Nat) /\ i \in Nat /\ Len(files) \in Nat
  <2>1. files \in CommandLines
    BY DEF DiskInv, DiskTypeOK
  <2>2. files \in Seq(Nat) /\ Len(files) \in Nat
    BY <2>1, CommandLine
  <2>3. InLoop /\ i \in 0 .. Len(files) + MAX_REGIONS + MAX_BACKUPS + MAX_NODES
    BY DEF DiskInv, DiskTypeOK
  <2>. QED
    BY <2>2, <2>3
<1> HIDE DEF DiskInv, Complete
<1>3. CASE Usage
  <2>1. pc = "start" /\ pc' = "failed" /\ UNCHANGED <<files, i, next_data_pos, image, buffer>>
    BY <1>3 DEF Usage
  <2>2. AllExact' /\ Untouched' /\ BackupsKept' /\ DataKept' /\ NextData'
    BY <1>1, <2>1 DEF AllExact, Untouched, Begun, BackupsKept, DataKept, NextData
  <2>3. Written("header")' = {}
    BY <1>1, <2>1, OldIsNoHeader DEF Untouched, Begun, Written, OldHeader
  <2>. QED
    BY <2>2, <2>3 DEF Complete, HeaderWhole
<1>4. CASE Open
  <2>1. pc = "start" /\ pc' = "regions" /\ image' = {} /\ UNCHANGED <<files, i, next_data_pos, buffer>>
        /\ buffer = Unwritten
    BY <1>4, <1>1 DEF Open, Truncated, Untouched, Begun
  <2>2. AllExact' /\ Untouched' /\ BackupsKept' /\ DataKept' /\ NextData'
    BY <1>1, <2>1 DEF AllExact, Untouched, Begun, BackupsKept, DataKept, NextData
  <2>3. Written("header")' = {}
    BY <2>1 DEF Written
  <2>. QED
    BY <2>2, <2>3 DEF Complete, HeaderWhole
<1>5. CASE WriteRegion
  <2> DEFINE what == <<"region", i>>
             pos  == REGIONS_POS + RegionSize * i
  <2>1. /\ pc = "regions" /\ i < MAX_REGIONS /\ Write(what, pos, RegionSize)
        /\ Loop(MAX_REGIONS, "backups") /\ files' = files /\ next_data_pos' = next_data_pos
    BY <1>5, <1>2 DEF WriteRegion, InLoop
  <2>2. \/ i' = i + 1 /\ pc' = "regions"
        \/ i' = 0 /\ pc' = "backups"
    BY <2>1, <1>2, LoopTurns, DiskNumbers
  <2>3. Exact([what |-> what, pos |-> pos, size |-> RegionSize])
    BY DEF Exact
  <2> HIDE DEF what, pos
  <2>4. AllExact' /\ Untouched' /\ HeaderWhole'
    BY <2>1, <2>2, <2>3, WriteExact DEF Begun
  <2>5. BackupsKept' /\ DataKept'
    <3>1. \A k \in 0 .. MAX_BACKUPS - 1 : ~(k < 0)
      BY DiskNumbers
    <3>. QED
      BY <2>2, <3>1 DEF BackupsKept, DataKept
  <2>6. NextData'
    BY <1>1, <2>1, <2>2 DEF NextData
  <2>. QED
    BY <2>4, <2>5, <2>6 DEF Complete
<1>6. CASE WriteBackup
  <2> DEFINE what == <<"backup", i>>
             pos  == BACKUPS_POS + BackupSize * i
  <2>1. /\ pc = "backups" /\ i < MAX_BACKUPS /\ Write(what, pos, BackupSize)
        /\ Loop(MAX_BACKUPS, AfterBackups) /\ files' = files /\ next_data_pos' = next_data_pos
    BY <1>6, <1>2 DEF WriteBackup, InLoop
  <2>2. \/ i + 1 < MAX_BACKUPS /\ i' = i + 1 /\ pc' = "backups"
        \/ i + 1 = MAX_BACKUPS /\ i' = 0 /\ pc' = AfterBackups
    BY <2>1, <1>2, LoopTurns, DiskNumbers
  <2>3. \/ AfterBackups = "node" /\ i' = i'
        \/ AfterBackups = "null nodes" /\ Len(files) = 0
    BY <1>2 DEF AfterBackups
  <2>4. TheBackup(i) = [what |-> what, pos |-> pos, size |-> BackupSize]
    BY DEF TheBackup
  <2>5. Exact(TheBackup(i))
    BY <2>1 DEF Exact, TheBackup
  <2> HIDE DEF what, pos
  <2>6. /\ AllExact' /\ Untouched' /\ HeaderWhole'
        /\ \A k \in 0 .. MAX_BACKUPS - 1 : TheBackup(k) \in image \cup {buffer} => TheBackup(k) \in image'
    BY <2>1, <2>2, <2>3, <2>4, <2>5, WriteExact DEF Begun
  <2>7. buffer' = TheBackup(i)
    BY <2>1, <2>4, DiskNumbers, WriteWorks
  <2>8. BackupsKept'
    <3> SUFFICES ASSUME NEW k \in 0 .. MAX_BACKUPS - 1, pc' = "backups" => k < i'
                 PROVE  TheBackup(k) \in image' \cup {buffer'}
      BY DEF BackupsKept, TheBackup
    <3>1. k < i \/ k = i
      BY <2>2, <1>2, DiskNumbers
    <3>. QED
      BY <3>1, <2>6, <2>7, <2>1, <1>1 DEF BackupsKept
  <2>9. DataKept'
    <3>1. CASE pc' = "backups"
      BY <3>1 DEF DataKept
    <3>2. CASE pc' = "node" /\ i' = 0
      <4>1. \A k \in 1 .. Len(files) : ~(k <= 0)
        BY <1>2
      <4>. QED
        BY <3>2, <4>1, <2>1 DEF DataKept
    <3>3. CASE Len(files) = 0
      <4>1. 1 .. Len(files) = {}
        BY <3>3
      <4>. QED
        BY <4>1, <2>1 DEF DataKept
    <3>. QED
      BY <2>2, <2>3, <3>1, <3>2, <3>3
  <2>10. NextData'
    <3>1. next_data_pos' = 0
      BY <1>1, <2>1 DEF NextData
    <3>2. Offset'[0] = 0 /\ Offset' = Offset
      BY <2>1, OffsetSums, SameCommandLine
    <3>. QED
      BY <2>1, <2>2, <2>3, <3>1, <3>2 DEF NextData
  <2>. QED
    BY <2>6, <2>8, <2>9, <2>10 DEF Complete
<1>7. ASSUME WriteNode \/ WriteNullNode
      PROVE  Complete'
  <2> DEFINE what == <<"FILE", 0>>
             pos  == NODES_POS + NodeSize * i
  <2>1. /\ pc \in {"node", "null nodes"} /\ Write(what, pos, NodeSize)
        /\ files' = files /\ next_data_pos' = next_data_pos
        /\ \/ pc = "node" /\ pc' = "data" /\ i' = i /\ i < Len(files)
           \/ pc = "null nodes" /\ pc' \in {"null nodes", "header"} /\ i < MAX_NODES
    BY <1>7, <1>2 DEF WriteNode, WriteNullNode, Loop, InLoop
  <2>2. Exact([what |-> what, pos |-> pos, size |-> NodeSize])
    <3>1. Fits => pos + NodeSize <= DATA_POS
      <4> SUFFICES ASSUME Fits PROVE pos + NodeSize <= DATA_POS
        OBVIOUS
      <4>1. i < MAX_NODES
        <5> DEFINE n == Len(files)
        <5>1. n \in Nat /\ n <= MAX_NODES /\ (i < n \/ i < MAX_NODES) /\ MAX_NODES \in Nat
          BY <2>1, <1>2, DiskNumbers DEF Fits
        <5> HIDE DEF n
        <5>. QED
          BY <5>1, <1>2
      <4>2. DATA_POS = NODES_POS + 6 * MAX_NODES /\ MAX_NODES \in Nat
        BY DiskNumbers DEF DATA_POS
      <4>. QED
        BY <4>1, <4>2, <1>2, DiskNumbers, SMT
    <3>. QED
      BY <3>1 DEF Exact
  <2> HIDE DEF what, pos
  <2>3. /\ AllExact' /\ Untouched' /\ HeaderWhole'
        /\ \A k \in 0 .. MAX_BACKUPS - 1 : TheBackup(k) \in image \cup {buffer} => TheBackup(k) \in image'
        /\ Fits => \A k \in 1 .. Len(files) : TheData(k) \in image \cup {buffer} => TheData(k) \in image'
    BY <2>1, <2>2, WriteExact DEF Begun
  <2>4. BackupsKept'
    BY <2>1, <2>3, <1>1 DEF BackupsKept, TheBackup
  <2>5. Fits' = Fits /\ Offset' = Offset /\ \A k : TheData(k)' = TheData(k)
    BY <2>1, SameCommandLine
  <2>6. DataKept'
    BY <2>1, <2>3, <2>5, <1>1 DEF DataKept
  <2>7. NextData'
    BY <2>1, <2>5, <1>1 DEF NextData
  <2>. QED
    BY <2>3, <2>4, <2>6, <2>7 DEF Complete
<1>8. CASE WriteData
  <2> DEFINE what == <<"data", i>>
             pos  == DATA_POS + next_data_pos
             size == files[i + 1]
  <2>1. /\ pc = "data" /\ i < Len(files) /\ Write(what, pos, size)
        /\ next_data_pos' = next_data_pos + size /\ i' = i + 1 /\ files' = files
        /\ pc' = IF i' < Len(files) THEN "node" ELSE IF i' < MAX_NODES THEN "null nodes" ELSE "header"
    BY <1>8, <1>2 DEF WriteData, InLoop
  <2>2. \/ i' < Len(files) /\ pc' = "node"
        \/ ~(i' < Len(files)) /\ pc' \in {"null nodes", "header"}
    BY <2>1
  <2>3. next_data_pos = Offset[i] /\ Offset[i + 1] = Offset[i] + files[i + 1] /\ (i + 1) - 1 = i
    <3>1. next_data_pos = Offset[i]
      BY <1>1, <2>1 DEF NextData
    <3>2. (i + 1) - 1 = i
      BY <1>2
    <3>3. Offset[i + 1] = Offset[i] + files[i + 1]
      BY <1>2, OffsetSums
    <3>. QED
      BY <3>1, <3>2, <3>3
  <2>4. TheData(i + 1) = [what |-> what, pos |-> pos, size |-> size]
    BY <2>3 DEF TheData
  <2>5. Exact([what |-> what, pos |-> pos, size |-> size])
    <3>1. /\ TheData(i + 1).what = <<"data", i>>
      BY <2>3 DEF TheData
    <3>2. what[1] = "data" /\ what[2] = i
      OBVIOUS
    <3> HIDE DEF what, pos, size
    <3>. QED
      BY <2>1, <2>4, <3>1, <3>2 DEF Exact, what
  <2> HIDE DEF what, pos, size
  <2>6. /\ AllExact' /\ Untouched' /\ HeaderWhole'
        /\ \A k \in 0 .. MAX_BACKUPS - 1 : TheBackup(k) \in image \cup {buffer} => TheBackup(k) \in image'
        /\ Fits => \A k \in 1 .. Len(files) : TheData(k) \in image \cup {buffer} => TheData(k) \in image'
    BY <2>1, <2>2, <2>5, WriteExact DEF Begun
  <2>7. BackupsKept'
    BY <2>1, <2>2, <2>6, <1>1 DEF BackupsKept, TheBackup
  <2>8. Fits' = Fits /\ Offset' = Offset /\ \A k : TheData(k)' = TheData(k)
    BY <2>1, SameCommandLine
  <2>9. i' = Len(files) \/ i' < Len(files)
    <3> DEFINE n == Len(files)
    <3>1. n \in Nat /\ i < n /\ i' = i + 1
      BY <2>1, <1>2
    <3> HIDE DEF n
    <3>2. i' = n \/ i' < n
      BY <3>1, <1>2
    <3>. QED
      BY <3>2 DEF n
  <2>10. DataKept'
    <3> SUFFICES ASSUME Fits, NEW k \in 1 .. Len(files), files[k] > 0, pc' = "node" => k <= i'
                 PROVE  TheData(k) \in image' \cup {buffer'}
      BY <2>1, <2>2, <2>8 DEF DataKept
    <3>1. k <= i + 1
      <4> DEFINE n == Len(files)
      <4>1. n \in Nat /\ k \in 1 .. n /\ (i' = n \/ i' < n) /\ i' = i + 1 /\ (i' < n => k <= i')
        BY <2>1, <2>2, <2>9, <1>2
      <4> HIDE DEF n
      <4>. QED
        BY <4>1, <1>2
    <3>2. CASE k <= i
      BY <3>2, <2>1, <2>6, <1>1 DEF DataKept
    <3>3. CASE k = i + 1
      <4>1. size # 0
        BY <3>3, <1>2 DEF size
      <4>. QED
        BY <3>3, <4>1, <2>1, <2>4, WriteWorks
    <3>. QED
      BY <3>1, <3>2, <3>3, <1>2
  <2>11. NextData'
    <3>1. next_data_pos' = Offset[i']
      BY <2>1, <2>3 DEF size
    <3>. QED
      BY <3>1, <2>1, <2>2, <2>8, <2>9 DEF NextData
  <2>. QED
    BY <2>6, <2>7, <2>10, <2>11 DEF Complete
<1>9. CASE WriteHeader
  <2> DEFINE what == <<"header", next_data_pos>>
  <2>1. /\ pc = "header" /\ Write(what, HEADER_POS, HeaderSize) /\ pc' = "close"
        /\ files' = files
    BY <1>9 DEF WriteHeader
  <2>2. Exact([what |-> what, pos |-> HEADER_POS, size |-> HeaderSize])
    <3>1. next_data_pos = Offset[Len(files)]
      BY <1>1, <2>1 DEF NextData
    <3>. QED
      BY <3>1 DEF Exact
  <2> HIDE DEF what
  <2>3. /\ AllExact' /\ Untouched' /\ HeaderWhole'
        /\ \A k \in 0 .. MAX_BACKUPS - 1 : TheBackup(k) \in image \cup {buffer} => TheBackup(k) \in image'
        /\ Fits => \A k \in 1 .. Len(files) : TheData(k) \in image \cup {buffer} => TheData(k) \in image'
    BY <2>1, <2>2, WriteExact DEF Begun
  <2>4. BackupsKept'
    BY <2>1, <2>3, <1>1 DEF BackupsKept, TheBackup
  <2>5. Fits' = Fits /\ \A k : TheData(k)' = TheData(k)
    BY <2>1, SameCommandLine
  <2>6. DataKept'
    BY <2>1, <2>3, <2>5, <1>1 DEF DataKept
  <2>7. NextData'
    BY <2>1 DEF NextData
  <2>. QED
    BY <2>3, <2>4, <2>6, <2>7 DEF Complete
<1>10. ASSUME Close \/ Killed
       PROVE  Complete'
  <2>1. /\ Begun /\ pc \notin {"done", "killed"} /\ pc' \in {"done", "killed"} /\ files' = files
        /\ buffer' = Unwritten
        /\ image' = Pushed \/ (image' = image /\ pc # "close" /\ pc' = "killed")
           \/ (image' = image /\ pc = "close" /\ pc' = "killed")
        /\ pc' = "done" => pc = "close" /\ image' = Pushed
    BY <1>10, WriteWorks DEF Close, Killed, Begun, PushWorks
  <2>2. /\ \A p \in image : Exact(p)
        /\ \A p \in Pushed : Exact(p)
        /\ \A k \in 0 .. MAX_BACKUPS - 1 : TheBackup(k) \in image \cup {buffer} => TheBackup(k) \in Pushed
        /\ Fits => \A k \in 1 .. Len(files) : TheData(k) \in image \cup {buffer} => TheData(k) \in Pushed
    BY <1>1, <2>1, PushExact DEF AllExact
  <2>3. Fits' = Fits /\ (\A k : TheData(k)' = TheData(k)) /\ \A p : Exact(p)' <=> Exact(p)
    BY <2>1, SameCommandLine
  <2>4. AllExact' /\ Untouched'
    BY <2>1, <2>2, <2>3 DEF AllExact, Untouched, Begun
  <2>5. pc = "close" =>
          /\ \A k \in 0 .. MAX_BACKUPS - 1 : TheBackup(k) \in Pushed
          /\ Fits => \A k \in 1 .. Len(files) : files[k] > 0 => TheData(k) \in Pushed
    BY <1>1, <2>2 DEF BackupsKept, DataKept
  <2>6. BackupsKept' /\ DataKept' /\ NextData'
    BY <2>1, <2>3, <2>5 DEF BackupsKept, DataKept, NextData, TheBackup
  <2>7. HeaderWhole'
    <3>1. CASE image' = image
      <4>1. Written("header") = {}
        BY <2>1 DEF DiskInv, HeaderLast
      <4>. QED
        BY <3>1, <4>1 DEF HeaderWhole, Written
    <3>2. CASE image' = Pushed /\ pc # "close"
      <4>1. \A q \in Pushed : q.what[1] # "header"
        BY <3>2, <2>1, NoHeaderYet
      <4>. QED
        BY <3>2, <4>1 DEF HeaderWhole, Written
    <3>3. CASE image' = Pushed /\ pc = "close"
      BY <3>3, <2>1, <2>3, <2>5 DEF HeaderWhole, TheBackup
    <3>. QED
      BY <2>1, <3>1, <3>2, <3>3
  <2>. QED
    BY <2>4, <2>6, <2>7 DEF Complete
<1>11. CASE UNCHANGED dvars
  <2>1. /\ files' = files /\ pc' = pc /\ i' = i /\ next_data_pos' = next_data_pos /\ image' = image
        /\ buffer' = buffer
    BY <1>11 DEF dvars
  <2>2. Fits' = Fits /\ Offset' = Offset /\ (\A k : TheData(k)' = TheData(k)) /\ \A p : Exact(p)' <=> Exact(p)
    BY <2>1, SameCommandLine
  <2>3. AllExact'
    <3>1. ASSUME NEW q, q = buffer', Exact(q)' PROVE Exact(buffer)'
      BY <3>1 DEF Exact
    <3>. QED
      BY <1>1, <2>1, <2>2, <3>1 DEF AllExact, Begun
  <2>4. Untouched' /\ BackupsKept' /\ DataKept' /\ NextData' /\ HeaderWhole'
    BY <1>1, <2>1, <2>2 DEF Untouched, Begun, BackupsKept, DataKept, NextData, HeaderWhole, Written, TheBackup
  <2>. QED
    BY <2>3, <2>4 DEF Complete
<1>. QED
  BY <1>3, <1>4, <1>5, <1>6, <1>7, <1>8, <1>9, <1>10, <1>11 DEF DiskNext

(* A file with a header is a whole database, whatever the command line and *)
(* however the formatter ends, as long as no write fails: every region and *)
(* entry, and the data of every file where its node says it is. The header *)
(* of before has nothing new beside it even then (HeaderMeansComplete;     *)
(* main writes the header last, into a file that it has emptied first).    *)
THEOREM HeaderIsTrue == Spec => []HeaderMeansComplete
<1>1. Init => (failures = 0 => Complete)
  BY CompleteInit DEF Init
<1>2. /\ FileInv /\ (failures = 0 => DiskInv) /\ (failures = 0 => Complete) /\ [Next]_vars
      => (failures = 0 => Complete)'
  <2>1. [Next]_vars => [DiskNext]_dvars
    BY DEF Next, vars
  <2>2. FileInv /\ [DiskNext]_dvars => (failures' = 0 => failures = 0)
    BY FailuresStay DEF FileInv
  <2>. QED
    BY <2>1, <2>2, CompleteStep
<1>3. FileInv => (Written("old header") # {} => image = Written("old header"))
  <2> SUFFICES ASSUME FileInv, Written("old header") # {} PROVE image = Written("old header")
    OBVIOUS
  <2>1. pc \in {"start", "failed"}
    BY DEF FileInv, OldOrNew, IsNew, Written
  <2>2. image = {OldHeader} /\ OldHeader.what[1] = "old header"
    BY <2>1, OldIsNoHeader DEF FileInv, OldOrNew
  <2>. QED
    BY <2>2 DEF Written
<1>4. failures = 0 /\ DiskInv /\ Complete =>
        \A h \in Written("header") :
          /\ \A k \in 0 .. MAX_REGIONS - 1 : \E p \in Written("region") : p.what[2] = k
          /\ \A k \in 0 .. MAX_BACKUPS - 1 : \E p \in Written("backup") : p.what[2] = k
          /\ Fits => /\ h.what[2] = Offset[Len(files)]
                     /\ \A k \in DOMAIN files : files[k] > 0 => TheData(k) \in image
  <2> SUFFICES ASSUME DiskInv, Complete, NEW h \in Written("header")
               PROVE  /\ \A k \in 0 .. MAX_REGIONS - 1 : \E p \in Written("region") : p.what[2] = k
                      /\ \A k \in 0 .. MAX_BACKUPS - 1 : \E p \in Written("backup") : p.what[2] = k
                      /\ Fits => /\ h.what[2] = Offset[Len(files)]
                                 /\ \A k \in DOMAIN files : files[k] > 0 => TheData(k) \in image
    OBVIOUS
  <2>1. /\ \A k \in 0 .. MAX_REGIONS - 1 : TheRegion(k) \in image
        /\ \A k \in 0 .. MAX_BACKUPS - 1 : TheBackup(k) \in image
        /\ Fits => \A k \in 1 .. Len(files) : files[k] > 0 => TheData(k) \in image
    BY DEF DiskInv, HeaderLast, Complete, HeaderWhole
  <2>2. \A k : TheRegion(k).what[1] = "region" /\ TheRegion(k).what[2] = k
    BY DEF TheRegion
  <2>3. \A k : TheBackup(k).what[1] = "backup" /\ TheBackup(k).what[2] = k
    BY DEF TheBackup
  <2>4. Begun
    BY OldIsNoHeader DEF Complete, Untouched, Written
  <2>5. h.what[2] = Offset[Len(files)]
    BY <2>4 DEF Complete, AllExact, Exact, Written
  <2>6. DOMAIN files = 1 .. Len(files)
    <3>1. files \in CommandLines
      BY DEF DiskInv, DiskTypeOK
    <3>2. files \in Seq(Nat)
      BY <3>1, CommandLine
    <3>. QED
      BY <3>2
  <2>. QED
    BY <2>1, <2>2, <2>3, <2>5, <2>6 DEF Written
<1>5. FileInv /\ (failures = 0 => DiskInv) /\ (failures = 0 => Complete) => HeaderMeansComplete
  BY <1>3, <1>4 DEF HeaderMeansComplete, Fits, TheData
<1>. QED
  BY <1>1, <1>2, <1>5, DiskAlways, PTL DEF Spec

==============================================================================
