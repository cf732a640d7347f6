----------------------------- MODULE NodeLookup -----------------------------
(***************************************************************************)
(* node_lookup (src/src/node.c) over databases that name each other in     *)
(* their backup lists: which database it finds a node in, when it gives    *)
(* up, and whether it returns.                                             *)
(*                                                                         *)
(* One call searches the region of one database and then, if the caller    *)
(* named no backup, calls itself for every entry of the backup list. The   *)
(* calls in progress are the sequence `frames`.                            *)
(*                                                                         *)
(* All databases here are in memory (type 1). An entry that leads nowhere, *)
(* because its type is not implemented or its signature or reference does  *)
(* not match, is Broken. Disk entries allocate and are not in this module. *)
(***************************************************************************)
EXTENDS Integers, Sequences, FiniteSets

CONSTANTS
  Db,          \* the databases
  Root,        \* the one the caller searches
  NumBackups,  \* entries of each backup list
  Null,        \* a null entry of a backup list
  Broken,      \* an entry node_lookup_database_ref fails for
  Worlds,      \* the backup lists and contents to consider
  StackFrames, \* how many calls the kernel's stack has room for
  NotFound,    \* the result of a lookup that fails
  Running      \* no call has returned yet

Slot  == 0 .. NumBackups - 1
Entry == Db \cup {Null, Broken}

(* A world: the backup list of each database and what the region that is   *)
(* searched holds there: the node ("hit"), not the node ("miss"), or the   *)
(* database has no such region ("none").                                   *)
World == [backups : [Db -> [Slot -> Entry]], here : [Db -> {"hit", "miss", "none"}]]

ASSUME LookupAssumption ==
  /\ IsFiniteSet(Db) /\ Root \in Db
  /\ NumBackups \in Nat \ {0} /\ StackFrames \in Nat \ {0}
  /\ Null \notin Db /\ Broken \notin Db /\ Null # Broken
  /\ NotFound \notin Db /\ Running \notin Db /\ NotFound # Running
  /\ Worlds \subseteq World

VARIABLES
  asked,    \* ref.backup of the caller: 0, or an entry counted from 1
  world,    \* the backup lists and contents: nobody changes them meanwhile
  frames,   \* the calls in progress, the innermost last
  result,   \* what the innermost finished call returned: a Db, or NotFound
  fault     \* the stack overflowed

vars == <<asked, world, frames, result, fault>>

(* A call node_lookup(ref, db): ref.backup, and the backup entry its loop  *)
(* is at (-1: it has not searched its own database yet).                   *)
Frame == [db : Db, backup : 0 .. NumBackups + 1, slot : -1 .. NumBackups]

Call(db, backup) == [db |-> db, backup |-> backup, slot |-> -1]

TypeOK ==
  /\ asked \in 0 .. NumBackups + 1
  /\ world \in World
  /\ frames \in Seq(Frame) /\ Len(frames) <= StackFrames
  /\ result \in Db \cup {NotFound, Running}
  /\ fault \in BOOLEAN

-----------------------------------------------------------------------------
(* Bugs the code could have had: a recursive call that searches every      *)
(* backup again, one that takes its own slot for an index counted from 1,  *)
(* a loop that does not move on, an index of the caller that is not        *)
(* corrected.                                                              *)

SearchesAll(slot) == 0
CountsBack(slot)  == slot - 1
StaysAt(slot)     == slot

SearchesNextEntry(call) ==
  IF call.backup = 0 THEN call.db
  ELSE IF call.backup < NumBackups THEN world.backups[call.db][call.backup]
  ELSE Broken

-----------------------------------------------------------------------------
Top == frames[Len(frames)]

Pop == SubSeq(frames, 1, Len(frames) - 1)

(* node_lookup_backup: an index past the end of the list, or the first     *)
(* entry after it, is not an entry of any database.                        *)
EntryAt(db, slot) == IF slot \in Slot THEN world.backups[db][slot] ELSE Broken

(* The database a call searches itself: its own, or the one ref.backup     *)
(* names (counted from 1).                                                 *)
Searched(call) ==
  IF call.backup = 0 THEN call.db ELSE EntryAt(call.db, call.backup - 1)

(* ref2.backup of the recursive call for an entry: its slot, not counted   *)
(* from 1.                                                                 *)
RecursiveBackup(slot) == slot

NextSlot(slot) == slot + 1

Return(r) ==
  /\ frames' = Pop
  /\ result' = r
  /\ UNCHANGED <<asked, world, fault>>

Active == frames # <<>> /\ ~ fault

-----------------------------------------------------------------------------
Init ==
  /\ world \in Worlds
  /\ asked \in 0 .. NumBackups + 1
  /\ frames = <<Call(Root, asked)>>
  /\ result = Running
  /\ fault = FALSE

(* The beginning of a call: find the database, then search the region.     *)
SearchRegion ==
  /\ Active /\ result = Running /\ Top.slot = -1
  /\ LET db == Searched(Top)
     IN  \/ /\ db \in Db => world.here[db] = "none"
            /\ Return(NotFound)
         \/ /\ db \in Db /\ world.here[db] = "hit"
            /\ Return(db)
         \/ /\ db \in Db /\ world.here[db] = "miss" /\ Top.backup # 0
            /\ Return(NotFound)
         \/ /\ db \in Db /\ world.here[db] = "miss" /\ Top.backup = 0
            /\ frames' = [frames EXCEPT ![Len(frames)].slot = 0]
            /\ UNCHANGED <<asked, world, result, fault>>

(* The loop over the backup list, at an entry that is null.                *)
SkipNull ==
  /\ Active /\ result = Running /\ Top.slot \in Slot
  /\ world.backups[Top.db][Top.slot] = Null
  /\ frames' = [frames EXCEPT ![Len(frames)].slot = NextSlot(@)]
  /\ UNCHANGED <<asked, world, result, fault>>

(* At an entry that leads nowhere: the whole lookup fails.                 *)
GiveUp ==
  /\ Active /\ result = Running /\ Top.slot \in Slot
  /\ world.backups[Top.db][Top.slot] = Broken
  /\ Return(NotFound)

(* At an entry that names a database: call node_lookup for it, if the      *)
(* stack has room.                                                         *)
Recurse ==
  /\ Active /\ result = Running /\ Top.slot \in Slot
  /\ LET entry == world.backups[Top.db][Top.slot]
     IN  /\ entry \in Db
         /\ IF Len(frames) < StackFrames
            THEN /\ frames' = Append(frames, Call(entry, RecursiveBackup(Top.slot)))
                 /\ UNCHANGED fault
            ELSE /\ fault' = TRUE
                 /\ UNCHANGED frames
  /\ UNCHANGED <<asked, world, result>>

(* Back from the recursive call: pass a node on, or go to the next entry.  *)
Resume ==
  /\ Active /\ result # Running
  /\ \/ /\ result \in Db
        /\ Return(result)
     \/ /\ result = NotFound
        /\ frames' = [frames EXCEPT ![Len(frames)].slot = NextSlot(@)]
        /\ result' = Running
        /\ UNCHANGED <<asked, world, fault>>

(* The whole list was searched.                                            *)
Exhausted ==
  /\ Active /\ result = Running /\ Top.slot = NumBackups
  /\ Return(NotFound)

Next == SearchRegion \/ SkipNull \/ GiveUp \/ Recurse \/ Resume \/ Exhausted

(* The kernel runs nothing else: a call goes on.                           *)
Fairness == WF_vars(Next)

Spec == Init /\ [][Next]_vars /\ Fairness

-----------------------------------------------------------------------------
(* Properties.                                                             *)

Done == frames = <<>>

(* The databases along the first entries of the backup lists, as far as a  *)
(* search that misses goes: after at most n of them, and all.              *)
FirstEntriesUpTo[n \in Nat] ==
  IF n = 0 THEN {Root}
  ELSE LET seen == FirstEntriesUpTo[n - 1]
       IN  seen \cup {e \in Db : \E d \in seen : /\ world.here[d] = "miss"
                                                /\ world.backups[d][0] = e}

FirstEntries == FirstEntriesUpTo[Cardinality(Db)]

(* A node that is found is where the reference says: in the backup it      *)
(* names, if it names one, and else in the caller's own database if that   *)
(* has it, however many calls were made in between.                        *)
FoundWhereAsked ==
  Done /\ result \in Db =>
    /\ world.here[result] = "hit"
    /\ asked # 0 => result = world.backups[Root][asked - 1]
    /\ asked = 0 /\ world.here[Root] = "hit" => result = Root

(* A node in a database along the first entries is found, and found there, *)
(* whatever the other entries hold: the part of "all items will be         *)
(* searched" (design.txt:12) that the recursion keeps.                     *)
FirstEntriesSearched ==
  Done /\ asked = 0 /\ (\E d \in FirstEntries : world.here[d] = "hit") =>
    result \in FirstEntries

(* What the call for a later entry searches: ref2.backup is the slot, not  *)
(* counted from 1, so it is not the database the entry names but the one   *)
(* that database's own list names one place earlier.                       *)
Behind(d, slot) ==
  LET entry == world.backups[d][slot]
  IN  IF entry \in Db THEN EntryAt(entry, slot - 1) ELSE Broken

(* The databases a lookup searches: with an index of a backup, that        *)
(* backup; else those along the first entries, and what is behind their    *)
(* later entries, of each list up to the first that leads nowhere.         *)
Intact(d, slot) == \A s \in 0 .. slot : world.backups[d][s] # Broken

Way ==
  IF asked # 0 THEN {EntryAt(Root, asked - 1)}
  ELSE FirstEntries \cup
         {Behind(p[1], p[2]) : p \in {q \in FirstEntries \X (Slot \ {0}) :
                                       world.here[q[1]] = "miss" /\ Intact(q[1], q[2])}}

(* A lookup finds the node exactly if one of these databases has it, in    *)
(* one that has it, and in the one that the reference says or that comes   *)
(* first.                                                                  *)
FindsWhatItSearches ==
  /\ FoundWhereAsked /\ FirstEntriesSearched
  /\ Done => LET hits == {d \in Way \cap Db : world.here[d] = "hit"}
             IN  IF hits = {} THEN result = NotFound ELSE result \in hits

(* The stack holds: a lookup needs one frame per database, and one more    *)
(* for a call by a later entry, unless the first entries form a cycle.     *)
StackSuffices == ~ fault

(* What a lookup has left to do. The calls in progress search their whole  *)
(* lists, but for the innermost if its reference names a backup; each      *)
(* entry takes three steps: the call, its search, the way back. Only while *)
(* all are at their first entries may more calls of that kind follow.      *)
Depth      == IF Top.backup = 0 THEN Len(frames) ELSE Len(frames) - 1
StepsDone  == IF result # Running THEN 2 ELSE IF Top.backup # 0 THEN 1 ELSE 0
StepsAhead == 3 * (NumBackups - frames[Depth].slot) - StepsDone
Descends   == result = Running /\ Top.backup = 0 /\ Top.slot <= 0
PerCall    == 3 * (NumBackups + 1)

Work == IF ~ Active THEN 0
        ELSE IF Depth = 0 THEN 1
        ELSE PerCall * Depth + StepsAhead
               + (IF Descends THEN 2 * PerCall * (StackFrames - Depth) ELSE 0)

(* A lookup is over after a number of steps that grows with the backup     *)
(* entries and the stack alone, whatever names what: every step leaves     *)
(* less to do, the one that overflows the stack included.                  *)
LookupIsShort ==
  Work <= 2 * PerCall * StackFrames /\ [][Work' \in 0 .. Work - 1]_vars

(* Every lookup returns.                                                   *)
Returns == <>Done

(* design.txt:10-12: if no backup is given, all items will be searched     *)
(* until one is found. So a lookup that fails has seen every database in   *)
(* the caller's backup list.                                               *)
AllItemsSearched ==
  Done /\ asked = 0 /\ result = NotFound =>
    \A slot \in Slot :
      LET entry == world.backups[Root][slot]
      IN  entry \in Db => world.here[entry] # "hit"

==============================================================================
