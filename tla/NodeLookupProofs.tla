-------------------------- MODULE NodeLookupProofs --------------------------
(***************************************************************************)
(* Proofs about NodeLookup, for every set of databases, every backup list  *)
(* and every size of the stack: what the calls in progress are at any time *)
(* (LookupInv), that a node that is found is where the reference asks for  *)
(* it, that the databases along the first entries are all searched, how    *)
(* many calls the stack must have room for, how many steps a lookup takes, *)
(* and which databases it searches, exactly.                               *)
(***************************************************************************)
EXTENDS NodeLookup, NatSets, FiniteSetTheorems, SequenceTheorems, TLAPS

(* A frame that has begun its loop over the backup list is a call that     *)
(* names no backup, and its own database does not have the node.           *)
InLoop(f) == f.backup = 0 /\ world.here[f.db] = "miss"

(* The frame g is the call that frame f makes for the entry it is at.      *)
Calls(f, g) == /\ f.slot \in Slot
               /\ g.db = world.backups[f.db][f.slot]
               /\ g.backup = RecursiveBackup(f.slot)

(* The calls in progress: the caller's first, each one made by the one     *)
(* before it.                                                              *)
Chain ==
  /\ frames # <<>> => frames[1].db = Root /\ frames[1].backup = asked
  /\ \A k \in 1 .. Len(frames) : frames[k].slot # -1 => InLoop(frames[k])
  /\ \A k \in 1 .. Len(frames) - 1 : Calls(frames[k], frames[k + 1])

(* A call that returned was made by one that is at an entry.               *)
Awaited == frames # <<>> /\ result # Running => Top.slot \in Slot

(* What FoundWhereAsked says, also before the lookup is done.              *)
FoundInv ==
  result \in Db =>
    /\ world.here[result] = "hit"
    /\ asked # 0 => result = world.backups[Root][asked - 1]
    /\ asked = 0 /\ world.here[Root] = "hit" => result = Root

LookupInv == TypeOK /\ world \in Worlds /\ Chain /\ Awaited /\ FoundInv

-----------------------------------------------------------------------------
(* A set of databases that all miss and whose first entries stay in the    *)
(* set: a cycle, or several.                                               *)
FirstCycle(w, C) ==
  /\ C \subseteq Db /\ C # {}
  /\ \A d \in C : w.here[d] = "miss" /\ w.backups[d][0] \in C

(* The frames of a lookup that has followed first entries only.            *)
AllFirst == \A k \in 1 .. Len(frames) : frames[k].backup = 0 /\ frames[k].slot \in {-1, 0}

Distinct == \A i, j \in 1 .. Len(frames) : frames[i].db = frames[j].db => i = j

Descending == result = Running /\ frames # <<>> /\ AllFirst /\ Distinct

(* A node along the first entries: the lookup is on its way to it, or has  *)
(* found one there.                                                        *)
SearchedInv ==
  asked = 0 /\ (\E d \in FirstEntries : world.here[d] = "hit") =>
    Descending \/ result \in FirstEntries

-----------------------------------------------------------------------------
(* The sequence of calls as the provers need it: its length, its elements. *)
LEMMA FramesTyped ==
  ASSUME TypeOK
  PROVE  /\ Len(frames) \in Nat
         /\ \A k \in 1 .. Len(frames) : frames[k] \in Frame
         /\ frames # <<>> => Len(frames) > 0 /\ Top \in Frame
         /\ frames = <<>> => Len(frames) = 0
<1>1. frames \in Seq(Frame)
  BY DEF TypeOK
<1>2. Len(frames) \in Nat /\ \A k \in 1 .. Len(frames) : frames[k] \in Frame
  BY <1>1, LenProperties, ElementOfSeq
<1>3. frames # <<>> => Len(frames) > 0
  BY <1>1, EmptySeq
<1>4. Len(frames) > 0 => Len(frames) \in 1 .. Len(frames)
  BY <1>2
<1>. QED
  BY <1>2, <1>3, <1>4, EmptySeq DEF Top

(* A return leaves the calls before the innermost as they are.             *)
LEMMA PopKeeps ==
  ASSUME TypeOK, frames # <<>>
  PROVE  /\ Pop \in Seq(Frame) /\ Len(Pop) = Len(frames) - 1
         /\ \A k \in 1 .. Len(frames) - 1 : Pop[k] = frames[k]
         /\ Pop # <<>> => Len(frames) > 1
<1> DEFINE n == Len(frames)
<1>1. n \in Nat /\ n > 0 /\ \A k \in 1 .. n - 1 : frames[k] \in Frame
  BY FramesTyped
<1>2. /\ SubSeq(frames, 1, n - 1) \in Seq(Frame)
      /\ Len(SubSeq(frames, 1, n - 1)) = IF 1 <= n - 1 THEN (n - 1) - 1 + 1 ELSE 0
      /\ \A k \in 1 .. (n - 1) - 1 + 1 : SubSeq(frames, 1, n - 1)[k] = frames[1 + k - 1]
  <2>1. n - 1 \in Int
    BY <1>1
  <2> HIDE DEF n
  <2>. QED
    BY <1>1, <2>1, SubSeqProperties
<1>3. Len(Pop) = n - 1
  <2> DEFINE m == Len(SubSeq(frames, 1, n - 1))
  <2>1. m = IF 1 <= n - 1 THEN (n - 1) - 1 + 1 ELSE 0
    BY <1>2
  <2> HIDE DEF m, n
  <2>2. m = n - 1
    BY <2>1, <1>1
  <2>. QED
    BY <2>2 DEF m, n, Pop
<1>4. \A k \in 1 .. n - 1 : k \in 1 .. (n - 1) - 1 + 1 /\ 1 + k - 1 = k
  <2> HIDE DEF n
  <2>. QED
    BY <1>1
<1>5. \A k \in 1 .. n - 1 : Pop[k] = frames[k]
  <2> SUFFICES ASSUME NEW k \in 1 .. n - 1 PROVE SubSeq(frames, 1, n - 1)[k] = frames[k]
    BY DEF Pop
  <2>. QED
    BY <1>2, <1>4
<1>6. Pop # <<>> => n > 1
  <2>1. Pop # <<>> => Len(Pop) \in Nat \ {0}
    BY <1>2, EmptySeq DEF Pop
  <2> DEFINE m == Len(Pop)
  <2>2. Pop # <<>> => m \in Nat \ {0}
    BY <2>1
  <2>3. m = n - 1
    BY <1>3
  <2> HIDE DEF m, n
  <2>. QED
    BY <2>2, <2>3, <1>1
<1>. QED
  BY <1>2, <1>3, <1>5, <1>6 DEF Pop

(* Moving on in the innermost loop changes only that frame's slot.         *)
LEMMA MoveKeeps ==
  ASSUME TypeOK, frames # <<>>, NEW v \in -1 .. NumBackups,
         NEW g, g = [frames EXCEPT ![Len(frames)].slot = v]
  PROVE  /\ g \in Seq(Frame) /\ Len(g) = Len(frames) /\ g # <<>>
         /\ \A k \in 1 .. Len(frames) - 1 : g[k] = frames[k]
         /\ g[Len(frames)] = [Top EXCEPT !.slot = v]
<1> DEFINE n == Len(frames)
           e == [Top EXCEPT !.slot = v]
<1>1. n \in Nat /\ n > 0 /\ Top \in Frame /\ frames \in Seq(Frame)
  BY FramesTyped DEF TypeOK
<1>2. n \in 1 .. n /\ (\A k \in 1 .. n - 1 : k \in 1 .. n /\ k # n)
  <2> HIDE DEF n
  <2>. QED
    BY <1>1
<1>3. e \in Frame
  BY <1>1 DEF Frame
<1>4. g = [frames EXCEPT ![n] = e]
  BY DEF Top
<1> HIDE DEF n, e
<1>5. n = Len(frames)
  BY DEF n
<1>6. /\ g \in Seq(Frame) /\ Len(g) = n
      /\ \A j \in 1 .. n : g[j] = IF j = n THEN e ELSE frames[j]
  BY <1>1, <1>2, <1>3, <1>4, <1>5, ExceptSeq
<1>7. g # <<>>
  BY <1>6, <1>1, EmptySeq
<1>. QED
  BY <1>2, <1>6, <1>7 DEF n, e

(* So does a step that moves on.                                           *)
LEMMA MovedFrames ==
  ASSUME TypeOK, frames # <<>>, NEW v \in -1 .. NumBackups,
         frames' = [frames EXCEPT ![Len(frames)].slot = v]
  PROVE  /\ frames' \in Seq(Frame) /\ Len(frames') = Len(frames) /\ frames' # <<>>
         /\ \A k \in 1 .. Len(frames) - 1 : frames'[k] = frames[k]
         /\ frames'[Len(frames)] = [Top EXCEPT !.slot = v]
  BY ZenonT(30), MoveKeeps

(* A recursive call adds a frame after those in progress.                  *)
LEMMA PushKeeps ==
  ASSUME TypeOK, NEW e \in Frame
  PROVE  /\ Append(frames, e) \in Seq(Frame) /\ Append(frames, e) # <<>>
         /\ Len(Append(frames, e)) = Len(frames) + 1
         /\ \A k \in 1 .. Len(frames) : Append(frames, e)[k] = frames[k]
         /\ Append(frames, e)[Len(frames) + 1] = e
  BY AppendProperties DEF TypeOK

-----------------------------------------------------------------------------
(* Return keeps the invariant if what it returns is found where asked.     *)
LEMMA ReturnInv ==
  ASSUME LookupInv, Active, NEW r \in Db \cup {NotFound}, Return(r),
         r \in Db => /\ world.here[r] = "hit"
                     /\ asked # 0 => r = world.backups[Root][asked - 1]
                     /\ asked = 0 /\ world.here[Root] = "hit" => r = Root
  PROVE  LookupInv'
<1> DEFINE n == Len(frames)
<1>1. TypeOK /\ Chain /\ frames # <<>>
  BY DEF LookupInv, Active
<1>2. n \in Nat /\ n > 0
  BY <1>1, FramesTyped
<1>3. /\ frames' \in Seq(Frame) /\ Len(frames') = n - 1
      /\ \A k \in 1 .. n - 1 : frames'[k] = frames[k]
      /\ frames' # <<>> => n > 1
  BY <1>1, PopKeeps DEF Return
<1>4. result' = r /\ asked' = asked /\ world' = world /\ fault' = fault
  BY DEF Return
<1>5. n <= StackFrames /\ StackFrames \in Nat
  BY <1>1, LookupAssumption DEF TypeOK
<1> HIDE DEF n
<1>6. TypeOK'
  <2>1. n - 1 <= StackFrames
    BY <1>2, <1>5
  <2>. QED
    BY <1>1, <1>3, <1>4, <2>1 DEF TypeOK
<1>7. Chain'
  <2>1. n > 1 => 1 \in 1 .. n - 1
    BY <1>2
  <2>2. frames' # <<>> => frames'[1].db = Root /\ frames'[1].backup = asked
    BY <1>1, <1>3, <2>1 DEF Chain
  <2>3. \A k \in 1 .. n - 1 : k \in 1 .. n
    BY <1>2
  <2>4. \A k \in 1 .. n - 1 : frames'[k].slot # -1 => InLoop(frames[k])
    BY <1>1, <1>3, <2>3 DEF Chain, n
  <2>5. \A k \in 1 .. (n - 1) - 1 : k \in 1 .. n - 1 /\ k + 1 \in 1 .. n - 1
    BY <1>2
  <2>6. \A k \in 1 .. (n - 1) - 1 : Calls(frames[k], frames[k + 1])
    BY <1>1, <2>5 DEF Chain, n
  <2>. QED
    BY <1>3, <1>4, <2>2, <2>4, <2>5, <2>6 DEF Chain, InLoop, Calls
<1>8. Awaited'
  <2> SUFFICES ASSUME frames' # <<>> PROVE Top'.slot \in Slot
    BY DEF Awaited
  <2>1. n > 1 /\ n - 1 \in 1 .. n - 1
    BY <1>2, <1>3
  <2>2. Top' = frames[n - 1]
    BY <1>3, <2>1 DEF Top
  <2>3. Calls(frames[n - 1], frames[(n - 1) + 1])
    BY <1>1, <2>1 DEF Chain, n
  <2>. QED
    BY <2>2, <2>3 DEF Calls
<1>9. FoundInv'
  BY <1>4 DEF FoundInv
<1>. QED
  BY <1>4, <1>6, <1>7, <1>8, <1>9 DEF LookupInv

(* Moving on in the innermost loop keeps the invariant.                    *)
LEMMA MoveInv ==
  ASSUME LookupInv, Active, InLoop(Top), NEW v \in 0 .. NumBackups,
         frames' = [frames EXCEPT ![Len(frames)].slot = v],
         result' = Running, asked' = asked, world' = world, fault' = fault
  PROVE  LookupInv'
<1> DEFINE n == Len(frames)
<1>1. TypeOK /\ Chain /\ frames # <<>>
  BY DEF LookupInv, Active
<1>2. n \in Nat /\ n > 0 /\ Top \in Frame /\ \A k \in 1 .. n : frames[k] \in Frame
  BY <1>1, FramesTyped
<1>3. v \in -1 .. NumBackups
  BY LookupAssumption
<1>4. /\ frames' \in Seq(Frame) /\ Len(frames') = n /\ frames' # <<>>
      /\ \A k \in 1 .. n - 1 : frames'[k] = frames[k]
      /\ frames'[n] = [Top EXCEPT !.slot = v]
  BY <1>1, <1>3, MovedFrames
<1>5. Top = frames[n]
  BY DEF Top
<1> HIDE DEF n
<1>6. n \in 1 .. n /\ (\A k \in 1 .. n : k = n \/ k \in 1 .. n - 1)
  BY <1>2
<1>7. \A k \in 1 .. n : frames'[k].db = frames[k].db /\ frames'[k].backup = frames[k].backup
  BY <1>2, <1>4, <1>5, <1>6 DEF Frame
<1>8. TypeOK'
  BY <1>1, <1>4 DEF TypeOK, n
<1>9. Chain'
  <2>1. 1 \in 1 .. n
    BY <1>2
  <2>2. frames'[1].db = Root /\ frames'[1].backup = asked
    BY <1>1, <1>7, <2>1 DEF Chain
  <2>3. \A k \in 1 .. n : frames'[k].slot # -1 => InLoop(frames[k])
    BY <1>1, <1>4, <1>5, <1>6 DEF Chain, n
  <2>4. \A k \in 1 .. n - 1 : k \in 1 .. n /\ k + 1 \in 1 .. n
    BY <1>2
  <2>5. \A k \in 1 .. n - 1 : Calls(frames[k], frames[k + 1])
    BY <1>1 DEF Chain, n
  <2>6. \A k \in 1 .. n - 1 : Calls(frames[k], frames'[k + 1])
    BY <1>7, <2>4, <2>5 DEF Calls
  <2>. QED
    BY <1>4, <1>7, <2>2, <2>3, <2>6 DEF Chain, InLoop, Calls
<1>10. Awaited' /\ FoundInv'
  BY LookupAssumption DEF Awaited, FoundInv
<1>. QED
  BY <1>8, <1>9, <1>10 DEF LookupInv

(* A recursive call keeps the invariant.                                   *)
LEMMA PushInv ==
  ASSUME LookupInv, Active, result = Running, Top.slot \in Slot,
         NEW e \in Db, e = world.backups[Top.db][Top.slot], Len(frames) < StackFrames,
         frames' = Append(frames, Call(e, RecursiveBackup(Top.slot))),
         UNCHANGED <<asked, world, result, fault>>
  PROVE  LookupInv'
<1> DEFINE n == Len(frames)
           c == Call(e, RecursiveBackup(Top.slot))
<1>1. TypeOK /\ Chain /\ frames # <<>>
  BY DEF LookupInv, Active
<1>2. n \in Nat /\ n > 0 /\ n < StackFrames /\ StackFrames \in Nat
  BY <1>1, FramesTyped, LookupAssumption
<1>3. c \in Frame
  BY LookupAssumption DEF Frame, Call, RecursiveBackup, Slot
<1>4. /\ frames' \in Seq(Frame) /\ frames' # <<>> /\ Len(frames') = n + 1
      /\ \A k \in 1 .. n : frames'[k] = frames[k]
      /\ frames'[n + 1] = c
  BY <1>1, <1>3, PushKeeps
<1>5. c.db = e /\ c.backup = RecursiveBackup(Top.slot) /\ c.slot = -1
  BY DEF Call
<1>6. Top = frames[n]
  BY DEF Top
<1> HIDE DEF n, c
<1>7. TypeOK'
  <2>1. n + 1 <= StackFrames
    BY <1>2
  <2>. QED
    BY <1>1, <1>4, <2>1 DEF TypeOK
<1>8. Chain'
  <2>1. 1 \in 1 .. n /\ \A k \in 1 .. n + 1 : k \in 1 .. n \/ k = n + 1
    BY <1>2
  <2>2. frames'[1].db = Root /\ frames'[1].backup = asked
    BY <1>1, <1>4, <2>1 DEF Chain
  <2>3. \A k \in 1 .. n + 1 : frames'[k].slot # -1 => InLoop(frames'[k])
    BY <1>1, <1>4, <1>5, <2>1 DEF Chain, n
  <2>4. ASSUME NEW k \in 1 .. (n + 1) - 1
        PROVE  Calls(frames'[k], frames'[k + 1])
    <3>1. CASE k = n
      <4>1. n \in 1 .. n
        BY <1>2
      <4>. QED
        BY <3>1, <4>1, <1>4, <1>5, <1>6 DEF Calls
    <3>2. CASE k # n
      <4>1. k \in 1 .. n /\ k + 1 \in 1 .. n /\ k \in 1 .. n - 1
        BY <3>2, <1>2
      <4>. QED
        BY <4>1, <1>1, <1>4 DEF Chain, n
    <3>. QED
      BY <3>1, <3>2
  <2>. QED
    BY <1>4, <2>2, <2>3, <2>4 DEF Chain, InLoop, Calls
<1>9. Awaited' /\ FoundInv' /\ world' \in Worlds
  BY LookupAssumption DEF Awaited, FoundInv, LookupInv
<1>. QED
  BY <1>7, <1>8, <1>9 DEF LookupInv

(* Every lookup begins with the invariant.                                 *)
LEMMA LookupInitInv == Init => LookupInv
<1> SUFFICES ASSUME Init PROVE LookupInv
  OBVIOUS
<1> DEFINE c == Call(Root, asked)
<1>1. c \in Frame /\ c.db = Root /\ c.backup = asked /\ c.slot = -1
  BY LookupAssumption DEF Init, Call, Frame
<1>2. frames = <<c>>
  BY DEF Init
<1> HIDE DEF c
<1>3. frames \in Seq(Frame) /\ Len(frames) = 1 /\ frames[1] = c
  BY <1>1, <1>2
<1>4. TypeOK
  <2>1. 1 <= StackFrames
    BY LookupAssumption
  <2>2. Len(frames) <= StackFrames
    BY <1>3, <2>1
  <2>3. frames \in Seq(Frame)
    BY <1>3
  <2>. QED
    BY <2>2, <2>3, LookupAssumption DEF Init, TypeOK
<1>5. Chain
  BY <1>1, <1>3 DEF Chain
<1>6. Awaited /\ FoundInv
  BY LookupAssumption DEF Init, Awaited, FoundInv
<1>. QED
  BY <1>4, <1>5, <1>6 DEF Init, LookupInv

(* The innermost call, while the lookup goes on: the caller's own, or one  *)
(* made by a call without a backup in a database that misses.              *)
LEMMA TopIs ==
  ASSUME LookupInv, Active
  PROVE  /\ Top \in Frame
         /\ Top.slot # -1 => InLoop(Top)
         /\ \/ Top.db = Root /\ Top.backup = asked
            \/ asked = 0 /\ world.here[Root] = "miss"
<1> DEFINE n == Len(frames)
<1>1. TypeOK /\ Chain /\ frames # <<>>
  BY DEF LookupInv, Active
<1>2. n \in Nat /\ n > 0 /\ Top \in Frame
  BY <1>1, FramesTyped
<1>3. frames[1].db = Root /\ frames[1].backup = asked /\ Top = frames[n]
  BY <1>1 DEF Chain, Top
<1>4. n \in 1 .. n /\ 1 \in 1 .. n
  BY <1>2
<1>5. Top.slot # -1 => InLoop(Top)
  BY <1>1, <1>3, <1>4 DEF Chain
<1>6. ASSUME n # 1 PROVE asked = 0 /\ world.here[Root] = "miss"
  <2>1. 1 \in 1 .. n - 1
    <3> HIDE DEF n
    <3>. QED
      BY <1>2, <1>6
  <2>2. frames[1].slot \in Slot
    BY <1>1, <2>1 DEF Chain, Calls
  <2>3. frames[1].slot # -1
    BY <2>2, LookupAssumption DEF Slot
  <2>. QED
    BY <1>1, <1>3, <1>4, <2>3 DEF Chain, InLoop
<1>. QED
  BY <1>2, <1>3, <1>5, <1>6

(* Every step keeps the invariant.                                         *)
LEMMA LookupStepInv == LookupInv /\ [Next]_vars => LookupInv'
<1> SUFFICES ASSUME LookupInv, [Next]_vars PROVE LookupInv'
  OBVIOUS
<1>0. TypeOK /\ Awaited /\ FoundInv /\ world \in World
  BY DEF LookupInv, TypeOK
<1>1. CASE SearchRegion
  <2> DEFINE db == Searched(Top)
  <2>1. Active /\ result = Running
    BY <1>1 DEF SearchRegion
  <2>2. /\ Top \in Frame
        /\ \/ Top.db = Root /\ Top.backup = asked
           \/ asked = 0 /\ world.here[Root] = "miss"
    BY <2>1, TopIs
  <2>3. CASE Return(NotFound)
    BY <2>1, <2>3, ReturnInv, LookupAssumption
  <2>4. CASE db \in Db /\ world.here[db] = "hit" /\ Return(db)
    <3>1. ASSUME asked # 0 PROVE db = world.backups[Root][asked - 1]
      <4>1. Top.db = Root /\ Top.backup = asked
        BY <2>2, <3>1
      <4>2. db = EntryAt(Root, asked - 1)
        BY <4>1, <3>1 DEF Searched
      <4>. QED
        BY <4>2, <2>4, LookupAssumption DEF EntryAt
    <3>2. ASSUME asked = 0, world.here[Root] = "hit" PROVE db = Root
      BY <2>2, <3>2 DEF Searched
    <3> HIDE DEF db
    <3>. QED
      BY <2>1, <2>4, <3>1, <3>2, ReturnInv
  <2>5. CASE /\ db \in Db /\ world.here[db] = "miss" /\ Top.backup = 0
             /\ frames' = [frames EXCEPT ![Len(frames)].slot = 0]
             /\ UNCHANGED <<asked, world, result, fault>>
    <3>1. InLoop(Top)
      BY <2>5 DEF InLoop, Searched
    <3>2. 0 \in 0 .. NumBackups
      BY LookupAssumption
    <3>. QED
      BY <2>1, <2>5, <3>1, <3>2, MoveInv
  <2>. QED
    BY <1>1, <2>3, <2>4, <2>5 DEF SearchRegion
<1>2. CASE SkipNull
  <2>1. Active /\ result = Running /\ Top.slot \in Slot /\ Top.slot # -1
    BY <1>2, LookupAssumption DEF SkipNull, Slot
  <2>2. Top.slot + 1 \in 0 .. NumBackups /\ Top \in Frame
    BY <2>1, LookupAssumption, TopIs DEF Slot
  <2>3. frames' = [frames EXCEPT ![Len(frames)].slot = Top.slot + 1]
    BY <1>2 DEF SkipNull, NextSlot, Top
  <2>. QED
    BY <1>2, <2>1, <2>2, <2>3, TopIs, MoveInv DEF SkipNull
<1>3. CASE GiveUp
  BY <1>3, ReturnInv, LookupAssumption DEF GiveUp
<1>4. CASE Recurse
  <2> DEFINE entry == world.backups[Top.db][Top.slot]
  <2>1. Active /\ result = Running /\ Top.slot \in Slot /\ entry \in Db
    BY <1>4 DEF Recurse
  <2>2. CASE Len(frames) < StackFrames
    <3>1. /\ frames' = Append(frames, Call(entry, RecursiveBackup(Top.slot)))
          /\ UNCHANGED <<asked, world, result, fault>>
      BY <1>4, <2>2 DEF Recurse
    <3>. QED
      BY <2>1, <2>2, <3>1, PushInv
  <2>3. CASE ~(Len(frames) < StackFrames)
    <3>1. fault' = TRUE /\ UNCHANGED <<asked, world, frames, result>>
      BY <1>4, <2>3 DEF Recurse
    <3>2. TypeOK'
      BY <1>0, <3>1 DEF TypeOK
    <3>. QED
      BY <3>1, <3>2 DEF LookupInv, Chain, InLoop, Calls, Awaited, FoundInv, Top
  <2>. QED
    BY <2>2, <2>3
<1>5. CASE Resume
  <2>1. Active /\ result # Running
    BY <1>5 DEF Resume
  <2>2. CASE result \in Db /\ Return(result)
    BY <1>0, <2>1, <2>2, ReturnInv DEF FoundInv
  <2>3. CASE /\ frames' = [frames EXCEPT ![Len(frames)].slot = NextSlot(@)]
             /\ result' = Running
             /\ UNCHANGED <<asked, world, fault>>
    <3>1. Top.slot \in Slot /\ Top.slot # -1
      BY <1>0, <2>1, LookupAssumption DEF Awaited, Active, Slot
    <3>2. Top.slot + 1 \in 0 .. NumBackups
      BY <3>1, LookupAssumption DEF Slot
    <3>3. frames' = [frames EXCEPT ![Len(frames)].slot = Top.slot + 1]
      BY <2>3 DEF NextSlot, Top
    <3>. QED
      BY <2>1, <2>3, <3>1, <3>2, <3>3, TopIs, MoveInv
  <2>. QED
    BY <1>5, <2>2, <2>3 DEF Resume
<1>6. CASE Exhausted
  BY <1>6, ReturnInv, LookupAssumption DEF Exhausted
<1>7. CASE UNCHANGED vars
  <2>1. TypeOK'
    BY <1>0, <1>7 DEF TypeOK, vars
  <2>. QED
    BY <1>7, <2>1 DEF LookupInv, Chain, InLoop, Calls, Awaited, FoundInv, Top, vars
<1>. QED
  BY <1>1, <1>2, <1>3, <1>4, <1>5, <1>6, <1>7 DEF Next

(* The invariant holds throughout every lookup.                            *)
LEMMA LookupInvariant == Spec => []LookupInv
  BY LookupInitInv, LookupStepInv, PTL DEF Spec

(* The calls in progress are calls with a backup of the reference or an    *)
(* entry of the list, at an entry of the list or at its end, and never     *)
(* more than the stack has room for: the recursion of node_lookup hands on *)
(* nothing else, whatever the lists hold.                                  *)
THEOREM LookupTypeCorrect == Spec => []TypeOK
<1>1. LookupInv => TypeOK
  BY DEF LookupInv
<1>. QED
  BY <1>1, LookupInvariant, PTL

(* A node that is found is in the backup the reference names, if it names  *)
(* one, and in the caller's own database if that has it, however many      *)
(* databases were searched in between and however their lists refer to     *)
(* each other, cycles included.                                            *)
THEOREM FoundInPlace == Spec => []FoundWhereAsked
<1>1. LookupInv => FoundWhereAsked
  BY DEF LookupInv, FoundInv, FoundWhereAsked
<1>. QED
  BY <1>1, LookupInvariant, PTL

-----------------------------------------------------------------------------
(* A call that is at an entry of its list: every call before it went by    *)
(* the first entry, because a call by a later one names a backup and does  *)
(* not recurse.                                                            *)
LEMMA FirstEntriesChain ==
  ASSUME LookupInv, Active, Top.slot # -1
  PROVE  /\ \A k \in 1 .. Len(frames) : InLoop(frames[k])
         /\ \A k \in 1 .. Len(frames) - 1 :
              /\ frames[k].slot = 0
              /\ frames[k + 1].db = world.backups[frames[k].db][0]
<1> DEFINE n == Len(frames)
<1>1. TypeOK /\ Chain /\ frames # <<>>
  BY DEF LookupInv, Active
<1>2. n \in Nat /\ n > 0 /\ Top = frames[n]
  BY <1>1, FramesTyped DEF Top
<1>3. \A k \in 1 .. n : frames[k].slot # -1 => InLoop(frames[k])
  BY <1>1 DEF Chain
<1>4. \A k \in 1 .. n - 1 : Calls(frames[k], frames[k + 1]) /\ frames[k].slot # -1
  BY <1>1, LookupAssumption DEF Chain, Calls, Slot
<1> HIDE DEF n
<1>5. ASSUME NEW k \in 1 .. n PROVE InLoop(frames[k])
  <2>1. k = n \/ k \in 1 .. n - 1
    BY <1>2
  <2>. QED
    BY <2>1, <1>2, <1>3, <1>4
<1>6. ASSUME NEW k \in 1 .. n - 1
      PROVE  frames[k].slot = 0 /\ frames[k + 1].db = world.backups[frames[k].db][0]
  <2>1. k + 1 \in 1 .. n
    BY <1>2
  <2>2. frames[k + 1].backup = 0
    BY <2>1, <1>5 DEF InLoop
  <2>. QED
    BY <2>2, <1>4 DEF Calls, RecursiveBackup
<1>. QED
  BY <1>5, <1>6 DEF n

(* If more calls follow first entries than there are databases, then these *)
(* entries form a cycle.                                                   *)
LEMMA CycleFound ==
  ASSUME NEW w, NEW n \in Nat, n > Cardinality(Db), NEW d \in [1 .. n -> Db],
         \A k \in 1 .. n : w.here[d[k]] = "miss",
         \A k \in 1 .. n - 1 : d[k + 1] = w.backups[d[k]][0]
  PROVE  \E C : FirstCycle(w, C)
<1>1. IsFiniteSet(1 .. n) /\ Cardinality(1 .. n) = n
  BY FS_Interval
<1>2. PICK i \in 1 .. n, j \in 1 .. n : i # j /\ d[i] = d[j]
  <2>1. IsFiniteSet(Db) /\ Cardinality(Db) < Cardinality(1 .. n)
    BY <1>1, LookupAssumption
  <2>. QED
    BY <1>1, <2>1, FS_PigeonHole
<1>3. ASSUME NEW a \in 1 .. n, NEW b \in 1 .. n, a < b, d[a] = d[b]
      PROVE  \E C : FirstCycle(w, C)
  <2> DEFINE C == {d[k] : k \in a .. b - 1}
  <2>1. a \in a .. b - 1 /\ \A k \in a .. b - 1 : k \in 1 .. n /\ k \in 1 .. n - 1
    BY <1>3
  <2>2. C \subseteq Db /\ C # {}
    BY <2>1
  <2>3. ASSUME NEW k \in a .. b - 1
        PROVE  w.here[d[k]] = "miss" /\ w.backups[d[k]][0] \in C
    <3>1. d[k + 1] = w.backups[d[k]][0] /\ w.here[d[k]] = "miss"
      BY <2>1
    <3>2. k + 1 = b \/ k + 1 \in a .. b - 1
      OBVIOUS
    <3>. QED
      BY <3>1, <3>2, <2>1, <1>3
  <2>4. FirstCycle(w, C)
    BY <2>2, <2>3 DEF FirstCycle
  <2>. QED
    BY <2>4
<1>4. i < j \/ j < i
  BY <1>2
<1>. QED
  BY <1>2, <1>3, <1>4

(* One frame more than there are databases is room enough for every        *)
(* lookup, if the first entries form no cycle among databases that miss:   *)
(* the recursion of node_lookup follows first entries only, and one call   *)
(* by a later entry after them.                                            *)
THEOREM StackIsEnough ==
  ASSUME StackFrames > Cardinality(Db),
         \A w \in Worlds : \A C : ~ FirstCycle(w, C)
  PROVE  Spec => []StackSuffices
<1>1. Init => LookupInv /\ StackSuffices
  BY LookupInitInv DEF Init, StackSuffices
<1>2. LookupInv /\ StackSuffices /\ [Next]_vars => LookupInv' /\ StackSuffices'
  <2> SUFFICES ASSUME LookupInv, ~ fault, [Next]_vars PROVE ~ fault'
    BY LookupStepInv DEF StackSuffices
  <2> SUFFICES ASSUME Recurse, ~(Len(frames) < StackFrames) PROVE FALSE
    BY DEF Next, vars, SearchRegion, SkipNull, GiveUp, Recurse, Resume, Exhausted, Return
  <2> DEFINE n == Len(frames)
             d == [k \in 1 .. n |-> frames[k].db]
  <2>1. Active /\ Top.slot # -1 /\ TypeOK /\ world \in Worlds
    BY LookupAssumption DEF Recurse, Slot, LookupInv
  <2>2. n \in Nat /\ \A k \in 1 .. n : frames[k].db \in Db
    BY <2>1, FramesTyped DEF Frame
  <2>3. n > Cardinality(Db)
    <3>1. Cardinality(Db) \in Nat
      BY LookupAssumption, FS_CardinalityType
    <3>2. ~(n < StackFrames)
      OBVIOUS
    <3> HIDE DEF n
    <3>. QED
      BY <2>2, <3>1, <3>2, LookupAssumption
  <2>4. /\ \A k \in 1 .. n : world.here[frames[k].db] = "miss"
        /\ \A k \in 1 .. n - 1 : frames[k + 1].db = world.backups[frames[k].db][0]
    BY <2>1, FirstEntriesChain DEF InLoop
  <2> HIDE DEF n
  <2>5. d \in [1 .. n -> Db] /\ \A k \in 1 .. n : world.here[d[k]] = "miss"
    BY <2>2, <2>4
  <2>6. \A k \in 1 .. n - 1 : d[k + 1] = world.backups[d[k]][0]
    <3>1. \A k \in 1 .. n - 1 : k \in 1 .. n /\ k + 1 \in 1 .. n
      BY <2>2
    <3>. QED
      BY <2>4, <3>1
  <2> HIDE DEF d
  <2>7. \E C : FirstCycle(world, C)
    BY <2>2, <2>3, <2>5, <2>6, CycleFound
  <2>. QED
    BY <2>1, <2>7
<1>. QED
  BY <1>1, <1>2, PTL DEF Spec

-----------------------------------------------------------------------------
(* The databases reached after one more first entry.                       *)
Further(seen) ==
  seen \cup {e \in Db : \E d \in seen : /\ world.here[d] = "miss"
                                       /\ world.backups[d][0] = e}

(* FirstEntriesUpTo by its recursive equations.                            *)
LEMMA FirstEntriesUnfold ==
  /\ FirstEntriesUpTo[0] = {Root}
  /\ \A n \in Nat : FirstEntriesUpTo[n + 1] = Further(FirstEntriesUpTo[n])
<1> DEFINE F       == [n \in Nat |-> [seen \in SUBSET Db |-> Further(seen)]]
           Step(f) == [n \in Nat |-> IF n = 0 THEN {Root}
                                     ELSE LET seen == f[n - 1]
                                          IN  seen \cup {e \in Db : \E d \in seen :
                                                /\ world.here[d] = "miss"
                                                /\ world.backups[d][0] = e}]
<1>1. PICK f : /\ f = [n \in Nat |-> f[n]]
               /\ \A n \in Nat : f[n] = IF n = 0 THEN {Root} ELSE F[n][f[n - 1]]
  <2> HIDE DEF F
  <2>1. \E f : RepeatsAlways(F, {Root}, f)
    BY Repetition
  <2>. QED
    BY <2>1 DEF RepeatsAlways
<1>2. \A n \in Nat : n + 1 \in Nat /\ n + 1 # 0 /\ (n + 1) - 1 = n
  OBVIOUS
<1>3. \A n \in Nat : f[n] \in SUBSET Db
  <2> DEFINE S == {n \in Nat : f[n] \in SUBSET Db}
  <2>1. 0 \in S
    <3>1. f[0] = {Root}
      <4> HIDE DEF F
      <4>. QED
        BY <1>1
    <3>. QED
      BY <3>1, LookupAssumption
  <2>2. ASSUME NEW n \in Nat, n \in S PROVE n + 1 \in S
    <3>1. f[n + 1] = F[n + 1][f[n]]
      <4> HIDE DEF F
      <4>. QED
        BY <1>1, <1>2
    <3>2. f[n] \in SUBSET Db
      BY <2>2
    <3>. QED
      BY <3>1, <3>2, <1>2 DEF Further
  <2> HIDE DEF S
  <2>3. Nat \subseteq S
    BY <2>1, <2>2, SetInduction
  <2>. QED
    BY <2>3 DEF S
<1>4. \A n \in Nat : f[n] = IF n = 0 THEN {Root} ELSE Further(f[n - 1])
  <2> SUFFICES ASSUME NEW n \in Nat PROVE f[n] = IF n = 0 THEN {Root} ELSE Further(f[n - 1])
    OBVIOUS
  <2>1. f[n] = IF n = 0 THEN {Root} ELSE F[n][f[n - 1]]
    <3> HIDE DEF F
    <3>. QED
      BY <1>1
  <2>2. n # 0 => n - 1 \in Nat
    OBVIOUS
  <2>3. n # 0 => f[n - 1] \in SUBSET Db
    BY <2>2, <1>3
  <2>. QED
    BY <2>1, <2>3
<1>5. f = [n \in Nat |-> f[n]]
  BY <1>1
<1>6. f = Step(f)
  BY <1>4, <1>5 DEF Further
<1>7. \E g : g = Step(g)
  <2> HIDE DEF Step
  <2>. QED
    BY <1>6
<1>8. FirstEntriesUpTo = Step(FirstEntriesUpTo)
  BY <1>7 DEF FirstEntriesUpTo
<1>9. \A n \in Nat : FirstEntriesUpTo[n] =
        IF n = 0 THEN {Root} ELSE Further(FirstEntriesUpTo[n - 1])
  BY <1>8 DEF Further
<1>. QED
  BY <1>2, <1>9

(* More entries reach no fewer databases.                                  *)
LEMMA FirstEntriesGrow ==
  ASSUME NEW m \in Nat, NEW n \in Nat, m <= n
  PROVE  FirstEntriesUpTo[m] \subseteq FirstEntriesUpTo[n]
<1> DEFINE S == {k \in Nat : FirstEntriesUpTo[m] \subseteq FirstEntriesUpTo[m + k]}
<1>1. 0 \in S
  BY SMT
<1>2. ASSUME NEW k \in Nat, k \in S PROVE k + 1 \in S
  <2>1. m + k \in Nat /\ m + (k + 1) = (m + k) + 1
    OBVIOUS
  <2>2. FirstEntriesUpTo[(m + k) + 1] = Further(FirstEntriesUpTo[m + k])
    BY <2>1, FirstEntriesUnfold
  <2>3. FirstEntriesUpTo[m] \subseteq FirstEntriesUpTo[m + k]
    BY <1>2
  <2>4. FirstEntriesUpTo[m] \subseteq FirstEntriesUpTo[m + (k + 1)]
    BY <2>1, <2>2, <2>3 DEF Further
  <2>. QED
    BY <2>4
<1> HIDE DEF S
<1>3. n - m \in S
  <2>1. n - m \in Nat
    OBVIOUS
  <2>. QED
    BY <2>1, <1>1, <1>2, SetInduction
<1>4. m + (n - m) = n
  OBVIOUS
<1>. QED
  BY <1>3, <1>4 DEF S

(* A set that has the caller's database, and with every database that      *)
(* misses its first entry, has all the databases along the first entries.  *)
LEMMA FirstEntriesClosed ==
  ASSUME NEW C, Root \in C,
         \A d \in C : world.here[d] = "miss" /\ world.backups[d][0] \in Db
                        => world.backups[d][0] \in C
  PROVE  FirstEntries \subseteq C
<1> DEFINE S == {n \in Nat : FirstEntriesUpTo[n] \subseteq C}
<1>1. 0 \in S
  BY FirstEntriesUnfold
<1>2. ASSUME NEW n \in Nat, n \in S PROVE n + 1 \in S
  <2>1. FirstEntriesUpTo[n + 1] = Further(FirstEntriesUpTo[n])
    BY FirstEntriesUnfold
  <2>2. FirstEntriesUpTo[n] \subseteq C /\ n + 1 \in Nat
    BY <1>2
  <2>3. FirstEntriesUpTo[n + 1] \subseteq C
    BY <2>1, <2>2 DEF Further
  <2>. QED
    BY <2>2, <2>3
<1> HIDE DEF S
<1>3. Cardinality(Db) \in S
  BY <1>1, <1>2, SetInduction, FS_CardinalityType, LookupAssumption
<1>. QED
  BY <1>3 DEF S, FirstEntries

(* While a lookup follows first entries, every call but the innermost is   *)
(* at the first entry of a database that misses.                           *)
LEMMA DescendingChain ==
  ASSUME LookupInv, Active, Descending
  PROVE  \A k \in 1 .. Len(frames) - 1 :
           InLoop(frames[k]) /\ frames[k + 1].db = world.backups[frames[k].db][0]
<1> DEFINE n == Len(frames)
<1>1. TypeOK /\ Chain
  BY DEF LookupInv
<1>2. n \in Nat
  BY <1>1, FramesTyped
<1> SUFFICES ASSUME NEW k \in 1 .. n - 1
             PROVE  InLoop(frames[k]) /\ frames[k + 1].db = world.backups[frames[k].db][0]
  OBVIOUS
<1>3. k \in 1 .. n
  <2> HIDE DEF n
  <2>. QED
    BY <1>2
<1>4. Calls(frames[k], frames[k + 1]) /\ frames[k].slot \in {-1, 0}
  BY <1>1, <1>3 DEF Chain, Descending, AllFirst
<1>5. frames[k].slot = 0 /\ frames[k].slot # -1
  BY <1>4, LookupAssumption DEF Calls, Slot
<1>. QED
  BY <1>1, <1>3, <1>4, <1>5 DEF Chain, Calls

(* A lookup that follows first entries has as many calls in progress as    *)
(* databases, at most, and all of them are along the first entries.        *)
LEMMA DescendingReaches ==
  ASSUME LookupInv, Active, Descending
  PROVE  \A k \in 1 .. Len(frames) : frames[k].db \in FirstEntries
<1> DEFINE n == Len(frames)
           d == [k \in 1 .. n |-> frames[k].db]
           S == {k \in Nat : k + 1 <= n => frames[k + 1].db \in FirstEntriesUpTo[k]}
<1>1. TypeOK /\ Chain /\ frames # <<>>
  BY DEF LookupInv, Active
<1>2. n \in Nat /\ n > 0 /\ \A k \in 1 .. n : frames[k].db \in Db
  BY <1>1, FramesTyped DEF Frame
<1>3. n <= Cardinality(Db) /\ Cardinality(Db) \in Nat
  <2>1. \A i, j \in 1 .. n : frames[i].db = frames[j].db => i = j
    BY DEF Descending, Distinct
  <2>2. IsFiniteSet(1 .. n) /\ Cardinality(1 .. n) = n
    <3> HIDE DEF n
    <3>. QED
      BY <1>2, FS_Interval
  <2> HIDE DEF n
  <2>3. d \in [1 .. n -> Db] /\ \A i, j \in 1 .. n : d[i] = d[j] => i = j
    BY <1>2, <2>1
  <2> HIDE DEF d
  <2>4. d \in Injection(1 .. n, Db)
    BY <2>3 DEF Injection, IsInjective
  <2>5. IsFiniteSet(Db)
    BY LookupAssumption
  <2>. QED
    BY <2>2, <2>4, <2>5, FS_Injection, FS_CardinalityType
<1>4. \A k \in 1 .. n - 1 : /\ InLoop(frames[k])
                            /\ frames[k + 1].db = world.backups[frames[k].db][0]
  BY DescendingChain
<1> HIDE DEF n
<1>5. 0 \in S
  <2>1. 0 + 1 = 1 /\ frames[1].db = Root
    BY <1>1 DEF Chain
  <2>. QED
    BY <2>1, FirstEntriesUnfold
<1>6. ASSUME NEW k \in Nat, k \in S PROVE k + 1 \in S
  <2> SUFFICES ASSUME (k + 1) + 1 <= n PROVE frames[(k + 1) + 1].db \in FirstEntriesUpTo[k + 1]
    OBVIOUS
  <2>1. k + 1 \in 1 .. n - 1 /\ k + 1 <= n /\ (k + 1) + 1 \in 1 .. n
    BY <1>2
  <2>2. frames[k + 1].db \in FirstEntriesUpTo[k]
    BY <2>1, <1>6
  <2>3. FirstEntriesUpTo[k + 1] = Further(FirstEntriesUpTo[k])
    BY FirstEntriesUnfold
  <2>. QED
    BY <2>1, <2>2, <2>3, <1>2, <1>4 DEF Further, InLoop
<1> HIDE DEF S
<1>7. Nat \subseteq S
  BY <1>5, <1>6, SetInduction
<1>8. ASSUME NEW k \in 1 .. n PROVE frames[k].db \in FirstEntries
  <2>1. k - 1 \in Nat /\ (k - 1) + 1 = k /\ (k - 1) + 1 <= n
    BY <1>2
  <2>2. frames[k].db \in FirstEntriesUpTo[k - 1]
    BY <2>1, <1>7 DEF S
  <2>3. k - 1 <= Cardinality(Db)
    BY <1>2, <1>3
  <2>. QED
    BY <2>1, <2>2, <2>3, <1>3, FirstEntriesGrow DEF FirstEntries
<1>. QED
  BY <1>8 DEF n

(* If the innermost of the calls that follow first entries does not have   *)
(* the node and its first entry leads to no further database, then none    *)
(* along the first entries has it, and each is searched by one of them.    *)
LEMMA NoHitOnTheWay ==
  ASSUME LookupInv, Active, Descending, world.here[Top.db] # "hit",
         world.here[Top.db] = "miss" /\ world.backups[Top.db][0] \in Db =>
           world.backups[Top.db][0] \in {frames[k].db : k \in 1 .. Len(frames)}
  PROVE  \A d \in FirstEntries :
           world.here[d] # "hit" /\ \E k \in 1 .. Len(frames) : frames[k].db = d
<1> DEFINE n == Len(frames)
           C == {frames[k].db : k \in 1 .. n}
<1>1. TypeOK /\ Chain /\ frames # <<>>
  BY DEF LookupInv, Active
<1>2. n \in Nat /\ n > 0 /\ Top = frames[n]
  BY <1>1, FramesTyped DEF Top
<1>3. \A k \in 1 .. n - 1 : /\ InLoop(frames[k])
                            /\ frames[k + 1].db = world.backups[frames[k].db][0]
  BY DescendingChain
<1> HIDE DEF n
<1>4. Root \in C
  <2>1. 1 \in 1 .. n /\ frames[1].db = Root
    BY <1>1, <1>2 DEF Chain
  <2>. QED
    BY <2>1
<1>5. ASSUME NEW k \in 1 .. n
      PROVE  /\ world.here[frames[k].db] # "hit"
             /\ world.here[frames[k].db] = "miss" /\ world.backups[frames[k].db][0] \in Db
                  => world.backups[frames[k].db][0] \in C
  <2>1. CASE k = n
    BY <2>1, <1>2 DEF n
  <2>2. CASE k # n
    <3>1. k \in 1 .. n - 1 /\ k + 1 \in 1 .. n
      BY <2>2, <1>2
    <3>. QED
      BY <3>1, <1>3 DEF InLoop
  <2>. QED
    BY <2>1, <2>2
<1>6. FirstEntries \subseteq C
  <2>1. \A d \in C : world.here[d] = "miss" /\ world.backups[d][0] \in Db
                       => world.backups[d][0] \in C
    BY <1>5
  <2> HIDE DEF C
  <2>. QED
    BY <1>4, <2>1, FirstEntriesClosed
<1>7. \A d \in C : world.here[d] # "hit" /\ \E k \in 1 .. n : frames[k].db = d
  BY <1>5
<1>. QED
  BY <1>6, <1>7 DEF n

(* The databases along the first entries are databases.                    *)
LEMMA FirstEntriesAreDb ==
  ASSUME TypeOK
  PROVE  FirstEntries \subseteq Db
  BY FirstEntriesClosed, LookupAssumption

(* They stay the same during a lookup.                                     *)
LEMMA FirstEntriesStay ==
  ASSUME world' = world
  PROVE  FirstEntries' = FirstEntries
  BY DEF FirstEntries, FirstEntriesUpTo

(* Every lookup begins with the caller's database.                         *)
LEMMA DescendingInit ==
  ASSUME Init, asked = 0
  PROVE  Descending
<1> DEFINE c == Call(Root, 0)
<1>1. c.backup = 0 /\ c.slot = -1 /\ frames = <<c>> /\ result = Running
  BY DEF Call, Init
<1> HIDE DEF c
<1>2. Len(frames) = 1 /\ frames[1] = c /\ frames # <<>>
  BY <1>1
<1>3. \A k \in 1 .. Len(frames) : k = 1
  BY <1>2
<1>. QED
  BY <1>1, <1>2, <1>3 DEF Descending, AllFirst, Distinct

(* So it begins on the way to a node there, if there is one.              *)
LEMMA SearchedInit == Init => SearchedInv
  BY DescendingInit DEF SearchedInv

(* The innermost call turns to its first entry.                            *)
LEMMA FirstMove ==
  ASSUME TypeOK, frames # <<>>, AllFirst,
         frames' = [frames EXCEPT ![Len(frames)].slot = 0]
  PROVE  /\ AllFirst' /\ Len(frames') = Len(frames) /\ frames' # <<>>
         /\ \A k \in 1 .. Len(frames) : frames'[k].db = frames[k].db
<1> DEFINE n == Len(frames)
<1>1. /\ n \in Nat /\ n > 0 /\ Top = frames[n] /\ Top \in Frame
      /\ \A k \in 1 .. n : frames[k] \in Frame
  BY FramesTyped DEF Top
<1>2. 0 \in -1 .. NumBackups
  BY LookupAssumption
<1>3. /\ Len(frames') = n /\ frames' # <<>>
      /\ \A k \in 1 .. n - 1 : frames'[k] = frames[k]
      /\ frames'[n] = [Top EXCEPT !.slot = 0]
  BY <1>2, MovedFrames
<1>4. \A k \in 1 .. n : k = n \/ k \in 1 .. n - 1
  <2> HIDE DEF n
  <2>. QED
    BY <1>1
<1>5. \A k \in 1 .. n : /\ frames'[k].db = frames[k].db
                        /\ frames'[k].backup = frames[k].backup
                        /\ frames'[k].slot \in {-1, 0}
  BY <1>1, <1>3, <1>4 DEF Frame, AllFirst
<1>. QED
  BY <1>3, <1>5 DEF AllFirst

(* The innermost call is at its first entry, and calls for it.             *)
LEMMA FirstCall ==
  ASSUME TypeOK, AllFirst, NEW e \in Db,
         frames' = Append(frames, Call(e, RecursiveBackup(0)))
  PROVE  /\ AllFirst' /\ Len(frames') = Len(frames) + 1 /\ frames' # <<>>
         /\ \A k \in 1 .. Len(frames) : frames'[k].db = frames[k].db
         /\ frames'[Len(frames) + 1].db = e
<1> DEFINE n == Len(frames)
           c == Call(e, 0)
<1>1. n \in Nat
  BY FramesTyped
<1>2. frames' = Append(frames, c)
  BY DEF RecursiveBackup
<1>3. c \in Frame /\ c.db = e /\ c.backup = 0 /\ c.slot = -1
  BY LookupAssumption DEF Call, Frame
<1> HIDE DEF c
<1>4. /\ frames' # <<>> /\ Len(frames') = n + 1
      /\ \A k \in 1 .. n : frames'[k] = frames[k]
      /\ frames'[n + 1] = c
  BY <1>2, <1>3, PushKeeps
<1>5. \A k \in 1 .. n + 1 : k \in 1 .. n \/ k = n + 1
  <2> HIDE DEF n
  <2>. QED
    BY <1>1
<1>. QED
  BY <1>3, <1>4, <1>5 DEF AllFirst

(* Calls that follow first entries go on doing so.                         *)
LEMMA DescendingGoesOn ==
  ASSUME TypeOK, Descending, result' = result,
         \/ frames' = [frames EXCEPT ![Len(frames)].slot = 0]
         \/ \E e \in Db : /\ frames' = Append(frames, Call(e, RecursiveBackup(0)))
                          /\ \A k \in 1 .. Len(frames) : frames[k].db # e
  PROVE  Descending'
<1> DEFINE n == Len(frames)
<1>1. n \in Nat /\ frames # <<>> /\ AllFirst /\ result = Running
  BY FramesTyped DEF Descending
<1>2. \A i, j \in 1 .. n : frames[i].db = frames[j].db => i = j
  BY DEF Descending, Distinct
<1>3. CASE frames' = [frames EXCEPT ![Len(frames)].slot = 0]
  <2>1. /\ AllFirst' /\ Len(frames') = n /\ frames' # <<>>
        /\ \A k \in 1 .. n : frames'[k].db = frames[k].db
    BY <1>1, <1>3, FirstMove
  <2>. QED
    BY <1>1, <1>2, <2>1 DEF Descending, Distinct
<1>4. ASSUME NEW e \in Db, frames' = Append(frames, Call(e, RecursiveBackup(0))),
             \A k \in 1 .. n : frames[k].db # e
      PROVE  Descending'
  <2>1. /\ AllFirst' /\ Len(frames') = n + 1 /\ frames' # <<>>
        /\ \A k \in 1 .. n : frames'[k].db = frames[k].db
        /\ frames'[n + 1].db = e
    BY <1>1, <1>4, FirstCall
  <2>2. \A i, j \in 1 .. n + 1 : frames'[i].db = frames'[j].db => i = j
    <3> HIDE DEF n
    <3>1. \A k \in 1 .. n + 1 : k \in 1 .. n \/ k = n + 1
      BY <1>1
    <3>. QED
      BY <1>2, <1>4, <2>1, <3>1
  <2>. QED
    BY <1>1, <2>1, <2>2 DEF Descending, Distinct
<1>. QED
  BY <1>3, <1>4

(* A lookup that follows first entries to a node goes on doing so until it *)
(* finds one.                                                              *)
LEMMA DescendingStep ==
  ASSUME LookupInv, Next, Descending, NEW h \in FirstEntries, world.here[h] = "hit"
  PROVE  Descending' \/ result' \in FirstEntries
<1> DEFINE n == Len(frames)
<1>1. TypeOK /\ Active /\ frames # <<>> /\ result = Running
  BY DEF LookupInv, Next, SearchRegion, SkipNull, GiveUp, Recurse, Resume, Exhausted, Active,
     Descending
<1>2. /\ n \in Nat /\ n > 0 /\ Top = frames[n] /\ Top \in Frame
      /\ \A k \in 1 .. n : frames[k] \in Frame
  BY <1>1, FramesTyped DEF Top
<1>3. n \in 1 .. n
  <2> HIDE DEF n
  <2>. QED
    BY <1>2
<1>4. Top.backup = 0 /\ Top.slot \in {-1, 0} /\ Top.db \in Db
  BY <1>2, <1>3 DEF Descending, AllFirst, Frame
<1>5. Top.slot # -1 => world.here[Top.db] = "miss"
  BY <1>1, TopIs DEF InLoop
<1>6. ASSUME Top.slot = 0 PROVE /\ world.backups[Top.db][0] \in Db
                               /\ \A k \in 1 .. n : frames[k].db # world.backups[Top.db][0]
  <2>1. world.here[Top.db] = "miss"
    BY <1>5, <1>6
  <2>. QED
    BY <1>1, <2>1, NoHitOnTheWay
<1>7. CASE SearchRegion
  <2>1. Searched(Top) = Top.db
    BY <1>4 DEF Searched
  <2>2. CASE world.here[Top.db] = "none"
    BY <2>2, <1>1, NoHitOnTheWay
  <2>3. CASE Return(Top.db)
    BY <2>3, <1>1, <1>2, <1>3, DescendingReaches DEF Return
  <2>4. CASE /\ frames' = [frames EXCEPT ![Len(frames)].slot = 0]
             /\ UNCHANGED <<asked, world, result, fault>>
    BY <1>1, <2>4, DescendingGoesOn
  <2>. QED
    BY <1>4, <1>7, <2>1, <2>2, <2>3, <2>4 DEF SearchRegion
<1>8. CASE SkipNull
  BY <1>4, <1>6, <1>8, LookupAssumption DEF SkipNull, Slot
<1>9. CASE GiveUp
  BY <1>4, <1>6, <1>9, LookupAssumption DEF GiveUp, Slot
<1>10. CASE Recurse
  <2>1. Top.slot = 0
    BY <1>4, <1>10, LookupAssumption DEF Recurse, Slot
  <2> DEFINE e == world.backups[Top.db][0]
  <2>2. CASE UNCHANGED <<frames, result>>
    BY <2>2 DEF Descending, AllFirst, Distinct
  <2>3. CASE /\ frames' = Append(frames, Call(e, RecursiveBackup(0)))
             /\ UNCHANGED result
    <3>1. e \in Db /\ \A k \in 1 .. n : frames[k].db # e
      BY <1>6, <2>1
    <3> HIDE DEF e
    <3>. QED
      BY <1>1, <2>3, <3>1, DescendingGoesOn
  <2>. QED
    BY <1>10, <2>1, <2>2, <2>3 DEF Recurse
<1>11. CASE Resume
  BY <1>1, <1>11 DEF Resume
<1>12. CASE Exhausted
  BY <1>4, <1>12, LookupAssumption DEF Exhausted
<1>. QED
  BY <1>7, <1>8, <1>9, <1>10, <1>11, <1>12 DEF Next

(* No step gives up a node along the first entries.                        *)
LEMMA SearchedStep == LookupInv /\ SearchedInv /\ [Next]_vars => SearchedInv'
<1> SUFFICES ASSUME LookupInv, SearchedInv, [Next]_vars PROVE SearchedInv'
  OBVIOUS
<1>1. asked' = asked /\ world' = world
  BY DEF Next, vars, SearchRegion, SkipNull, GiveUp, Recurse, Resume, Exhausted, Return
<1>2. FirstEntries' = FirstEntries /\ FirstEntries \subseteq Db
  BY <1>1, FirstEntriesStay, FirstEntriesAreDb DEF LookupInv
<1> SUFFICES ASSUME asked = 0, NEW h \in FirstEntries, world.here[h] = "hit"
             PROVE  Descending' \/ result' \in FirstEntries
  BY <1>1, <1>2 DEF SearchedInv
<1>3. CASE UNCHANGED vars
  BY <1>3 DEF SearchedInv, vars, Descending, AllFirst, Distinct
<1>4. CASE Next /\ Descending
  BY <1>4, DescendingStep
<1>5. CASE Next /\ result \in FirstEntries
  <2>1. result \in Db /\ result # Running /\ result # NotFound
    BY <1>2, <1>5, LookupAssumption
  <2>2. Resume
    BY <1>5, <2>1 DEF Next, SearchRegion, SkipNull, GiveUp, Recurse, Exhausted
  <2>. QED
    BY <1>5, <2>1, <2>2 DEF Resume, Return
<1>. QED
  BY <1>3, <1>4, <1>5 DEF SearchedInv

(* A lookup that names no backup finds a node in every case in which a     *)
(* database along the first entries of the lists has it, whatever the      *)
(* other entries hold, and finds it there.                                 *)
THEOREM FirstEntriesFound == Spec => []FirstEntriesSearched
<1>1. LookupInv /\ SearchedInv => FirstEntriesSearched
  BY DEF SearchedInv, FirstEntriesSearched, Done, Descending
<1>. QED
  BY <1>1, LookupInitInv, LookupStepInv, SearchedInit, SearchedStep, PTL DEF Spec

-----------------------------------------------------------------------------
(* Every lookup ends, in cycles of backup lists too.                       *)

(* Work, of a lookup that goes on, by where it is.                         *)
WorkAt(d, s, i, f) ==
  PerCall * d + 3 * (NumBackups - s) - i + (IF f THEN 2 * PerCall * (StackFrames - d) ELSE 0)

(* Every call in progress but the innermost searches its whole list, and   *)
(* all of these but the last are at their first entry.                     *)
LEMMA CallsAre ==
  ASSUME LookupInv, Active
  PROVE  /\ Len(frames) \in 1 .. StackFrames
         /\ \A k \in 1 .. Len(frames) - 1 :
              frames[k].backup = 0 /\ frames[k].slot = frames[k + 1].backup
         /\ Top.slot # -1 => Top.backup = 0
         /\ Top.slot \in -1 .. NumBackups /\ Top.backup \in Nat
<1> DEFINE n == Len(frames)
<1>1. TypeOK /\ Chain /\ frames # <<>>
  BY DEF LookupInv, Active
<1>2. /\ n \in Nat /\ n > 0 /\ Top \in Frame
      /\ n <= StackFrames /\ StackFrames \in Nat
  BY <1>1, FramesTyped, LookupAssumption DEF TypeOK
<1>3. /\ \A k \in 1 .. n : frames[k].slot # -1 => InLoop(frames[k])
      /\ \A k \in 1 .. n - 1 : Calls(frames[k], frames[k + 1])
      /\ Top = frames[n]
  BY <1>1 DEF Chain, Top
<1> HIDE DEF n
<1>4. n \in 1 .. n /\ n \in 1 .. StackFrames /\ 1 .. n - 1 \subseteq 1 .. n
  BY <1>2
<1>5. ASSUME NEW k \in 1 .. n - 1
      PROVE  frames[k].backup = 0 /\ frames[k].slot = frames[k + 1].backup
  <2>1. frames[k].slot \in Slot /\ frames[k].slot = frames[k + 1].backup
    BY <1>3 DEF Calls, RecursiveBackup
  <2>2. frames[k].slot # -1
    BY <2>1, LookupAssumption DEF Slot
  <2>. QED
    BY <1>3, <1>4, <2>1, <2>2 DEF InLoop
<1>6. Top.slot # -1 => Top.backup = 0
  BY <1>3, <1>4 DEF InLoop
<1>7. Top.slot \in -1 .. NumBackups /\ Top.backup \in Nat
  BY <1>2, LookupAssumption DEF Frame
<1>. QED
  BY <1>4, <1>5, <1>6, <1>7 DEF n

(* The numbers: of a call that goes on in its list, of one that returns,   *)
(* and of one that calls for its first entry.                              *)
LEMMA WorkIs ==
  ASSUME NEW d \in 1 .. StackFrames, NEW s \in -1 .. NumBackups, NEW i \in 0 .. 2,
         NEW f \in BOOLEAN, i = 0 \/ s < NumBackups
  PROVE  /\ WorkAt(d, s, i, f) \in Nat /\ WorkAt(d, s, i, f) >= PerCall * d
         /\ PerCall * d \in Nat /\ PerCall * d >= 1
<1> DEFINE a == PerCall * d
           b == 2 * PerCall * (StackFrames - d)
<1>1. PerCall \in Nat /\ PerCall >= 6 /\ NumBackups \in Nat /\ NumBackups >= 1
  BY LookupAssumption DEF PerCall
<1>2. a \in Nat /\ a >= 1
  <2>1. d \in Nat /\ d >= 1
    OBVIOUS
  <2>. QED
    BY <1>1, <2>1
<1>3. b \in Nat
  <2>1. StackFrames - d \in Nat
    BY LookupAssumption
  <2>. QED
    BY <1>1, <2>1
<1>4. 3 * (NumBackups - s) - i \in Nat
  BY <1>1
<1>5. WorkAt(d, s, i, f) = a + 3 * (NumBackups - s) - i + (IF f THEN b ELSE 0)
  BY DEF WorkAt
<1> HIDE DEF a, b
<1>6. WorkAt(d, s, i, f) \in Nat /\ WorkAt(d, s, i, f) >= a
  BY <1>1, <1>2, <1>3, <1>4, <1>5
<1>. QED
  BY <1>2, <1>6 DEF a

(* What is left after a return to a call that is at its first entry.       *)
LEMMA WorkAfterReturn ==
  ASSUME NEW d \in 2 .. StackFrames, NEW s \in -1 .. NumBackups, NEW i \in 0 .. 2,
         NEW f \in BOOLEAN, i = 0 \/ s < NumBackups
  PROVE  WorkAt(d - 1, 0, 2, FALSE) < WorkAt(d, s, i, f)
<1> DEFINE a == PerCall * d
<1>1. PerCall = 3 * NumBackups + 3 /\ NumBackups \in Nat
  BY LookupAssumption DEF PerCall
<1>2. WorkAt(d - 1, 0, 2, FALSE) = PerCall * (d - 1) + 3 * NumBackups - 2
  BY <1>1 DEF WorkAt
<1>3. PerCall * (d - 1) = a - PerCall /\ a \in Int
  <2>1. d \in Int /\ PerCall \in Int
    BY <1>1
  <2>. QED
    BY <2>1
<1>4. WorkAt(d, s, i, f) \in Nat /\ WorkAt(d, s, i, f) >= a
  BY WorkIs
<1> DEFINE p == PerCall
           w == WorkAt(d - 1, 0, 2, FALSE)
           v == WorkAt(d, s, i, f)
<1>5. w = a - p + 3 * NumBackups - 2 /\ p = 3 * NumBackups + 3 /\ v \in Nat /\ v >= a /\ a \in Int
  BY <1>1, <1>2, <1>3, <1>4
<1> HIDE DEF a, p, w, v
<1>6. w < v
  BY <1>1, <1>5
<1>. QED
  BY <1>6 DEF w, v

(* What is left after the call for a first entry.                         *)
LEMMA WorkAfterCall ==
  ASSUME NEW d \in 1 .. StackFrames - 1
  PROVE  WorkAt(d + 1, -1, 0, TRUE) < WorkAt(d, 0, 0, TRUE)
<1> DEFINE p == PerCall
           a == PerCall * d
           b == PerCall * (StackFrames - d)
           c == PerCall * (d + 1)
           e == 2 * PerCall * (StackFrames - (d + 1))
           g == 2 * PerCall * (StackFrames - d)
           w == WorkAt(d + 1, -1, 0, TRUE)
           v == WorkAt(d, 0, 0, TRUE)
<1>1. p = 3 * NumBackups + 3 /\ NumBackups \in Nat /\ NumBackups >= 1
  BY LookupAssumption DEF PerCall
<1>2. d \in Int /\ p \in Int /\ StackFrames \in Int
  BY <1>1, LookupAssumption
<1>3. c = a + p /\ e = 2 * b - 2 * p /\ g = 2 * b /\ a \in Int /\ b \in Int
  BY <1>2
<1>4. /\ w = c + 3 * (NumBackups - (-1)) - 0 + e
      /\ v = a + 3 * (NumBackups - 0) - 0 + g
  BY DEF WorkAt
<1> HIDE DEF p, a, b, c, e, g, w, v
<1>5. w < v
  BY <1>1, <1>2, <1>3, <1>4
<1>. QED
  BY <1>5 DEF w, v

(* What there is to do at a call that searches its list, and at one whose  *)
(* reference names a backup.                                               *)
LEMMA WorkHere ==
  ASSUME LookupInv, Active
  PROVE  /\ Work \in Nat /\ Work >= 1
         /\ Top.backup = 0 =>
              /\ result # Running => Top.slot < NumBackups
              /\ Work = WorkAt(Len(frames), Top.slot, IF result # Running THEN 2 ELSE 0,
                               result = Running /\ Top.slot <= 0)
         /\ Top.backup # 0 /\ Len(frames) > 1 =>
              /\ Top.backup < NumBackups
              /\ Work = WorkAt(Len(frames) - 1, Top.backup, 1, FALSE)
<1> DEFINE n == Len(frames)
<1>1. /\ n \in 1 .. StackFrames /\ n >= 1 /\ StackFrames \in Nat
      /\ \A k \in 1 .. n - 1 : frames[k].backup = 0 /\ frames[k].slot = frames[k + 1].backup
      /\ Top.slot # -1 => Top.backup = 0
      /\ Top.slot \in -1 .. NumBackups /\ Top.backup \in Nat /\ Top = frames[n]
  BY CallsAre, LookupAssumption DEF Top
<1>2. result # Running => Top.slot \in Slot
  BY DEF LookupInv, Awaited, Active
<1>3. Slot = 0 .. NumBackups - 1 /\ NumBackups \in Nat
  BY LookupAssumption DEF Slot
<1>4. CASE Top.backup = 0
  <2> DEFINE i == IF result # Running THEN 2 ELSE 0
             f == result = Running /\ Top.slot <= 0
  <2>1. Depth = n
    BY <1>4 DEF Depth
  <2>2. Work = WorkAt(n, Top.slot, i, f)
    <3>1. n # 0
      <4> HIDE DEF n
      <4>. QED
        BY <1>1
    <3>. QED
      BY <1>1, <1>4, <2>1, <3>1 DEF Work, WorkAt, StepsAhead, StepsDone, Descends
  <2>3. /\ result # Running => Top.slot < NumBackups
        /\ i \in 0 .. 2 /\ f \in BOOLEAN /\ (i = 0 \/ Top.slot < NumBackups)
    BY <1>2, <1>3
  <2> HIDE DEF n, i, f
  <2>4. WorkAt(n, Top.slot, i, f) \in Nat /\ WorkAt(n, Top.slot, i, f) >= 1
    <3> DEFINE w == WorkAt(n, Top.slot, i, f)
               a == PerCall * n
    <3>1. w \in Nat /\ w >= a /\ a \in Nat /\ a >= 1
      BY <1>1, <2>3, WorkIs
    <3> HIDE DEF w, a
    <3>2. w >= 1
      BY <3>1
    <3>. QED
      BY <3>1, <3>2 DEF w
  <2>. QED
    BY <1>4, <2>2, <2>3, <2>4 DEF n, i, f
<1>5. CASE Top.backup # 0 /\ n = 1
  <2>1. Depth = 0
    BY <1>5 DEF Depth
  <2>. QED
    BY <1>5, <2>1 DEF Work
<1>6. CASE Top.backup # 0 /\ n # 1
  <2> HIDE DEF n
  <2>0. PICK m : m = n - 1
    OBVIOUS
  <2>1. m \in 1 .. StackFrames /\ m \in 1 .. n - 1 /\ m + 1 = n /\ m # 0
    BY <1>1, <1>6, <2>0
  <2>2. frames[m].slot = Top.backup
    BY <1>1, <2>1
  <2>3. Top.backup \in Slot
    <3>1. Calls(frames[m], frames[m + 1])
      BY <2>1 DEF LookupInv, Chain, n
    <3>. QED
      BY <3>1, <1>1, <2>1 DEF Calls, RecursiveBackup
  <2>4. Depth = m
    BY <1>6, <2>0 DEF Depth, n
  <2>5. result = Running /\ ~ Descends
    BY <1>1, <1>2, <1>6, LookupAssumption DEF Slot, Descends
  <2>6. Work = WorkAt(m, Top.backup, 1, FALSE)
    BY <1>6, <2>1, <2>2, <2>4, <2>5 DEF Work, WorkAt, StepsAhead, StepsDone
  <2>7. Top.backup \in -1 .. NumBackups /\ Top.backup < NumBackups
    BY <2>3, <1>3
  <2>8. Work \in Nat /\ Work >= 1
    <3> DEFINE w == WorkAt(m, Top.backup, 1, FALSE)
               a == PerCall * m
    <3>1. w \in Nat /\ w >= a /\ a \in Nat /\ a >= 1
      <4>1. 1 \in 0 .. 2 /\ FALSE \in BOOLEAN
        OBVIOUS
      <4>. QED
        BY <2>1, <2>7, <4>1, WorkIs
    <3>2. Work = w
      BY <2>6
    <3> HIDE DEF w, a
    <3>. QED
      BY <3>1, <3>2
  <2>. QED
    BY <1>6, <2>0, <2>6, <2>7, <2>8 DEF n
<1>7. n > 1 => n # 1
  <2> HIDE DEF n
  <2>. QED
    BY <1>1
<1>. QED
  BY <1>4, <1>5, <1>6, <1>7

(* A call returns: the one before it goes on, if there is one.             *)
LEMMA ReturnWorks ==
  ASSUME LookupInv, Active, NEW r \in Db \cup {NotFound}, Return(r)
  PROVE  Work' \in 0 .. Work - 1
<1> DEFINE n == Len(frames)
<1>1. /\ n \in 1 .. StackFrames /\ n >= 1 /\ StackFrames \in Nat
      /\ \A k \in 1 .. n - 1 : frames[k].backup = 0 /\ frames[k].slot = frames[k + 1].backup
      /\ Top.slot \in -1 .. NumBackups /\ Top.backup \in Nat /\ Top = frames[n]
  BY CallsAre, LookupAssumption DEF Top
<1>2. Work \in Nat /\ Work >= 1
  BY WorkHere
<1>3. frames' = Pop /\ result' = r /\ r # Running /\ fault' = fault /\ TypeOK /\ frames # <<>>
  BY LookupAssumption DEF Return, LookupInv, Active
<1>4. /\ Len(frames') = n - 1 /\ \A k \in 1 .. n - 1 : frames'[k] = frames[k]
      /\ frames' # <<>> => n > 1
  BY <1>3, PopKeeps
<1> HIDE DEF n
<1>5. CASE frames' = <<>>
  <2>1. Work' = 0
    BY <1>5 DEF Work, Active
  <2>. QED
    BY <1>2, <2>1
<1>6. CASE frames' # <<>>
  <2>1. PICK m : m = n - 1
    OBVIOUS
  <2>2. /\ m \in 1 .. n - 1 /\ m \in 1 .. StackFrames /\ m # 0 /\ m + 1 = n
        /\ n \in 2 .. StackFrames
    BY <1>1, <1>4, <1>6, <2>1
  <2>3. Top' = frames[m] /\ Top'.backup = 0 /\ Top'.slot = Top.backup /\ Len(frames') = m
    BY <1>1, <1>4, <2>1, <2>2 DEF Top
  <2>4. Depth' = m /\ Active' /\ StepsDone' = 2 /\ ~ Descends'
    BY <1>3, <1>6, <2>3 DEF Depth, Active, StepsDone, Descends
  <2>5. frames'[m].slot = Top.backup
    BY <1>4, <2>2, <2>3 DEF Top
  <2>6. Work' = WorkAt(m, Top.backup, 2, FALSE)
    <3>1. StepsAhead' = 3 * (NumBackups - frames'[Depth'].slot) - StepsDone'
      BY DEF StepsAhead
    <3>2. Work' = IF ~ Active' THEN 0 ELSE IF Depth' = 0 THEN 1
                  ELSE PerCall * Depth' + StepsAhead'
                         + (IF Descends' THEN 2 * PerCall * (StackFrames - Depth') ELSE 0)
      BY DEF Work, PerCall
    <3>. QED
      BY <2>2, <2>4, <2>5, <3>1, <3>2 DEF WorkAt
  <2>7. ASSUME Top.backup # 0 PROVE Work' \in Nat /\ Work' < Work
    <3>1. Work = WorkAt(m, Top.backup, 1, FALSE) /\ Top.backup < NumBackups
      BY <1>4, <1>6, <2>1, <2>7, WorkHere DEF n
    <3>2. Top.backup \in -1 .. NumBackups /\ 2 \in 0 .. 2 /\ FALSE \in BOOLEAN
      BY <1>1, <3>1, LookupAssumption
    <3>3. Work' \in Nat
      BY <2>2, <2>6, <3>1, <3>2, WorkIs
    <3> DEFINE a == PerCall * m
               b == 3 * (NumBackups - Top.backup)
    <3>4. Work' = a + (b - 2) + 0 /\ Work = a + (b - 1) + 0
      BY <2>6, <3>1 DEF WorkAt
    <3>5. a \in Int /\ b \in Int
      <4>1. m \in Int /\ PerCall \in Int /\ NumBackups \in Int /\ Top.backup \in Int
        BY <1>1, <2>2, LookupAssumption DEF PerCall
      <4>. QED
        BY <4>1
    <3> HIDE DEF a, b
    <3>6. PICK u, w : u = Work' /\ w = Work
      OBVIOUS
    <3>7. u = a + (b - 2) + 0 /\ w = a + (b - 1) + 0
      BY <3>4, <3>6
    <3>8. u < w
      BY <3>5, <3>7
    <3>. QED
      BY <3>3, <3>6, <3>8
  <2>8. ASSUME Top.backup = 0 PROVE Work' \in Nat /\ Work' < Work
    <3> DEFINE i == IF result # Running THEN 2 ELSE 0
               f == result = Running /\ Top.slot <= 0
    <3>1. Work = WorkAt(n, Top.slot, i, f) /\ (i = 0 \/ Top.slot < NumBackups)
      BY <2>8, WorkHere DEF n
    <3>2. i \in 0 .. 2 /\ f \in BOOLEAN /\ 2 \in 0 .. 2 /\ FALSE \in BOOLEAN
      OBVIOUS
    <3> HIDE DEF i, f
    <3>3. Work' = WorkAt(n - 1, 0, 2, FALSE)
      BY <2>1, <2>6, <2>8
    <3>4. Work' < Work
      BY <1>1, <2>2, <3>1, <3>2, <3>3, WorkAfterReturn
    <3>5. 0 \in -1 .. NumBackups /\ 0 < NumBackups
      BY LookupAssumption
    <3>6. Work' \in Nat
      BY <2>2, <2>6, <2>8, <3>2, <3>5, WorkIs
    <3>. QED
      BY <3>4, <3>6
  <2>9. Work' \in Nat /\ Work' < Work
    BY <2>7, <2>8
  <2>10. PICK v, w : v = Work' /\ w = Work
    OBVIOUS
  <2>11. v \in 0 .. w - 1
    <3>1. v \in Nat /\ w \in Nat /\ v < w
      BY <1>2, <2>9, <2>10
    <3>. QED
      BY <3>1
  <2>. QED
    BY <2>10, <2>11
<1>. QED
  BY <1>5, <1>6

(* The innermost call that searches its list goes on in it.                *)
LEMMA MoveWorks ==
  ASSUME LookupInv, Active, Top.backup = 0, NEW v \in 0 .. NumBackups,
         frames' = [frames EXCEPT ![Len(frames)].slot = v],
         result' = Running, fault' = fault,
         \/ result = Running /\ Top.slot < v /\ (Top.slot = -1 \/ v > 0)
         \/ result # Running /\ v = Top.slot + 1
  PROVE  Work' \in 0 .. Work - 1
<1> DEFINE n == Len(frames)
           i == IF result # Running THEN 2 ELSE 0
           f == result = Running /\ Top.slot <= 0
<1>1. /\ n \in 1 .. StackFrames /\ n >= 1 /\ StackFrames \in Nat
      /\ Top.slot \in -1 .. NumBackups
  BY CallsAre, LookupAssumption
<1>2. /\ Work \in Nat /\ Work = WorkAt(n, Top.slot, i, f)
      /\ result # Running => Top.slot < NumBackups
  BY WorkHere
<1>3. v \in -1 .. NumBackups /\ TypeOK /\ frames # <<>>
  BY LookupAssumption DEF LookupInv, Active
<1>4. /\ Len(frames') = n /\ frames' # <<>> /\ Top \in Frame
      /\ frames'[n] = [Top EXCEPT !.slot = v]
  BY <1>3, MovedFrames, FramesTyped
<1>5. Top' = frames'[n] /\ Top'.slot = v /\ Top'.backup = 0
  BY <1>4 DEF Top, Frame
<1>6. /\ Depth' = n /\ Active' /\ StepsDone' = 0
      /\ Descends' = (v <= 0)
  BY <1>4, <1>5 DEF Depth, Active, StepsDone, Descends
<1> DEFINE g == v <= 0
<1>7. Work' = WorkAt(n, v, 0, g)
  <2>1. StepsAhead' = 3 * (NumBackups - frames'[Depth'].slot) - StepsDone'
    BY DEF StepsAhead
  <2>2. Work' = IF ~ Active' THEN 0 ELSE IF Depth' = 0 THEN 1
                ELSE PerCall * Depth' + StepsAhead'
                       + (IF Descends' THEN 2 * PerCall * (StackFrames - Depth') ELSE 0)
    BY DEF Work, PerCall
  <2>3. frames'[n].slot = v /\ n # 0
    <3> HIDE DEF n
    <3>. QED
      BY <1>1, <1>5
  <2>. QED
    BY <1>6, <2>1, <2>2, <2>3 DEF WorkAt
<1>8. /\ i \in {0, 2} /\ f \in BOOLEAN /\ g \in BOOLEAN
      /\ (i = 0 => Top.slot < v /\ (g => f)) /\ (i = 2 => v = Top.slot + 1 /\ ~ g)
  <2>1. result # Running => Top.slot >= 0
    <3>1. result # Running => Top.slot \in Slot
      BY DEF LookupInv, Awaited, Active
    <3>. QED
      BY <3>1, LookupAssumption DEF Slot
  <2>. QED
    BY <1>1, <1>3, <2>1, LookupAssumption
<1> HIDE DEF n, i, f, g
<1>9. Work' \in Nat
  BY <1>1, <1>3, <1>7, <1>8, WorkIs
<1>10. Work' < Work
  <2> DEFINE a == PerCall * n
             b == 2 * PerCall * (StackFrames - n)
             s == Top.slot
             u == WorkAt(n, v, 0, g)
             w == WorkAt(n, Top.slot, i, f)
  <2>1. /\ u = a + 3 * (NumBackups - v) - 0 + (IF g THEN b ELSE 0)
        /\ w = a + 3 * (NumBackups - s) - i + (IF f THEN b ELSE 0)
    BY DEF WorkAt
  <2>2. PerCall \in Nat /\ NumBackups \in Int
    BY LookupAssumption DEF PerCall
  <2>3. a \in Int /\ b \in Nat
    <3>1. StackFrames - n \in Nat
      BY <1>1
    <3>. QED
      BY <1>1, <2>2, <3>1
  <2>4. s \in Int /\ v \in Int
    BY <1>1
  <2> HIDE DEF a, b, s, u, w
  <2>5. (IF g THEN b ELSE 0) <= (IF f THEN b ELSE 0)
    BY <1>8, <2>3
  <2>6. (i = 0 => s < v) /\ (i = 2 => v = s + 1) /\ i \in {0, 2}
    BY <1>8 DEF s
  <2>7. u < w
    BY SMTT(30), <2>1, <2>2, <2>3, <2>4, <2>5, <2>6
  <2>. QED
    BY <1>2, <1>7, <2>7 DEF u, w
<1>11. PICK u, w : u = Work' /\ w = Work
  OBVIOUS
<1>12. u \in Nat /\ w \in Nat /\ u < w
  BY <1>2, <1>9, <1>10, <1>11
<1>13. u \in 0 .. w - 1
  BY <1>12
<1>. QED
  BY <1>11, <1>13

(* The call for an entry: for the first, another call that searches its    *)
(* list, one frame nearer to the end of the stack; for a later one, a call *)
(* that searches one database.                                             *)
LEMMA PushWorks ==
  ASSUME LookupInv, Active, result = Running, Top.slot \in Slot,
         NEW e \in Db, Len(frames) < StackFrames,
         frames' = Append(frames, Call(e, RecursiveBackup(Top.slot))),
         result' = result, fault' = fault
  PROVE  Work' \in 0 .. Work - 1
<1> DEFINE n == Len(frames)
           s == Top.slot
           c == Call(e, RecursiveBackup(s))
<1>1. /\ n \in 1 .. StackFrames /\ n >= 1 /\ StackFrames \in Nat /\ n < StackFrames
      /\ Top.backup = 0 /\ s \in 0 .. NumBackups - 1 /\ NumBackups \in Nat /\ Top = frames[n]
      /\ TypeOK
  BY CallsAre, LookupAssumption DEF Slot, Top, LookupInv
<1>2. /\ Work \in Nat /\ Work = WorkAt(n, s, 0, s <= 0)
  BY <1>1, WorkHere
<1>3. c \in Frame /\ c.backup = s /\ c.slot = -1
  BY <1>1 DEF Call, RecursiveBackup, Frame
<1>4. /\ frames' = Append(frames, c) /\ frames' # <<>> /\ Len(frames') = n + 1
      /\ \A k \in 1 .. n : frames'[k] = frames[k]
      /\ frames'[n + 1] = c
  BY <1>1, <1>3, PushKeeps
<1>5. Top' = c /\ Active' /\ result' = Running
  BY <1>4 DEF Top, Active
<1> HIDE DEF n, c
<1>6. n \in 1 .. n /\ n + 1 # 0 /\ n # 0 /\ n + 1 - 1 = n /\ n + 1 \in 1 .. StackFrames
      /\ n \in 1 .. StackFrames - 1
  BY <1>1
<1>7. /\ StepsAhead' = 3 * (NumBackups - frames'[Depth'].slot) - StepsDone'
      /\ Work' = IF ~ Active' THEN 0 ELSE IF Depth' = 0 THEN 1
                 ELSE PerCall * Depth' + StepsAhead'
                        + (IF Descends' THEN 2 * PerCall * (StackFrames - Depth') ELSE 0)
  BY DEF StepsAhead, Work, PerCall
<1>8. CASE s = 0
  <2>1. Depth' = n + 1 /\ StepsDone' = 0 /\ Descends' /\ frames'[n + 1].slot = -1
    BY <1>3, <1>4, <1>5, <1>8 DEF Depth, StepsDone, Descends
  <2>2. Work' = WorkAt(n + 1, -1, 0, TRUE)
    BY <1>5, <1>6, <1>7, <2>1 DEF WorkAt
  <2>3. Work = WorkAt(n, 0, 0, TRUE)
    <3>1. (s <= 0) = TRUE
      BY <1>8
    <3>. QED
      BY <1>2, <1>8, <3>1
  <2>4. Work' < Work
    BY <1>6, <2>2, <2>3, WorkAfterCall
  <2>5. -1 \in -1 .. NumBackups /\ 0 \in 0 .. 2 /\ TRUE \in BOOLEAN
    BY <1>1
  <2>6. Work' \in Nat
    BY <1>6, <2>2, <2>5, WorkIs
  <2>7. PICK u, w : u = Work' /\ w = Work
    OBVIOUS
  <2>8. u \in Nat /\ w \in Nat /\ u < w
    BY <1>2, <2>4, <2>6, <2>7
  <2>9. u \in 0 .. w - 1
    BY <2>8
  <2>. QED
    BY <2>7, <2>9
<1>9. CASE s # 0
  <2>1. Depth' = n /\ StepsDone' = 1 /\ ~ Descends' /\ frames'[n].slot = s
    BY <1>1, <1>3, <1>4, <1>5, <1>6, <1>9 DEF Depth, StepsDone, Descends
  <2>2. Work' = WorkAt(n, s, 1, FALSE)
    BY <1>5, <1>6, <1>7, <2>1 DEF WorkAt
  <2>3. Work = WorkAt(n, s, 0, FALSE)
    <3>1. (s <= 0) = FALSE
      BY <1>1, <1>9
    <3>. QED
      BY <1>2, <3>1
  <2> DEFINE a == PerCall * n
             b == 3 * (NumBackups - s)
  <2>5. a \in Int /\ b \in Int
    <3>1. n \in Int /\ PerCall \in Int /\ s \in Int
      BY <1>1, LookupAssumption DEF PerCall
    <3>. QED
      BY <1>1, <3>1
  <2>6. Work' = a + (b - 1) + 0 /\ Work = a + (b - 0) + 0
    BY <2>2, <2>3 DEF WorkAt
  <2> HIDE DEF a, b
  <2>7. s \in -1 .. NumBackups /\ s < NumBackups /\ 1 \in 0 .. 2 /\ FALSE \in BOOLEAN
    BY <1>1
  <2>8. Work' \in Nat
    BY <1>6, <1>1, <2>2, <2>7, WorkIs
  <2>9. PICK u, w : u = Work' /\ w = Work
    OBVIOUS
  <2>10. u \in Nat /\ w \in Nat /\ u = a + (b - 1) + 0 /\ w = a + (b - 0) + 0
    BY <1>2, <2>6, <2>8, <2>9
  <2>11. u \in 0 .. w - 1
    BY <2>5, <2>10
  <2>. QED
    BY <2>9, <2>11
<1>. QED
  BY <1>8, <1>9

(* Every step of a lookup leaves less to do.                               *)
LEMMA LookupWorks ==
  ASSUME LookupInv, Next
  PROVE  Work' \in 0 .. Work - 1
<1>1. TypeOK /\ Slot = 0 .. NumBackups - 1 /\ NumBackups \in Nat /\ NumBackups >= 1
  BY LookupAssumption DEF LookupInv, Slot
<1>2. ASSUME Active PROVE /\ Top.slot # -1 => Top.backup = 0
                          /\ Top.slot \in -1 .. NumBackups
                          /\ Work \in Nat /\ Work >= 1
  BY <1>2, CallsAre, WorkHere
<1>3. CASE SearchRegion
  <2> DEFINE db == Searched(Top)
  <2>1. Active /\ result = Running /\ Top.slot = -1
    BY <1>3 DEF SearchRegion
  <2>2. CASE Return(NotFound)
    BY <2>1, <2>2, ReturnWorks
  <2>3. CASE db \in Db /\ Return(db)
    <3> HIDE DEF db
    <3>. QED
      BY <2>1, <2>3, ReturnWorks
  <2>4. CASE /\ Top.backup = 0
             /\ frames' = [frames EXCEPT ![Len(frames)].slot = 0]
             /\ UNCHANGED <<asked, world, result, fault>>
    <3>1. 0 \in 0 .. NumBackups /\ Top.slot < 0
      BY <1>1, <2>1
    <3>. QED
      BY <2>1, <2>4, <3>1, MoveWorks
  <2>. QED
    BY <1>3, <2>2, <2>3, <2>4 DEF SearchRegion
<1>4. CASE SkipNull
  <2>1. Active /\ result = Running /\ Top.slot \in Slot
    BY <1>4 DEF SkipNull
  <2>2. PICK v : v = Top.slot + 1
    OBVIOUS
  <2>3. v \in 0 .. NumBackups /\ Top.slot < v /\ v > 0 /\ Top.backup = 0
    BY <1>1, <1>2, <2>1, <2>2
  <2>4. frames' = [frames EXCEPT ![Len(frames)].slot = v] /\ result' = Running /\ fault' = fault
    BY <1>4, <2>1, <2>2 DEF SkipNull, NextSlot, Top
  <2>. QED
    BY <2>1, <2>3, <2>4, MoveWorks
<1>5. CASE GiveUp
  BY <1>5, ReturnWorks DEF GiveUp
<1>6. CASE Recurse
  <2> DEFINE entry == world.backups[Top.db][Top.slot]
  <2>1. Active /\ result = Running /\ Top.slot \in Slot /\ entry \in Db
    BY <1>6 DEF Recurse
  <2>2. CASE Len(frames) < StackFrames
    <3>1. /\ frames' = Append(frames, Call(entry, RecursiveBackup(Top.slot)))
          /\ result' = result /\ fault' = fault
      BY <1>6, <2>2 DEF Recurse
    <3>. QED
      BY <2>1, <2>2, <3>1, PushWorks
  <2>3. CASE ~ (Len(frames) < StackFrames)
    <3>1. fault'
      BY <1>6, <2>3 DEF Recurse
    <3>2. Work' = 0
      BY <3>1 DEF Work, Active
    <3>. QED
      BY <1>2, <2>1, <3>2
  <2>. QED
    BY <2>2, <2>3
<1>7. CASE Resume
  <2>1. Active /\ result # Running
    BY <1>7 DEF Resume
  <2>2. CASE result \in Db /\ Return(result)
    BY <2>1, <2>2, ReturnWorks
  <2>3. CASE /\ frames' = [frames EXCEPT ![Len(frames)].slot = NextSlot(@)]
             /\ result' = Running
             /\ UNCHANGED <<asked, world, fault>>
    <3>1. Top.slot \in Slot
      BY <2>1 DEF LookupInv, Awaited, Active
    <3>2. PICK v : v = Top.slot + 1
      OBVIOUS
    <3>3. v \in 0 .. NumBackups /\ Top.backup = 0
      BY <1>1, <1>2, <2>1, <3>1, <3>2
    <3>4. frames' = [frames EXCEPT ![Len(frames)].slot = v]
      BY <2>3, <3>2 DEF NextSlot, Top
    <3>. QED
      BY <2>1, <2>3, <3>2, <3>3, <3>4, MoveWorks
  <2>. QED
    BY <1>7, <2>2, <2>3 DEF Resume
<1>8. CASE Exhausted
  BY <1>8, ReturnWorks DEF Exhausted
<1>. QED
  BY <1>3, <1>4, <1>5, <1>6, <1>7, <1>8 DEF Next

(* What there is to do at the beginning.                                   *)
LEMMA LookupWorkInit == Init => Work <= 2 * PerCall * StackFrames
<1> SUFFICES ASSUME Init PROVE Work <= 2 * PerCall * StackFrames
  OBVIOUS
<1> DEFINE c == Call(Root, asked)
<1>1. frames = <<c>> /\ result = Running /\ ~ fault /\ c.slot = -1 /\ c.backup = asked
  BY DEF Init, Call
<1>2. Len(frames) = 1 /\ frames # <<>> /\ Top = c
  BY <1>1 DEF Top
<1>3. PICK p, b, t : p = PerCall /\ b = PerCall * (StackFrames - 1) /\ t = PerCall * StackFrames
  OBVIOUS
<1>4. /\ p = 3 * NumBackups + 3 /\ NumBackups \in Nat /\ NumBackups >= 1
      /\ b = t - p /\ t \in Int /\ t >= p
  <2>1. PerCall = 3 * NumBackups + 3 /\ NumBackups \in Nat /\ NumBackups >= 1
    BY LookupAssumption DEF PerCall
  <2>2. StackFrames \in Int /\ StackFrames - 1 \in Nat /\ p \in Nat
    BY <1>3, <2>1, LookupAssumption
  <2>3. b = p * (StackFrames - 1) /\ t = p * StackFrames
    BY <1>3
  <2>4. b = t - p /\ b \in Nat /\ t \in Int
    BY <2>2, <2>3
  <2>. QED
    BY <1>3, <2>1, <2>2, <2>4
<1>5. 2 * PerCall * StackFrames = 2 * t
  <2>1. PerCall \in Int /\ StackFrames \in Int
    BY LookupAssumption DEF PerCall
  <2>. QED
    BY <1>3, <2>1
<1>6. CASE asked = 0
  <2>1. Depth = 1 /\ StepsDone = 0 /\ Descends
    BY <1>1, <1>2, <1>6 DEF Depth, StepsDone, Descends
  <2>2. frames[Depth].slot = -1
    BY <1>1, <1>2, <2>1 DEF Top
  <2>3. Work = PerCall * 1 + (3 * (NumBackups - (-1)) - 0) + 2 * PerCall * (StackFrames - 1)
    BY <1>1, <1>2, <2>1, <2>2 DEF Work, Active, StepsAhead
  <2>4. PerCall * 1 = p /\ 2 * PerCall * (StackFrames - 1) = 2 * b
    <3>1. PerCall \in Int /\ StackFrames \in Int
      BY LookupAssumption DEF PerCall
    <3>. QED
      BY <1>3, <3>1
  <2>5. Work = p + (3 * (NumBackups - (-1)) - 0) + 2 * b
    BY <2>3, <2>4
  <2>6. p + (3 * (NumBackups - (-1)) - 0) + 2 * b <= 2 * t
    BY <1>4
  <2>. QED
    BY <1>5, <2>5, <2>6
<1>7. CASE asked # 0
  <2>1. Depth = 0
    BY <1>1, <1>2, <1>7 DEF Depth
  <2>2. Work = 1
    BY <1>1, <1>2, <2>1 DEF Work, Active
  <2>3. 1 <= 2 * t
    BY <1>4
  <2>. QED
    BY <1>5, <2>2, <2>3
<1>. QED
  BY <1>6, <1>7

(* Every lookup is over after at most 6 steps for each backup entry, one   *)
(* past the last included, of each call that the stack has room for,       *)
(* whatever the databases hold and also if their backup lists form cycles: *)
(* node_lookup returns, or its recursion overflows the stack.              *)
THEOREM LookupEnds == Spec => LookupIsShort
<1>1. LookupInv /\ [Next]_vars => [Work' \in 0 .. Work - 1]_vars
  BY LookupWorks
<1>. QED
  BY <1>1, LookupWorkInit, LookupInvariant, PTL DEF Spec, LookupIsShort

-----------------------------------------------------------------------------
(* What exactly a lookup finds: FindsWhatItSearches.                       *)
(*                                                                         *)
(* A search that names no backup first goes along the first entries; it    *)
(* may find the node there, or run into a cycle, out of which it does not  *)
(* come. Else it goes back through the calls in progress and tries their   *)
(* later entries.                                                          *)

NotHit(d) == d \in Db => world.here[d] # "hit"

(* The entries of d before slot v were tried, and none leads nowhere.      *)
Passed(d, v) ==
  /\ v \in 0 .. NumBackups /\ world.here[d] = "miss"
  /\ \A s \in 0 .. v - 1 : /\ world.backups[d][s] # Broken
                           /\ s # 0 => NotHit(Behind(d, s))

(* Everything that is to be tried of d was.                                *)
Clean(d) ==
  world.here[d] = "miss" =>
    \A s \in Slot \ {0} : Intact(d, s) => NotHit(Behind(d, s))

OnWay(f) == f.backup = 0 => f.db \in FirstEntries /\ Passed(f.db, f.slot)

(* None of the databases along the first entries has the node, and each of *)
(* them is done with, or one of the calls is at it.                        *)
TriedOrCalled(fr) ==
  \A d \in FirstEntries :
    /\ NotHit(d)
    /\ Clean(d) \/ \E k \in 1 .. Len(fr) : fr[k].backup = 0 /\ fr[k].db = d

(* A search on its way back.                                               *)
FailsWith(fr, r) ==
  /\ TriedOrCalled(fr) /\ \A k \in 1 .. Len(fr) : OnWay(fr[k])
  /\ r \in {NotFound, Running} /\ (fr = <<>> => r = NotFound)
  /\ fr # <<>> =>
       LET f == fr[Len(fr)]
       IN  /\ r = NotFound => Passed(f.db, f.slot + 1)
           /\ r = Running /\ f.backup = 0 => f.slot # 0

(* A search in a cycle of first entries.                                   *)
Looping ==
  /\ result = Running /\ frames # <<>> /\ AllFirst
  /\ \E C : FirstCycle(world, C) /\ \A k \in 1 .. Len(frames) : frames[k].db \in C

Found == result \in Way \cap Db

WayInv == asked = 0 => Descending \/ Looping \/ FailsWith(frames, result) \/ Found

(* The search of a backup that the caller names.                           *)
AskedInv ==
  asked # 0 =>
    IF result = Running THEN frames # <<>>
    ELSE /\ frames = <<>>
         /\ IF result = NotFound THEN NotHit(EntryAt(Root, asked - 1))
            ELSE result = EntryAt(Root, asked - 1)

-----------------------------------------------------------------------------
(* All this is about a world that stays as it is.                          *)
LEMMA WayStays ==
  ASSUME world' = world, asked' = asked
  PROVE  Way' = Way
<1>1. FirstEntries' = FirstEntries
  BY FirstEntriesStay
<1>. QED
  BY <1>1 DEF Way, EntryAt, Behind, Intact

(* A search on its way back is so after a step as well, if its calls and   *)
(* its result say so.                                                      *)
LEMMA FailsNext ==
  ASSUME world' = world, NEW fr, fr = frames', NEW r, r = result', FailsWith(fr, r)
  PROVE  FailsWith(frames, result)'
<1>1. FirstEntries' = FirstEntries
  BY FirstEntriesStay
<1>2. ASSUME NEW d, NEW v
      PROVE  (Passed(d, v) <=> Passed(d, v)') /\ (Clean(d) <=> Clean(d)') /\ (NotHit(d) <=> NotHit(d)')
  BY DEF Passed, Clean, Intact, Behind, EntryAt, NotHit
<1>3. TriedOrCalled(frames)'
  <2>1. TriedOrCalled(fr)
    BY DEF FailsWith
  <2>. QED
    BY <1>1, <1>2, <2>1 DEF TriedOrCalled
<1>4. (\A k \in 1 .. Len(frames) : OnWay(frames[k]))'
  <2>1. \A k \in 1 .. Len(fr) : OnWay(fr[k])
    BY DEF FailsWith
  <2>. QED
    BY <1>1, <1>2, <2>1 DEF OnWay
<1>5. /\ r \in {NotFound, Running} /\ (fr = <<>> => r = NotFound)
      /\ fr # <<>> =>
           LET f == fr[Len(fr)]
           IN  /\ r = NotFound => Passed(f.db, f.slot + 1)
               /\ r = Running /\ f.backup = 0 => f.slot # 0
  BY DEF FailsWith
<1>6. (frames # <<>> =>
         LET f == frames[Len(frames)]
         IN  /\ result = NotFound => Passed(f.db, f.slot + 1)
             /\ result = Running /\ f.backup = 0 => f.slot # 0)'
  BY <1>2, <1>5
<1>. QED
  BY <1>3, <1>4, <1>5, <1>6 DEF FailsWith

(* A database whose entries were all tried, or up to one that leads        *)
(* nowhere, is done with.                                                  *)
LEMMA PassedIsClean ==
  ASSUME NEW d, NEW v \in 0 .. NumBackups, Passed(d, v),
         v = NumBackups \/ world.backups[d][v] = Broken
  PROVE  Clean(d)
<1> SUFFICES ASSUME NEW s \in Slot \ {0}, Intact(d, s) PROVE NotHit(Behind(d, s))
  BY DEF Clean
<1>1. s \in 0 .. NumBackups - 1 /\ s # 0 /\ NumBackups \in Nat
  BY LookupAssumption DEF Slot
<1>2. s < v
  <2>1. s < NumBackups
    BY <1>1
  <2>2. ASSUME v <= s PROVE world.backups[d][v] # Broken
    <3>1. v \in 0 .. s
      BY <1>1, <2>2
    <3>. QED
      BY <3>1 DEF Intact
  <2>. QED
    BY <1>1, <2>1, <2>2
<1>3. s \in 0 .. v - 1
  BY <1>1, <1>2
<1>. QED
  BY <1>1, <1>3 DEF Passed

(* A call returns without the node: the one before it has tried one entry  *)
(* more.                                                                   *)
LEMMA ReturnFails ==
  ASSUME LookupInv, Active, asked = 0, Return(NotFound), TriedOrCalled(frames),
         \A k \in 1 .. Len(frames) - 1 : OnWay(frames[k]),
         Top.backup = 0 => Clean(Top.db),
         Top.backup # 0 => NotHit(Searched(Top))
  PROVE  FailsWith(frames, result)'
<1> DEFINE n == Len(frames)
<1>1. /\ n \in 1 .. StackFrames /\ n >= 1 /\ StackFrames \in Nat
      /\ \A k \in 1 .. n - 1 : frames[k].backup = 0 /\ frames[k].slot = frames[k + 1].backup
      /\ Top = frames[n]
  BY CallsAre, LookupAssumption DEF Top
<1>2. frames' = Pop /\ result' = NotFound /\ world' = world /\ TypeOK /\ frames # <<>> /\ Chain
  BY DEF Return, LookupInv, Active
<1> PICK fr : fr = Pop
  OBVIOUS
<1>3. /\ Len(fr) = n - 1 /\ \A k \in 1 .. n - 1 : fr[k] = frames[k]
      /\ fr # <<>> => n > 1
      /\ fr \in Seq(Frame)
  BY <1>2, PopKeeps
<1>4. ASSUME NEW d \in FirstEntries
      PROVE  /\ NotHit(d)
             /\ Clean(d) \/ \E k \in 1 .. Len(fr) : fr[k].backup = 0 /\ fr[k].db = d
  <2>1. NotHit(d) /\ (Clean(d) \/ \E k \in 1 .. n : frames[k].backup = 0 /\ frames[k].db = d)
    BY DEF TriedOrCalled
  <2>2. ASSUME NEW k \in 1 .. n, frames[k].backup = 0, frames[k].db = d
        PROVE  Clean(d) \/ k \in 1 .. n - 1
    <3> HIDE DEF n
    <3>1. k = n \/ k \in 1 .. n - 1
      BY <1>1
    <3>. QED
      BY <1>1, <2>2, <3>1
  <2>. QED
    BY <1>3, <2>1, <2>2
<1>5. \A k \in 1 .. Len(fr) : OnWay(fr[k])
  BY <1>3
<1>6. ASSUME fr # <<>>
      PROVE  fr[Len(fr)] = frames[n - 1] /\ Passed(frames[n - 1].db, frames[n - 1].slot + 1)
  <2> PICK m : m = n - 1
    OBVIOUS
  <2>1. m \in 1 .. n - 1 /\ m + 1 = n
    <3> HIDE DEF n
    <3>. QED
      BY <1>1, <1>3, <1>6
  <2> DEFINE f == frames[m]
  <2>2. f.backup = 0 /\ f.slot = Top.backup /\ Calls(f, Top) /\ fr[Len(fr)] = f
    <3>1. Calls(frames[m], frames[m + 1])
      BY <1>2, <2>1 DEF Chain
    <3>. QED
      BY <1>1, <1>3, <2>1, <3>1
  <2>3. f.db \in FirstEntries /\ Passed(f.db, f.slot)
    BY <2>1, <2>2 DEF OnWay
  <2> DEFINE d == f.db
             v == f.slot
  <2>4. v \in 0 .. NumBackups - 1 /\ NumBackups \in Nat
    BY <2>2, LookupAssumption DEF Calls, Slot
  <2>5. world.backups[d][v] = Top.db /\ Top.db \in Db
    BY <1>2, <2>2, FramesTyped DEF Calls, Frame
  <2>6. v # 0 => NotHit(Behind(d, v))
    <3>1. Behind(d, v) = EntryAt(Top.db, v - 1)
      BY <2>5 DEF Behind
    <3>2. v # 0 => Searched(Top) = EntryAt(Top.db, v - 1)
      BY <2>2 DEF Searched
    <3>. QED
      BY <2>2, <3>1, <3>2
  <2>7. Passed(d, v + 1)
    <3>1. world.backups[d][v] # Broken
      BY <2>5, LookupAssumption
    <3>2. /\ world.here[d] = "miss"
          /\ \A s \in 0 .. v - 1 : /\ world.backups[d][s] # Broken
                                   /\ s # 0 => NotHit(Behind(d, s))
      BY <2>3 DEF Passed
    <3> HIDE DEF d, v
    <3>3. PICK w : w = v + 1
      OBVIOUS
    <3>4. w \in 0 .. NumBackups /\ \A s \in 0 .. w - 1 : s = v \/ s \in 0 .. v - 1
      BY <2>4, <3>3
    <3>5. Passed(d, w)
      BY <2>6, <3>1, <3>2, <3>4 DEF Passed
    <3>. QED
      BY <3>3, <3>5
  <2>. QED
    BY <2>2, <2>7
<1>7. FailsWith(fr, NotFound)
  BY <1>4, <1>5, <1>6, LookupAssumption DEF FailsWith, TriedOrCalled
<1>. QED
  BY <1>2, <1>7, FailsNext

(* The innermost call goes on to a later entry.                            *)
LEMMA MoveFails ==
  ASSUME LookupInv, Active, Top.backup = 0, NEW v \in 1 .. NumBackups,
         frames' = [frames EXCEPT ![Len(frames)].slot = v], result' = Running, world' = world,
         TriedOrCalled(frames), \A k \in 1 .. Len(frames) - 1 : OnWay(frames[k]),
         Top.db \in FirstEntries, Passed(Top.db, v)
  PROVE  FailsWith(frames, result)'
<1> DEFINE n == Len(frames)
<1>1. v \in -1 .. NumBackups /\ TypeOK /\ frames # <<>>
  BY LookupAssumption DEF LookupInv, Active
<1>2. n \in Nat /\ n >= 1 /\ v # 0
  BY CallsAre
<1>3. /\ Len(frames') = n /\ frames' # <<>>
      /\ \A k \in 1 .. n - 1 : frames'[k] = frames[k]
      /\ frames'[n] = [Top EXCEPT !.slot = v]
  BY <1>1, MovedFrames
<1> PICK fr : fr = frames'
  OBVIOUS
<1>4. /\ Len(fr) = n /\ fr # <<>> /\ Top \in Frame /\ Top = frames[n]
      /\ \A k \in 1 .. n - 1 : fr[k] = frames[k]
      /\ fr[n] = [Top EXCEPT !.slot = v]
  <2>1. Top \in Frame /\ Top = frames[n]
    BY <1>1, FramesTyped DEF Top
  <2>. QED
    BY <1>3, <2>1
<1>5. fr[n].db = Top.db /\ fr[n].backup = 0 /\ fr[n].slot = v
  BY <1>4 DEF Frame
<1>6. \A k \in 1 .. n : k = n \/ k \in 1 .. n - 1
  <2> HIDE DEF n
  <2>. QED
    BY <1>2
<1>7. \A k \in 1 .. n : fr[k].backup = frames[k].backup /\ fr[k].db = frames[k].db
  BY <1>4, <1>5, <1>6
<1>8. TriedOrCalled(fr)
  BY <1>4, <1>7 DEF TriedOrCalled
<1>9. \A k \in 1 .. n : OnWay(fr[k])
  BY <1>4, <1>5, <1>6 DEF OnWay
<1>10. FailsWith(fr, Running)
  BY <1>2, <1>4, <1>5, <1>8, <1>9, LookupAssumption DEF FailsWith
<1>. QED
  BY <1>10, FailsNext

(* Where a search is that follows first entries.                           *)
LEMMA DescendingIs ==
  ASSUME LookupInv, Active, Descending
  PROVE  /\ Top.backup = 0 /\ Top.slot \in {-1, 0} /\ Top.db \in Db \cap FirstEntries
         /\ Top.slot = 0 => world.here[Top.db] = "miss"
         /\ \A k \in 1 .. Len(frames) - 1 : OnWay(frames[k])
<1> DEFINE n == Len(frames)
<1>1. TypeOK /\ Chain /\ frames # <<>>
  BY DEF LookupInv, Active
<1>2. n \in Nat /\ n > 0 /\ Top = frames[n] /\ Top \in Frame
  BY <1>1, FramesTyped DEF Top
<1>3. n \in 1 .. n /\ \A k \in 1 .. n - 1 : k \in 1 .. n
  <2> HIDE DEF n
  <2>. QED
    BY <1>2
<1>4. Top.backup = 0 /\ Top.slot \in {-1, 0} /\ Top.db \in Db \cap FirstEntries
  BY <1>2, <1>3, DescendingReaches DEF Descending, AllFirst, Frame
<1>5. Top.slot = 0 => world.here[Top.db] = "miss"
  BY TopIs DEF InLoop
<1>6. ASSUME NEW k \in 1 .. n - 1 PROVE OnWay(frames[k])
  <2>1. InLoop(frames[k]) /\ frames[k].db \in FirstEntries
    BY <1>3, DescendingChain, DescendingReaches
  <2>2. frames[k].slot \in {-1, 0} /\ frames[k].slot \in Slot
    BY <1>1, <1>3 DEF Descending, AllFirst, Chain, Calls
  <2>3. frames[k].slot = 0
    BY <2>2, LookupAssumption DEF Slot
  <2>4. Passed(frames[k].db, 0)
    BY <2>1, LookupAssumption DEF Passed, InLoop
  <2>. QED
    BY <2>1, <2>3, <2>4 DEF OnWay
<1>. QED
  BY <1>4, <1>5, <1>6

(* The first entries lead nowhere more, and to no node.                    *)
LEMMA DescendingEnds ==
  ASSUME LookupInv, Active, Descending, world.here[Top.db] # "hit",
         world.here[Top.db] = "miss" => world.backups[Top.db][0] \notin Db
  PROVE  TriedOrCalled(frames)
<1>1. \A d \in FirstEntries :
        world.here[d] # "hit" /\ \E k \in 1 .. Len(frames) : frames[k].db = d
  BY NoHitOnTheWay
<1>2. \A k \in 1 .. Len(frames) : frames[k].backup = 0
  BY DEF Descending, AllFirst
<1>. QED
  BY <1>1, <1>2 DEF TriedOrCalled, NotHit

(* The innermost call, if it names a backup, searches what is behind the   *)
(* entry of the call before it.                                            *)
LEMMA LeafSearches ==
  ASSUME LookupInv, Active, asked = 0, Top.backup # 0
  PROVE  \E m \in 1 .. Len(frames) - 1 :
           /\ frames[m].backup = 0 /\ frames[m].slot \in Slot \ {0}
           /\ frames[m].db \in Db
           /\ world.backups[frames[m].db][frames[m].slot] \in Db
           /\ Searched(Top) = Behind(frames[m].db, frames[m].slot)
<1> DEFINE n == Len(frames)
<1>1. TypeOK /\ Chain /\ frames # <<>>
  BY DEF LookupInv, Active
<1>2. /\ n \in Nat /\ n > 0 /\ Top = frames[n] /\ Top \in Frame
      /\ \A k \in 1 .. n : frames[k] \in Frame
      /\ \A k \in 1 .. n - 1 : frames[k].backup = 0
      /\ \A k \in 1 .. n - 1 : Calls(frames[k], frames[k + 1])
      /\ frames[1].backup = asked
  BY <1>1, FramesTyped, CallsAre DEF Top, Chain
<1>3. n # 1
  BY <1>2
<1> HIDE DEF n
<1>4. PICK m : m = n - 1
  OBVIOUS
<1>5. m \in 1 .. n - 1 /\ m + 1 = n /\ m \in 1 .. n
  BY <1>2, <1>3, <1>4
<1>6. Calls(frames[m], Top) /\ frames[m].backup = 0 /\ frames[m].db \in Db /\ Top.db \in Db
  BY <1>2, <1>5 DEF Frame
<1>7. Searched(Top) = Behind(frames[m].db, frames[m].slot)
  BY <1>6 DEF Searched, Behind, Calls, RecursiveBackup
<1>. QED
  BY <1>5, <1>6, <1>7 DEF Calls, RecursiveBackup, n

-----------------------------------------------------------------------------
(* A search that follows first entries: it goes on, finds the node, runs   *)
(* into a cycle or turns back.                                             *)
LEMMA DescendingOnWay ==
  ASSUME LookupInv, Next, asked = 0, Descending
  PROVE  WayInv'
<1> DEFINE n == Len(frames)
           d == Top.db
<1>1. TypeOK /\ Chain /\ Active /\ frames # <<>> /\ result = Running /\ AllFirst
  BY DEF LookupInv, Next, SearchRegion, SkipNull, GiveUp, Recurse, Resume, Exhausted, Active,
     Descending
<1>2. /\ Top.backup = 0 /\ Top.slot \in {-1, 0} /\ d \in Db /\ d \in FirstEntries
      /\ Top.slot = 0 => world.here[d] = "miss"
      /\ \A k \in 1 .. n - 1 : OnWay(frames[k])
  BY <1>1, DescendingIs
<1>3. asked' = asked /\ world' = world
  BY DEF Next, SearchRegion, SkipNull, GiveUp, Recurse, Resume, Exhausted, Return
<1>4. NumBackups \in Nat /\ NumBackups >= 1 /\ Slot = 0 .. NumBackups - 1 /\ 0 \in Slot
  BY LookupAssumption DEF Slot
<1>5. ASSUME Top.slot = 0 PROVE Passed(d, 0)
  BY <1>2, <1>4, <1>5 DEF Passed
<1>6. CASE SearchRegion
  <2>1. Searched(Top) = d
    BY <1>2 DEF Searched
  <2>2. CASE world.here[d] = "none" /\ Return(NotFound)
    <3>1. TriedOrCalled(frames) /\ Clean(d)
      BY <1>1, <2>2, DescendingEnds DEF Clean
    <3>2. FailsWith(frames, result)'
      BY <1>1, <1>2, <2>2, <3>1, ReturnFails
    <3>. QED
      BY <3>2 DEF WayInv
  <2>3. CASE Return(d)
    <3>1. Way' = Way
      BY <1>3, WayStays
    <3>2. d \in Way
      BY <1>2 DEF Way
    <3>3. Found'
      BY <1>2, <2>3, <3>1, <3>2 DEF Found, Return
    <3>. QED
      BY <3>3 DEF WayInv
  <2>4. CASE /\ frames' = [frames EXCEPT ![Len(frames)].slot = 0]
             /\ UNCHANGED <<asked, world, result, fault>>
    <3>1. Descending'
      BY <1>1, <2>4, DescendingGoesOn
    <3>. QED
      BY <3>1 DEF WayInv
  <2>. QED
    BY <1>2, <1>6, <2>1, <2>2, <2>3, <2>4 DEF SearchRegion
<1>7. CASE SkipNull
  <2>1. Top.slot = 0 /\ world.backups[d][0] = Null
    BY <1>2, <1>4, <1>7 DEF SkipNull
  <2>2. TriedOrCalled(frames)
    BY <1>1, <1>2, <2>1, DescendingEnds, LookupAssumption
  <2>3. Passed(d, 1)
    <3>1. 1 \in 0 .. NumBackups /\ \A s \in 0 .. 1 - 1 : s = 0
      BY <1>4
    <3>. QED
      BY <1>2, <2>1, <3>1, LookupAssumption DEF Passed
  <2>4. frames' = [frames EXCEPT ![Len(frames)].slot = 1] /\ result' = Running
    <3>1. NextSlot(frames[Len(frames)].slot) = 1
      BY <2>1 DEF NextSlot, Top
    <3>. QED
      BY <1>1, <1>7, <3>1 DEF SkipNull
  <2>5. 1 \in 1 .. NumBackups
    BY <1>4
  <2>6. FailsWith(frames, result)'
    BY <1>1, <1>2, <1>3, <2>2, <2>3, <2>4, <2>5, MoveFails
  <2>. QED
    BY <2>6 DEF WayInv
<1>8. CASE GiveUp
  <2>1. Top.slot = 0 /\ world.backups[d][0] = Broken /\ Return(NotFound)
    BY <1>2, <1>4, <1>8 DEF GiveUp
  <2>2. TriedOrCalled(frames)
    BY <1>1, <1>2, <2>1, DescendingEnds, LookupAssumption
  <2>3. Clean(d)
    <3>1. 0 \in 0 .. NumBackups
      BY <1>4
    <3>. QED
      BY <1>5, <2>1, <3>1, PassedIsClean
  <2>4. FailsWith(frames, result)'
    BY <1>1, <1>2, <2>1, <2>2, <2>3, ReturnFails
  <2>. QED
    BY <2>4 DEF WayInv
<1>9. CASE Recurse
  <2> DEFINE e == world.backups[d][0]
  <2>1. Top.slot = 0 /\ e \in Db
    BY <1>2, <1>4, <1>9 DEF Recurse
  <2>2. CASE UNCHANGED <<frames, result>>
    <3>1. Descending'
      BY <2>2 DEF Descending, AllFirst, Distinct
    <3>. QED
      BY <3>1 DEF WayInv
  <2>3. CASE frames' = Append(frames, Call(e, RecursiveBackup(0))) /\ UNCHANGED result
    <3>1. CASE \A k \in 1 .. n : frames[k].db # e
      <4>1. Descending'
        BY <1>1, <2>1, <2>3, <3>1, DescendingGoesOn
      <4>. QED
        BY <4>1 DEF WayInv
    <3>2. CASE \E k \in 1 .. n : frames[k].db = e
      <4> DEFINE C == {frames[k].db : k \in 1 .. n}
      <4>1. FirstCycle(world, C)
        <5>1. n \in Nat /\ n > 0 /\ Top = frames[n] /\ \A k \in 1 .. n : frames[k].db \in Db
          BY <1>1, FramesTyped DEF Top, Frame
        <5>2. \A k \in 1 .. n - 1 : /\ world.here[frames[k].db] = "miss"
                                    /\ frames[k + 1].db = world.backups[frames[k].db][0]
          BY <1>1, DescendingChain DEF InLoop
        <5>3. world.here[frames[n].db] = "miss" /\ world.backups[frames[n].db][0] \in C
          BY <1>2, <2>1, <3>2, <5>1
        <5> HIDE DEF n
        <5>4. \A k \in 1 .. n : k = n \/ (k \in 1 .. n - 1 /\ k + 1 \in 1 .. n)
          BY <5>1
        <5>5. n \in 1 .. n
          BY <5>1
        <5>6. ASSUME NEW k \in 1 .. n
              PROVE  world.here[frames[k].db] = "miss" /\ world.backups[frames[k].db][0] \in C
          <6>1. k # n => world.backups[frames[k].db][0] = frames[k + 1].db /\ k + 1 \in 1 .. n
            BY <5>2, <5>4
          <6>. QED
            BY <5>2, <5>3, <5>4, <6>1
        <5>. QED
          BY <5>1, <5>5, <5>6 DEF FirstCycle
      <4>2. \A k \in 1 .. n : frames[k].db \in C
        OBVIOUS
      <4>3. e \in C
        BY <3>2
      <4> HIDE DEF C, e
      <4>4. /\ AllFirst' /\ Len(frames') = n + 1 /\ frames' # <<>>
            /\ \A k \in 1 .. n : frames'[k].db = frames[k].db
            /\ frames'[n + 1].db = e
        BY <1>1, <2>1, <2>3, FirstCall
      <4>5. n \in Nat
        BY <1>1, FramesTyped
      <4> HIDE DEF n
      <4>6. \A k \in 1 .. n + 1 : k \in 1 .. n \/ k = n + 1
        BY <4>5
      <4>7. Looping'
        BY <1>1, <1>3, <2>3, <4>1, <4>2, <4>3, <4>4, <4>6 DEF Looping
      <4>. QED
        BY <4>7 DEF WayInv
    <3>. QED
      BY <3>1, <3>2
  <2>. QED
    BY <1>9, <2>1, <2>2, <2>3 DEF Recurse
<1>10. CASE Resume
  BY <1>1, <1>10 DEF Resume
<1>11. CASE Exhausted
  BY <1>2, <1>4, <1>11 DEF Exhausted
<1>. QED
  BY <1>6, <1>7, <1>8, <1>9, <1>10, <1>11 DEF Next

(* A search in a cycle of first entries stays in it.                       *)
LEMMA LoopingOnWay ==
  ASSUME LookupInv, Next, Looping
  PROVE  Looping'
<1> DEFINE n == Len(frames)
           d == Top.db
<1>1. TypeOK /\ Active /\ frames # <<>> /\ result = Running /\ AllFirst
  BY DEF LookupInv, Next, SearchRegion, SkipNull, GiveUp, Recurse, Resume, Exhausted, Active,
     Looping
<1>2. PICK C : FirstCycle(world, C) /\ \A k \in 1 .. n : frames[k].db \in C
  BY DEF Looping
<1>3. n \in Nat /\ n > 0 /\ Top = frames[n]
  BY <1>1, FramesTyped DEF Top
<1>4. n \in 1 .. n /\ \A k \in 1 .. n + 1 : k \in 1 .. n \/ k = n + 1
  <2> HIDE DEF n
  <2>. QED
    BY <1>3
<1>5. /\ Top.backup = 0 /\ Top.slot \in {-1, 0} /\ d \in C
      /\ world.here[d] = "miss" /\ world.backups[d][0] \in C /\ C \subseteq Db
  BY <1>1, <1>2, <1>3, <1>4 DEF AllFirst, FirstCycle
<1>6. world' = world
  BY DEF Next, SearchRegion, SkipNull, GiveUp, Recurse, Resume, Exhausted, Return
<1>7. Slot = 0 .. NumBackups - 1 /\ NumBackups \in Nat /\ NumBackups >= 1
  BY LookupAssumption DEF Slot
<1>8. CASE SearchRegion
  <2>1. frames' = [frames EXCEPT ![Len(frames)].slot = 0] /\ UNCHANGED result
    <3>1. Searched(Top) = d /\ d \in Db
      BY <1>5 DEF Searched
    <3>. QED
      BY <1>5, <1>8, <3>1 DEF SearchRegion
  <2>2. /\ AllFirst' /\ Len(frames') = n /\ frames' # <<>>
        /\ \A k \in 1 .. n : frames'[k].db = frames[k].db
    BY <1>1, <2>1, FirstMove
  <2>. QED
    BY <1>1, <1>2, <1>6, <2>1, <2>2 DEF Looping
<1>9. CASE SkipNull
  BY <1>5, <1>7, <1>9, LookupAssumption DEF SkipNull
<1>10. CASE GiveUp
  BY <1>5, <1>7, <1>10, LookupAssumption DEF GiveUp
<1>11. CASE Recurse
  <2> DEFINE e == world.backups[d][0]
  <2>1. Top.slot = 0 /\ e \in C /\ e \in Db
    BY <1>5, <1>7, <1>11 DEF Recurse
  <2>2. CASE UNCHANGED <<frames, result>>
    BY <1>1, <1>2, <1>6, <2>2 DEF Looping, AllFirst
  <2>3. CASE frames' = Append(frames, Call(e, RecursiveBackup(0))) /\ UNCHANGED result
    <3> HIDE DEF e
    <3>1. /\ AllFirst' /\ Len(frames') = n + 1 /\ frames' # <<>>
          /\ \A k \in 1 .. n : frames'[k].db = frames[k].db
          /\ frames'[n + 1].db = e
      BY <1>1, <2>1, <2>3, FirstCall
    <3> HIDE DEF n
    <3>. QED
      BY <1>1, <1>2, <1>4, <1>6, <2>1, <2>3, <3>1 DEF Looping
  <2>. QED
    BY <1>11, <2>1, <2>2, <2>3 DEF Recurse
<1>12. CASE Resume
  BY <1>1, <1>12 DEF Resume
<1>13. CASE Exhausted
  BY <1>5, <1>7, <1>13 DEF Exhausted
<1>. QED
  BY <1>8, <1>9, <1>10, <1>11, <1>12, <1>13 DEF Next

(* A search on its way back tries the later entries: it finds the node     *)
(* behind one of them, or goes on.                                         *)
LEMMA FailsOnWay ==
  ASSUME LookupInv, Next, asked = 0, FailsWith(frames, result)
  PROVE  FailsWith(frames, result)' \/ Found'
<1> DEFINE n == Len(frames)
           d == Top.db
           v == Top.slot
<1>1. TypeOK /\ Chain /\ Awaited /\ Active /\ frames # <<>>
  BY DEF LookupInv, Next, SearchRegion, SkipNull, GiveUp, Recurse, Resume, Exhausted, Active
<1>2. /\ n \in Nat /\ n > 0 /\ Top = frames[n] /\ Top \in Frame
      /\ v # -1 => Top.backup = 0
  BY <1>1, FramesTyped, CallsAre DEF Top
<1>3. n \in 1 .. n /\ \A k \in 1 .. n - 1 : k \in 1 .. n
  <2> HIDE DEF n
  <2>. QED
    BY <1>2
<1>4. /\ TriedOrCalled(frames) /\ \A k \in 1 .. n : OnWay(frames[k])
      /\ result \in {NotFound, Running}
      /\ result = NotFound => Passed(d, v + 1)
      /\ result = Running /\ Top.backup = 0 => v # 0
  BY <1>1 DEF FailsWith, Top
<1>5. \A k \in 1 .. n - 1 : OnWay(frames[k])
  BY <1>3, <1>4
<1>6. Top.backup = 0 => d \in FirstEntries /\ Passed(d, v)
  BY <1>2, <1>3, <1>4 DEF OnWay
<1>7. asked' = asked /\ world' = world
  BY DEF Next, SearchRegion, SkipNull, GiveUp, Recurse, Resume, Exhausted, Return
<1>8. NumBackups \in Nat /\ NumBackups >= 1 /\ Slot = 0 .. NumBackups - 1
  BY LookupAssumption DEF Slot
<1>9. CASE SearchRegion
  <2>1. v = -1 /\ result = Running
    BY <1>9 DEF SearchRegion
  <2>2. Top.backup # 0
    BY <1>6, <2>1 DEF Passed
  <2>3. CASE Return(NotFound) /\ NotHit(Searched(Top))
    BY <1>1, <1>4, <1>5, <2>2, <2>3, ReturnFails
  <2>4. ASSUME NEW db \in Db, db = Searched(Top), Return(db) PROVE Found'
    <3>1. PICK m \in 1 .. n - 1 :
            /\ frames[m].backup = 0 /\ frames[m].slot \in Slot \ {0}
            /\ frames[m].db \in Db
            /\ world.backups[frames[m].db][frames[m].slot] \in Db
            /\ Searched(Top) = Behind(frames[m].db, frames[m].slot)
      BY <1>1, <2>2, LeafSearches
    <3> DEFINE a == frames[m].db
               s == frames[m].slot
    <3>2. a \in FirstEntries /\ Passed(a, s)
      BY <1>5, <3>1 DEF OnWay
    <3>3. Intact(a, s)
      <4>1. world.backups[a][s] # Broken
        BY <3>1, LookupAssumption
      <4>2. \A i \in 0 .. s - 1 : world.backups[a][i] # Broken
        BY <3>2 DEF Passed
      <4>3. s \in Nat
        BY <1>8, <3>1
      <4> HIDE DEF a, s
      <4>4. \A i \in 0 .. s : i = s \/ i \in 0 .. s - 1
        BY <4>3
      <4>. QED
        BY <4>1, <4>2, <4>4 DEF Intact
    <3>4. s \in Slot \ {0} /\ world.here[a] = "miss"
      BY <3>1, <3>2 DEF Passed
    <3>5. db = Behind(a, s)
      BY <2>4, <3>1
    <3> HIDE DEF a, s
    <3>6. db \in Way
      <4> DEFINE Q == {q \in FirstEntries \X (Slot \ {0}) :
                        world.here[q[1]] = "miss" /\ Intact(q[1], q[2])}
      <4>1. <<a, s>> \in Q
        BY <3>2, <3>3, <3>4
      <4>2. Behind(a, s) \in {Behind(p[1], p[2]) : p \in Q}
        <5> HIDE DEF Q
        <5>1. <<a, s>>[1] = a /\ <<a, s>>[2] = s
          OBVIOUS
        <5>. QED
          BY <4>1, <5>1
      <4>. QED
        BY <3>5, <4>2 DEF Way
    <3>7. Way' = Way
      BY <1>7, WayStays
    <3>. QED
      BY <2>4, <3>6, <3>7 DEF Found, Return
  <2>. QED
    BY <1>9, <2>2, <2>3, <2>4 DEF SearchRegion, NotHit
<1>10. ASSUME v \in Slot, world.backups[d][v] = Null \/ result = NotFound
       PROVE  Top.backup = 0 /\ Passed(d, v + 1)
  <2>1. Top.backup = 0
    BY <1>2, <1>8, <1>10
  <2>2. CASE result = NotFound
    BY <1>4, <2>1, <2>2
  <2>3. CASE world.backups[d][v] = Null
    <3> PICK w : w = v + 1
      OBVIOUS
    <3>1. w \in 0 .. NumBackups /\ \A s \in 0 .. w - 1 : s = v \/ s \in 0 .. v - 1
      BY <1>8, <1>10
    <3>2. world.backups[d][v] # Broken /\ NotHit(Behind(d, v))
      BY <2>3, LookupAssumption DEF Behind, NotHit
    <3>3. Passed(d, v)
      BY <1>6, <2>1
    <3> HIDE DEF d, v
    <3>4. Passed(d, w)
      BY <3>1, <3>2, <3>3 DEF Passed
    <3>. QED
      BY <2>1, <3>4
  <2>. QED
    BY <1>10, <2>2, <2>3
<1>11. ASSUME v \in Slot, world.backups[d][v] = Null \/ result = NotFound,
              frames' = [frames EXCEPT ![Len(frames)].slot = NextSlot(@)], result' = Running
       PROVE  FailsWith(frames, result)'
  <2> PICK w : w = v + 1
    OBVIOUS
  <2>1. w \in 1 .. NumBackups
    BY <1>8, <1>11
  <2>2. Top.backup = 0 /\ Passed(d, w)
    BY <1>10, <1>11
  <2>3. frames' = [frames EXCEPT ![Len(frames)].slot = w]
    BY <1>11 DEF NextSlot, Top
  <2>. QED
    BY <1>1, <1>4, <1>5, <1>6, <1>7, <1>11, <2>1, <2>2, <2>3, MoveFails
<1>12. CASE SkipNull
  <2>1. /\ v \in Slot /\ world.backups[d][v] = Null
        /\ frames' = [frames EXCEPT ![Len(frames)].slot = NextSlot(@)] /\ result' = Running
    BY <1>12 DEF SkipNull
  <2>. QED
    BY <1>11, <2>1
<1>13. CASE GiveUp \/ Exhausted
  <2>1. /\ v \in 0 .. NumBackups /\ v # -1 /\ Return(NotFound)
        /\ v = NumBackups \/ world.backups[d][v] = Broken
    BY <1>8, <1>13 DEF GiveUp, Exhausted
  <2>2. Clean(d)
    BY <1>2, <1>6, <2>1, PassedIsClean
  <2>. QED
    BY <1>1, <1>2, <1>4, <1>5, <2>1, <2>2, ReturnFails
<1>14. CASE Recurse
  <2>1. /\ v \in Slot /\ v # -1 /\ v # 0 /\ result = Running /\ result' = result
        /\ world.backups[d][v] \in Db
    BY <1>2, <1>4, <1>8, <1>14 DEF Recurse
  <2>2. CASE UNCHANGED frames
    BY <1>7, <2>1, <2>2, FailsNext
  <2>3. CASE frames' = Append(frames, Call(world.backups[d][v], RecursiveBackup(v)))
    <3> DEFINE c == Call(world.backups[d][v], RecursiveBackup(v))
    <3>1. c \in Frame /\ c.backup = v /\ c.backup # 0
      BY <1>8, <2>1 DEF Call, RecursiveBackup, Frame
    <3> HIDE DEF c
    <3> PICK fr : fr = Append(frames, c)
      OBVIOUS
    <3>2. /\ fr # <<>> /\ Len(fr) = n + 1
          /\ \A k \in 1 .. n : fr[k] = frames[k]
          /\ fr[n + 1] = c
      BY <1>1, <3>1, PushKeeps
    <3>3. \A k \in 1 .. n + 1 : k \in 1 .. n \/ k = n + 1
      <4> HIDE DEF n
      <4>. QED
        BY <1>2
    <3>4. \A k \in 1 .. n : k \in 1 .. n + 1
      <4> HIDE DEF n
      <4>. QED
        BY <1>2
    <3>5. TriedOrCalled(fr)
      BY <1>4, <3>2, <3>4 DEF TriedOrCalled
    <3>6. \A k \in 1 .. n + 1 : OnWay(fr[k])
      BY <1>4, <3>1, <3>2, <3>3 DEF OnWay
    <3>7. FailsWith(fr, Running)
      BY <3>1, <3>2, <3>5, <3>6, LookupAssumption DEF FailsWith
    <3>8. fr = frames' /\ result' = Running
      BY <2>1, <2>3 DEF c
    <3>. QED
      BY <1>7, <3>7, <3>8, FailsNext
  <2>. QED
    BY <1>14, <2>2, <2>3 DEF Recurse
<1>15. CASE Resume
  <2>1. result = NotFound /\ result # Running /\ result \notin Db
    BY <1>4, <1>15, LookupAssumption DEF Resume
  <2>2. /\ v \in Slot /\ result' = Running
        /\ frames' = [frames EXCEPT ![Len(frames)].slot = NextSlot(@)]
    BY <1>1, <1>15, <2>1 DEF Resume, Awaited
  <2>. QED
    BY <1>11, <2>1, <2>2
<1>. QED
  BY <1>9, <1>12, <1>13, <1>14, <1>15 DEF Next

-----------------------------------------------------------------------------
(* A lookup begins on its way.                                             *)
LEMMA WayInit == Init => WayInv /\ AskedInv
<1> SUFFICES ASSUME Init PROVE WayInv /\ AskedInv
  OBVIOUS
<1>1. asked = 0 => Descending
  BY DescendingInit
<1>2. result = Running /\ frames # <<>>
  BY DEF Init
<1>. QED
  BY <1>1, <1>2 DEF WayInv, AskedInv

(* Every step keeps it there.                                              *)
LEMMA WayStep == LookupInv /\ WayInv /\ [Next]_vars => WayInv'
<1> SUFFICES ASSUME LookupInv, WayInv, [Next]_vars, asked = 0 PROVE WayInv'
  BY DEF WayInv, Next, vars, SearchRegion, SkipNull, GiveUp, Recurse, Resume, Exhausted, Return
<1>1. world' = world /\ asked' = asked
  BY DEF Next, vars, SearchRegion, SkipNull, GiveUp, Recurse, Resume, Exhausted, Return
<1>2. CASE UNCHANGED vars
  <2>1. UNCHANGED <<frames, result>>
    BY <1>2 DEF vars
  <2>2. Way' = Way
    BY <1>1, WayStays
  <2>3. FailsWith(frames, result) => FailsWith(frames, result)'
    BY <1>1, <2>1, FailsNext
  <2>4. (Descending => Descending') /\ (Looping => Looping') /\ (Found => Found')
    BY <1>1, <2>1, <2>2 DEF Descending, AllFirst, Distinct, Looping, Found
  <2>. QED
    BY <2>3, <2>4 DEF WayInv
<1>3. CASE Next
  <2>1. CASE Found
    <3>1. result \in Db /\ result # Running /\ result # NotFound
      BY <2>1, LookupAssumption DEF Found
    <3>2. Resume
      BY <1>3, <3>1 DEF Next, SearchRegion, SkipNull, GiveUp, Recurse, Exhausted
    <3>3. result' = result /\ Way' = Way
      BY <1>1, <3>1, <3>2, WayStays DEF Resume, Return
    <3>. QED
      BY <2>1, <3>3 DEF Found, WayInv
  <2>2. CASE Descending
    BY <1>3, <2>2, DescendingOnWay
  <2>3. CASE Looping
    BY <1>3, <2>3, LoopingOnWay DEF WayInv
  <2>4. CASE FailsWith(frames, result)
    BY <1>3, <2>4, FailsOnWay DEF WayInv
  <2>. QED
    BY <2>1, <2>2, <2>3, <2>4 DEF WayInv
<1>. QED
  BY <1>2, <1>3

(* A lookup whose reference names a backup is one call, and one search.    *)
LEMMA AskedStep == LookupInv /\ AskedInv /\ [Next]_vars => AskedInv'
<1> SUFFICES ASSUME LookupInv, AskedInv, [Next]_vars, asked # 0 PROVE AskedInv'
  BY DEF AskedInv, Next, vars, SearchRegion, SkipNull, GiveUp, Recurse, Resume, Exhausted, Return
<1> DEFINE n == Len(frames)
           db == EntryAt(Root, asked - 1)
<1>1. world' = world /\ asked' = asked
  BY DEF Next, vars, SearchRegion, SkipNull, GiveUp, Recurse, Resume, Exhausted, Return
<1>2. CASE UNCHANGED vars
  BY <1>2 DEF AskedInv, vars, NotHit, EntryAt
<1>3. CASE Next
  <2>1. Active /\ frames # <<>> /\ result = Running /\ TypeOK /\ Chain
    BY <1>3 DEF AskedInv, LookupInv, Next, SearchRegion, SkipNull, GiveUp, Recurse, Resume,
       Exhausted, Active
  <2>2. Top.db = Root /\ Top.backup = asked
    BY <2>1, TopIs
  <2>3. Top.slot = -1
    BY <2>1, <2>2, CallsAre
  <2>4. SearchRegion
    <3>1. -1 \notin Slot /\ -1 # NumBackups
      BY LookupAssumption DEF Slot
    <3>. QED
      BY <1>3, <2>1, <2>3, <3>1 DEF Next, SkipNull, GiveUp, Recurse, Resume, Exhausted
  <2>5. Searched(Top) = db
    BY <2>2 DEF Searched
  <2>6. /\ frames' = Pop
        /\ \/ result' = NotFound /\ NotHit(db)
           \/ result' = db /\ db \in Db
    BY <2>2, <2>4, <2>5 DEF SearchRegion, Return, NotHit
  <2>7. frames' = <<>>
    <3>1. n = 1
      <4>1. n \in Nat /\ n > 0 /\ frames[1].backup = asked
        BY <2>1, FramesTyped DEF Chain
      <4>2. \A k \in 1 .. n - 1 : frames[k].backup = 0
        BY <2>1, CallsAre
      <4> HIDE DEF n
      <4>. QED
        BY <4>1, <4>2
    <3>2. Pop # <<>> => n > 1
      BY <2>1, PopKeeps
    <3>. QED
      BY <2>6, <3>1, <3>2
  <2>8. db' = db /\ (NotHit(db) => NotHit(db)')
    BY <1>1 DEF EntryAt, NotHit
  <2> HIDE DEF db
  <2>9. result' # Running
    BY <2>6, LookupAssumption
  <2>10. IF result' = NotFound THEN NotHit(db)' ELSE result' = db'
    BY <2>6, <2>8, LookupAssumption
  <2>. QED
    BY <2>7, <2>9, <2>10 DEF AskedInv, db
<1>. QED
  BY <1>2, <1>3

(* What a lookup returns, whatever the backup lists hold: a database that  *)
(* has the node, if one of those along the first entries has it, or one    *)
(* behind a later entry of theirs that no entry to nowhere precedes, and   *)
(* no database if none of these has it. The recursion of node_lookup sees  *)
(* nothing else, and misses none of them unless a cycle of first entries   *)
(* overflows the stack. With an index of a backup, it sees that backup.    *)
(* Before all of them comes the caller's own database, and before what is  *)
(* behind later entries those along the first.                             *)
THEOREM LookupFindsExactly == Spec => []FindsWhatItSearches
<1> DEFINE hits  == {d \in Way \cap Db : world.here[d] = "hit"}
           Exact == Done => IF hits = {} THEN result = NotFound ELSE result \in hits
<1>1. LookupInv /\ WayInv /\ AskedInv => Exact
  <2> SUFFICES ASSUME LookupInv, WayInv, AskedInv, frames = <<>> PROVE Exact
    BY DEF Done
  <2>1. result \in Db => world.here[result] = "hit"
    BY DEF LookupInv, FoundInv
  <2>2. CASE asked = 0 /\ Found
    <3>1. result \in hits
      BY <2>1, <2>2 DEF Found
    <3>. QED
      BY <3>1
  <2>3. CASE asked = 0 /\ FailsWith(frames, result)
    <3>1. result = NotFound /\ TriedOrCalled(frames)
      BY <2>3 DEF FailsWith
    <3>2. \A d \in FirstEntries : NotHit(d) /\ Clean(d)
      <4>1. Len(frames) = 0
        OBVIOUS
      <4>2. \A k \in 1 .. Len(frames) : FALSE
        BY <4>1
      <4>. QED
        BY <3>1, <4>2 DEF TriedOrCalled
    <3>3. \A d \in Way : NotHit(d)
      BY <2>3, <3>2 DEF Way, Clean
    <3>4. hits = {}
      BY <3>3 DEF NotHit
    <3>. QED
      BY <3>1, <3>4
  <2>4. CASE asked # 0
    <3>1. Way = {EntryAt(Root, asked - 1)}
      BY <2>4 DEF Way
    <3>2. result # Running
      BY <2>4 DEF AskedInv
    <3>3. CASE result = NotFound
      <4>1. hits = {}
        BY <2>4, <3>1, <3>2, <3>3 DEF AskedInv, NotHit
      <4>. QED
        BY <3>3, <4>1
    <3>4. CASE result # NotFound
      <4>1. result \in Db /\ result = EntryAt(Root, asked - 1)
        BY <2>4, <3>2, <3>4 DEF AskedInv, LookupInv, TypeOK
      <4>2. result \in hits
        BY <2>1, <3>1, <4>1
      <4>. QED
        BY <4>2
    <3>. QED
      BY <3>3, <3>4
  <2>5. ~ Descending /\ ~ Looping
    BY DEF Descending, Looping
  <2>. QED
    BY <2>2, <2>3, <2>4, <2>5 DEF WayInv
<1>2. Spec => []Exact
  <2> HIDE DEF Exact
  <2>. QED
    BY <1>1, LookupInitInv, LookupStepInv, WayInit, WayStep, AskedStep, PTL DEF Spec
<1>3. Exact /\ FoundWhereAsked /\ FirstEntriesSearched => FindsWhatItSearches
  BY DEF FindsWhatItSearches
<1> HIDE DEF Exact
<1>. QED
  BY <1>2, <1>3, FoundInPlace, FirstEntriesFound, PTL

==============================================================================
