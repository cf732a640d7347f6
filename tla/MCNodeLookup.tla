---------------------------- MODULE MCNodeLookup ----------------------------
(***************************************************************************)
(* Instances of NodeLookup: three databases, two backup entries each.      *)
(***************************************************************************)
EXTENDS NodeLookup

(* Lists in which no database names itself.                                *)
Lists == {b \in [Db -> [Slot -> Entry]] : \A d \in Db, s \in Slot : b[d][s] # d}

(* The node is in one database at most, and at most one lacks the region.  *)
Contents == {h \in [Db -> {"hit", "miss", "none"}] :
               /\ \A d, e \in Db : h[d] = "hit" /\ h[e] = "hit" => d = e
               /\ \A d, e \in Db : h[d] = "none" /\ h[e] = "none" => d = e}

(* From every database the first entries end after less than |Db| steps.   *)
NoCycle(b) ==
  LET after[n \in 0 .. Cardinality(Db), d \in Db] ==
        IF n = 0 THEN TRUE
        ELSE b[d][0] \in Db /\ after[n - 1, b[d][0]]
  IN  \A d \in Db : ~ after[Cardinality(Db), d]

AcyclicWorlds == {[backups |-> b, here |-> h] : b \in {c \in Lists : NoCycle(c)},
                                               h \in Contents}

(* Of these, the ones where no entry is broken and no region is missing.   *)
IntactWorlds == {w \in AcyclicWorlds :
                   \A d \in Db : w.here[d] # "none" /\ \A s \in Slot : w.backups[d][s] # Broken}

==============================================================================
