-------------------------------- MODULE Boot --------------------------------
(***************************************************************************)
(* From the image to the running kernel: the disk database is formatted on *)
(* the host, and the kernel is started once that has succeeded (src/       *)
(* Makefile, os.img) and formats the database in memory.                   *)
(***************************************************************************)
EXTENDS KernelFormat, DiskFormat

vars == <<kvars, dvars>>

TypeOK == KernelTypeOK /\ DiskTypeOK

Init == KernelInit /\ DiskInit

Next == \/ DiskNext /\ UNCHANGED kvars
        \/ pc = "done" /\ KernelNext /\ UNCHANGED dvars

Spec == Init /\ [][Next]_vars

==============================================================================
