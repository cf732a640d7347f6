-------------------------------- MODULE MCAta --------------------------------
(***************************************************************************)
(* Instances of Ata.                                                       *)
(***************************************************************************)
EXTENDS Ata

(* Two sectors that differ in the low and the third byte of the number; a  *)
(* read of two from the first carries into the second byte.                *)
NearSectors == {255, 65536}

==============================================================================
