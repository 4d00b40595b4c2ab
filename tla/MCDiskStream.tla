---------------------------- MODULE MCDiskStream ----------------------------
(***************************************************************************)
(* Four-byte sectors of two words on a disk of thirty: reads that begin    *)
(* and end on a boundary, next to one and in between, over one to four     *)
(* sectors.  Registers hold three values, so that the numbers of sectors   *)
(* take all four of them; the kernel is two sectors.                       *)
(***************************************************************************)
EXTENDS DiskRead

StartPositions == {0, 3, 4, 27, 55, 107}
AskedTotals == {0, 1, 4, 5, 12}
=============================================================================
