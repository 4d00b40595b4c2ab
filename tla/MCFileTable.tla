---------------------------- MODULE MCFileTable -----------------------------
(***************************************************************************)
(* A file of two bytes, which may be open several times, and a directory.  *)
(* Addresses are interchangeable: no property is temporal, so the symmetry *)
(* is sound.  One address more than slots, so that an open that finds the  *)
(* table full leaks one.                                                   *)
(***************************************************************************)
EXTENDS FileTable, TLC

CONSTANTS file, directory

Paths == {file, directory}
OnlyDirectory == {directory}
Bytes == [p \in Paths |-> IF p = file THEN 2 ELSE 0]
OneStep == {-1, 1}

Renamings == Permutations(Addresses)
=============================================================================
