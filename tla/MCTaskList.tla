----------------------------- MODULE MCTaskList ------------------------------
(* Tasks are interchangeable, and no property is temporal.                 *)
EXTENDS TaskList, TLC

Renamings == Permutations(Tasks)
=============================================================================
