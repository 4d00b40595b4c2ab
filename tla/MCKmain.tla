------------------------------ MODULE MCKmain -------------------------------
(***************************************************************************)
(* The screen of terminal.h and the lengths of kmain's messages are real.  *)
(* Memory is laid out as in MCProcess, with a longer heap; a descriptor    *)
(* has two bits for every four of the CPU's, or fewer.                     *)
(***************************************************************************)
EXTENDS Kmain

(* No byte, less than a page, a page and a half, and enough to reach over  *)
(* the kernel's stack into the heap.                                       *)
ProgramSizes == {0, 1, 3, 7}

KernelOwn == {0, 6}
=============================================================================
