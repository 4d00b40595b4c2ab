----------------------------- MODULE MCProcess ------------------------------
(***************************************************************************)
(* Two-byte pages laid out as in config.h: the kernel's code (page 0), a   *)
(* two-page program stack (1, 2), a gap, programs from page 4 on, the top  *)
(* page of the kernel's stack (6) and the heap (7 to 17).  A chunk at the  *)
(* end of the heap may stick out of it, hence the pages above.             *)
(***************************************************************************)
EXTENDS Process

(* No byte, less than a page, a page and a half, and enough to reach over  *)
(* the kernel's stack into the heap.                                       *)
ProgramSizes == {0, 1, 3, 7}

KernelOwn == {0, 6}
=============================================================================
