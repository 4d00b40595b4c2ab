--------------------------- MODULE BlockAllocator ---------------------------
(***************************************************************************)
(* What the rest of the kernel relies on when it calls kmalloc and kfree:  *)
(* an allocator hands out runs of consecutive blocks, no block is in two   *)
(* callers' hands at once, and it refuses only when nothing large enough   *)
(* is free.  KHeap (the table-driven allocator of src/memory/heap) is      *)
(* shown to implement it.                                                  *)
(*                                                                         *)
(* A run starts inside the heap but the specification does not say that it *)
(* ends there: the code does not keep that promise (the end of the scan in *)
(* heap_get_next_free_block, heap.c:70).                                   *)
(***************************************************************************)
EXTENDS Integers

CONSTANTS
  Total,     \* number of blocks the heap manages
  SAddr,     \* address of block 0, in blocks
  Requests   \* numbers of blocks a caller may ask for

VARIABLES
  held,      \* runs in callers' hands, each a set of block numbers
  ret        \* address the last successful or failed allocation returned

vars == <<held, ret>>

NULL == 0
Blocks == 0 .. Total - 1
Run(s, n) == s .. s + n - 1
InUse == UNION held

(* Some run of n consecutive blocks inside the heap is free.               *)
Available(n) ==
  \E s \in Blocks : Run(s, n) \subseteq Blocks /\ Run(s, n) \cap InUse = {}

Init == held = {} /\ ret = NULL

Grant(n) ==
  \E s \in Blocks :
    /\ Run(s, n) \cap InUse = {}
    /\ held' = held \cup {Run(s, n)}
    /\ ret' = SAddr + s

Refuse(n) ==
  /\ ~ Available(n)
  /\ ret' = NULL
  /\ UNCHANGED held

Release(r) ==
  /\ held' = held \ {r}
  /\ UNCHANGED ret

Next ==
  \/ \E n \in Requests : Grant(n) \/ Refuse(n)
  \/ \E r \in held : Release(r)

Spec == Init /\ [][Next]_vars
=============================================================================
