----------------------------- MODULE KHeapLoops -----------------------------
(***************************************************************************)
(* heap.c one loop iteration at a time: the scan of                        *)
(* heap_get_next_free_block with its counters bc and bs, the marking loop  *)
(* of heap_mark_blocks_taken with its running entry, and the clearing loop *)
(* of heap_mark_blocks_free.  Module KHeap states what each whole call     *)
(* does; KHeapCalls runs both together, to show that the loops do that.    *)
(*                                                                         *)
(* One call at a time is in progress: the kernel runs with interrupts off. *)
(* Local variables go back to their idle values when the call returns.     *)
(***************************************************************************)
EXTENDS Integers

CONSTANTS Total, SAddr, BlockSize, Word, Sizes   \* as in KHeap

VARIABLES
  entries, stray, live, ret,   \* as in KHeap
  pc,        \* the loop in progress, or "idle"
  i,         \* loop index
  bc, bs,    \* free blocks counted so far, and the first of them
  need,      \* total_blocks of the call
  req,       \* its size in bytes
  entry,     \* next value of the marking loop
  freeing,   \* the chunk being freed, as a set of at most one
  before     \* history: the table and stray writes when the call began

locals == <<i, bc, bs, need, req, entry, freeing, before>>
vars == <<entries, stray, live, ret, pc, locals>>

(* Callers see the table change when the call returns.                     *)
Heap == INSTANCE KHeap WITH
  entries <- IF pc = "idle" THEN entries ELSE before.entries,
  stray <- IF pc = "idle" THEN stray ELSE before.stray

Blocks == 0 .. Total - 1
NULL == 0
NoEntry == [taken |-> FALSE, first |-> FALSE, next |-> FALSE]
Idle == [entries |-> <<>>, stray |-> {}]

Init ==
  /\ entries = [b \in Blocks |-> NoEntry]
  /\ stray = {} /\ live = {} /\ ret = NULL
  /\ pc = "idle"
  /\ i = 0 /\ bc = 0 /\ bs = -1 /\ need = 0 /\ req = 0
  /\ entry = NoEntry /\ freeing = {} /\ before = Idle

Return ==
  /\ pc' = "idle"
  /\ i' = 0 /\ bc' = 0 /\ bs' = -1 /\ need' = 0 /\ req' = 0
  /\ entry' = NoEntry /\ freeing' = {} /\ before' = Idle
-----------------------------------------------------------------------------
(* heap_malloc(size): the size becomes a number of blocks.                 *)
CallMalloc(size) ==
  /\ pc = "idle"
  /\ pc' = "scan"
  /\ need' = Heap!total_blocks(size)
  /\ req' = size
  /\ before' = [entries |-> entries, stray |-> stray]
  /\ UNCHANGED <<entries, stray, live, ret, i, bc, bs, entry, freeing>>

(* Keeps bs at a taken entry.                                              *)
Mut_ScanTaken ==
  /\ pc = "scan" /\ i < Total /\ entries[i].taken
  /\ bc' = 0 /\ i' = i + 1
  /\ UNCHANGED <<entries, stray, live, ret, pc, bs, need, req, entry, freeing, before>>

(* Continues without advancing i.                                          *)
Mut_ScanStuck ==
  /\ pc = "scan" /\ i < Total /\ entries[i].taken
  /\ bc' = 0 /\ bs' = -1
  /\ UNCHANGED <<entries, stray, live, ret, pc, i, need, req, entry, freeing, before>>

(* A taken entry: the count starts again.                                  *)
ScanTaken ==
  /\ pc = "scan" /\ i < Total /\ entries[i].taken
  /\ bc' = 0 /\ bs' = -1 /\ i' = i + 1
  /\ UNCHANGED <<entries, stray, live, ret, pc, need, req, entry, freeing, before>>

(* A free entry: counted, and the scan stops once need are found.          *)
ScanFree ==
  /\ pc = "scan" /\ i < Total /\ ~ entries[i].taken
  /\ bs' = IF bs = -1 THEN i ELSE bs
  /\ bc' = bc + 1
  /\ IF bc' = need THEN pc' = "found" /\ UNCHANGED i
                   ELSE i' = i + 1 /\ UNCHANGED pc
  /\ UNCHANGED <<entries, stray, live, ret, need, req, entry, freeing, before>>

(* Does not look at the last entry.                                        *)
Mut_ScanEnd ==
  /\ pc = "scan" /\ i = Total - 1
  /\ pc' = "found"
  /\ UNCHANGED <<entries, stray, live, ret, locals>>

ScanEnd ==
  /\ pc = "scan" /\ i = Total
  /\ pc' = "found"
  /\ UNCHANGED <<entries, stray, live, ret, locals>>

NoSpace ==
  /\ pc = "found" /\ bs < 0
  /\ ret' = NULL
  /\ Return
  /\ UNCHANGED <<entries, stray, live>>

MarkBegin ==
  /\ pc = "found" /\ bs >= 0
  /\ pc' = "mark"
  /\ i' = bs
  /\ entry' = [taken |-> TRUE, first |-> TRUE, next |-> need > 1]
  /\ UNCHANGED <<entries, stray, live, ret, bc, bs, need, req, freeing, before>>

(* Drops HAS_NEXT one entry late.                                          *)
Mut_MarkOne ==
  LET end_block == bs + need - 1
  IN  /\ pc = "mark" /\ i <= end_block
      /\ \/ i \in Blocks /\ entries' = [entries EXCEPT ![i] = entry] /\ UNCHANGED stray
         \/ i \notin Blocks /\ stray' = stray \cup {i} /\ UNCHANGED entries
      /\ entry' = [taken |-> TRUE, first |-> FALSE, next |-> i # end_block]
      /\ i' = i + 1
      /\ UNCHANGED <<live, ret, pc, bc, bs, need, req, freeing, before>>

(* entries[i] = entry, where i may be past the table.                      *)
MarkOne ==
  LET end_block == bs + need - 1
  IN  /\ pc = "mark" /\ i <= end_block
      /\ \/ i \in Blocks /\ entries' = [entries EXCEPT ![i] = entry] /\ UNCHANGED stray
         \/ i \notin Blocks /\ stray' = stray \cup {i} /\ UNCHANGED entries
      /\ entry' = [taken |-> TRUE, first |-> FALSE, next |-> i # end_block - 1]
      /\ i' = i + 1
      /\ UNCHANGED <<live, ret, pc, bc, bs, need, req, freeing, before>>

MarkEnd ==
  /\ pc = "mark" /\ i > bs + need - 1
  /\ ret' = Heap!heap_block_to_address(bs)
  /\ live' = live \cup {[start |-> bs, blocks |-> need, size |-> req]}
  /\ Return
  /\ UNCHANGED <<entries, stray>>
-----------------------------------------------------------------------------
CallFree(c) ==
  /\ pc = "idle"
  /\ pc' = "free"
  /\ freeing' = {c}
  /\ i' = Heap!heap_address_to_block(Heap!heap_block_to_address(c.start))
  /\ before' = [entries |-> entries, stray |-> stray]
  /\ UNCHANGED <<entries, stray, live, ret, bc, bs, need, req, entry>>

CallFreeNull ==
  /\ pc = "idle"
  /\ pc' = "free"
  /\ i' = Heap!heap_address_to_block(NULL)
  /\ before' = [entries |-> entries, stray |-> stray]
  /\ UNCHANGED <<entries, stray, live, ret, bc, bs, need, req, entry, freeing>>

(* Reads the entry after clearing it.                                      *)
Mut_ClearOne ==
  /\ pc = "free" /\ i \in Blocks
  /\ entries' = [entries EXCEPT ![i] = NoEntry]
  /\ IF entries'[i].next THEN i' = i + 1 /\ UNCHANGED pc
                         ELSE pc' = "freed" /\ UNCHANGED i
  /\ UNCHANGED <<stray, live, ret, bc, bs, need, req, entry, freeing, before>>

(* The entry is read before it is cleared; HAS_NEXT decides about the next.*)
ClearOne ==
  /\ pc = "free" /\ i \in Blocks
  /\ entries' = [entries EXCEPT ![i] = NoEntry]
  /\ IF entries[i].next THEN i' = i + 1 /\ UNCHANGED pc
                        ELSE pc' = "freed" /\ UNCHANGED i
  /\ UNCHANGED <<stray, live, ret, bc, bs, need, req, entry, freeing, before>>

(* Below the table the bytes are unknown; the boot sector ends the loop.   *)
ClearBelow ==
  /\ pc = "free" /\ i < 0
  /\ stray' = stray \cup {i}
  /\ \/ i' = i + 1 /\ i' < 0 /\ UNCHANGED pc
     \/ pc' = "freed" /\ UNCHANGED i
  /\ UNCHANGED <<entries, live, ret, bc, bs, need, req, entry, freeing, before>>

ClearEnd ==
  /\ pc = "free" /\ i = Total
  /\ pc' = "freed"
  /\ UNCHANGED <<entries, stray, live, ret, locals>>

FreeReturns ==
  /\ pc = "freed"
  /\ live' = live \ freeing
  /\ Return
  /\ UNCHANGED <<entries, stray, ret>>

Iterate ==
  \/ ScanTaken \/ ScanFree \/ ScanEnd \/ NoSpace
  \/ MarkBegin \/ MarkOne \/ MarkEnd
  \/ ClearOne \/ ClearBelow \/ ClearEnd \/ FreeReturns

Next ==
  \/ Iterate
  \/ \E size \in Sizes : CallMalloc(size)
  \/ \E c \in live : CallFree(c)
  \/ CallFreeNull

(* A call in progress keeps running: nothing can take the CPU from it.     *)
Spec == Init /\ [][Next]_vars /\ WF_vars(Iterate)
-----------------------------------------------------------------------------
(* Every heap call returns.                                                *)
CallsReturn == pc # "idle" ~> pc = "idle"
=============================================================================
