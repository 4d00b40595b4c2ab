------------------------------- MODULE KHeap --------------------------------
(***************************************************************************)
(* The kernel heap: the block table of src/memory/heap/heap.c and the      *)
(* kmalloc/kfree entry points of kheap.c.                                  *)
(*                                                                         *)
(* The kernel runs with interrupts off (boot.asm: cli; the gates of idt.c  *)
(* are interrupt gates), so one call is one step here; KHeapLoops runs the *)
(* same calls one loop iteration at a time and is shown to implement this  *)
(* module.  Addresses are counted in blocks: block b is at SAddr + b and   *)
(* NULL is address 0.  Sizes are bytes, in words of Word values.           *)
(*                                                                         *)
(* The table is an array without bounds checks, so a write outside it is   *)
(* recorded in stray: it changes memory that belongs to something else.    *)
(***************************************************************************)
EXTENDS Integers

CONSTANTS
  Total,      \* heap_table.total: NUTSOS_HEAP_SIZE_BYTES / BLOCK_SIZE
  SAddr,      \* heap.saddr / BLOCK_SIZE
  BlockSize,  \* NUTSOS_HEAP_BLOCK_SIZE
  Word,       \* 2^32: the values of uint32_t
  Sizes       \* byte sizes the kernel asks for

ASSUME HeapAssumption ==
  /\ Total \in Nat \ {0}
  /\ SAddr \in Nat \ {0}
  /\ BlockSize \in Nat \ {0}
  /\ Word \in Nat /\ Word > BlockSize /\ Word % BlockSize = 0
  /\ Sizes \subseteq 0 .. Word - 1

VARIABLES
  entries,    \* heap_table.entries
  stray,      \* indices outside the table that the code wrote through it
  live,       \* history: the chunks callers hold, [start, blocks, size]
  ret         \* what the last heap_malloc returned

vars == <<entries, stray, live, ret>>

NULL == 0
Blocks == 0 .. Total - 1

(* The three flag bits of a table entry.                                   *)
Entry == [taken : BOOLEAN, first : BOOLEAN, next : BOOLEAN]
FreeEntry == [taken |-> FALSE, first |-> FALSE, next |-> FALSE]

Least(S) == CHOOSE x \in S : \A y \in S : x <= y
-----------------------------------------------------------------------------
(* uint32_t arithmetic: the sum wraps for sizes in the last block of words.*)
heap_align_value_to_upper(val) ==
  IF val % BlockSize = 0 THEN val
  ELSE (val - (val % BlockSize) + BlockSize) % Word

(* Blocks s .. s+n-1 are entries of the table and all of them are free.    *)
FreeRun(t, s, n) ==
  s + n <= Total /\ \A b \in s .. s + n - 1 : ~ t[b].taken

(* The scan stops at the first run of n free blocks.  When there is none   *)
(* it ends with bs at the start of the free run that touches the end of    *)
(* the table, however short, and returns that; only with a taken last      *)
(* block is the result -ENOMEM (here -1).  bc never equals n = 0.          *)
heap_get_next_free_block(t, n) ==
  LET fits  == {s \in Blocks : n > 0 /\ FreeRun(t, s, n)}
      tails == {s \in Blocks : FreeRun(t, s, Total - s)}
  IN  IF fits # {} THEN Least(fits)
      ELSE IF tails # {} THEN Least(tails)
      ELSE -1

heap_block_to_address(b) == SAddr + b
heap_address_to_block(a) == a - SAddr

heap_mark_blocks_taken(t, s, n) ==
  [b \in Blocks |->
     IF b \in s .. s + n - 1
     THEN [taken |-> TRUE, first |-> b = s, next |-> b # s + n - 1]
     ELSE t[b]]

(* Entries the free loop clears: from s up to the first without HAS_NEXT.  *)
FreedFrom(t, s) == {b \in s .. Total - 1 : \A j \in s .. b - 1 : t[j].next}

heap_mark_blocks_free(t, s) ==
  [b \in Blocks |-> IF b \in FreedFrom(t, s) THEN FreeEntry ELSE t[b]]
-----------------------------------------------------------------------------
(* kheap_init: heap_create accepts the aligned range and clears the table. *)
Init ==
  /\ entries = [b \in Blocks |-> FreeEntry]
  /\ stray = {}
  /\ live = {}
  /\ ret = NULL

total_blocks(size) == heap_align_value_to_upper(size) \div BlockSize

heap_malloc(size) ==
  LET n == total_blocks(size)
      s == heap_get_next_free_block(entries, n)
  IN  \/ /\ s < 0
         /\ ret' = NULL
         /\ UNCHANGED <<entries, stray, live>>
      \/ /\ s >= 0
         /\ ret' = heap_block_to_address(s)
         /\ entries' = heap_mark_blocks_taken(entries, s, n)
         /\ stray' = stray \cup ((s .. s + n - 1) \ Blocks)
         /\ live' = live \cup {[start |-> s, blocks |-> n, size |-> size]}

(* kfree of a pointer its caller holds.                                    *)
heap_free(c) ==
  LET ptr == heap_block_to_address(c.start)
  IN  /\ entries' = heap_mark_blocks_free(entries, heap_address_to_block(ptr))
      /\ live' = live \ {c}
      /\ UNCHANGED <<stray, ret>>

(* kfree(NULL), which a descriptor left half built by a refused allocation *)
(* leads to (fat16.c:189).  The index is negative: the loop clears bytes   *)
(* below the table until one of them lacks the HAS_NEXT bit.  What those   *)
(* bytes hold is unknown, but the boot sector just below the table stops   *)
(* the loop before entry 0.                                                *)
heap_free_null ==
  LET first == heap_address_to_block(NULL)
  IN  /\ \E last \in first .. -1 : stray' = stray \cup (first .. last)
      /\ UNCHANGED <<entries, live, ret>>

Next ==
  \/ \E size \in Sizes : heap_malloc(size)
  \/ \E c \in live : heap_free(c)
  \/ heap_free_null

Spec == Init /\ [][Next]_vars
-----------------------------------------------------------------------------
(* The blocks the holder of a chunk may use.                               *)
Owned(c) == c.start .. c.start + c.blocks - 1

Chunk == [start : Blocks, blocks : Nat, size : Sizes]

(* Types of the state.                                                     *)
TypeOK ==
  /\ entries \in [Blocks -> Entry]
  /\ stray \subseteq Int \ Blocks
  /\ live \subseteq Chunk
  /\ ret = NULL \/ heap_address_to_block(ret) \in Blocks

(* No block is in two callers' hands (heap_malloc after any history of     *)
(* mallocs and frees).                                                     *)
ChunksDisjoint ==
  \A c, d \in live : c # d => Owned(c) \cap Owned(d) = {}

(* The table says exactly who holds what: a block is taken iff a live      *)
(* chunk covers it, FIRST marks the starts and HAS_NEXT every block but    *)
(* the last of a chunk (heap.h:10-17).  A free that stopped early or late  *)
(* would leak blocks or take another owner's.                              *)
TableMatchesChunks ==
  \A b \in Blocks :
    /\ entries[b].taken <=> \E c \in live : b \in Owned(c)
    /\ entries[b].first <=> \E c \in live : b = c.start
    /\ entries[b].next  <=> \E c \in live : b \in Owned(c) /\ b # c.start + c.blocks - 1

(* The heap as the rest of the kernel may think of it.                     *)
Allocator == INSTANCE BlockAllocator WITH
  held <- {Owned(c) : c \in live},
  Requests <- {total_blocks(size) : size \in Sizes}

ImplementsAllocator == Allocator!Spec
=============================================================================
