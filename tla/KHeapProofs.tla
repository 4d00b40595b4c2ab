---------------------------- MODULE KHeapProofs -----------------------------
(***************************************************************************)
(* Proofs about KHeap, for every heap size, block size and set of request  *)
(* sizes.  Requests of zero blocks (kmalloc(0), or a size that wraps to 0  *)
(* when it is rounded up) are excluded where a theorem says so: such a     *)
(* call returns a block it does not mark.  The loops of KHeapLoops do what *)
(* KHeap says of the calls, for requests of any size.                      *)
(***************************************************************************)
EXTENDS KHeapCalls, TLAPS, FiniteSetTheorems

NonzeroRequests == \A size \in Sizes : total_blocks(size) \in Nat \ {0}

(* The inductive invariant: TableMatchesChunks alone does not survive a    *)
(* free unless chunks are disjoint, and disjointness does not survive an   *)
(* allocation unless the table covers every live chunk.                    *)
IInv ==
  /\ TypeOK
  /\ \A c \in live : c.blocks # 0
  /\ ChunksDisjoint
  /\ TableMatchesChunks
-----------------------------------------------------------------------------
(* A nonempty set of block numbers has a least element: what the code's    *)
(* upward scan finds first.                                                *)
LEMMA LeastExists ==
  ASSUME NEW N \in Nat, NEW S \in SUBSET (0 .. N - 1), S # {}
  PROVE  Least(S) \in S /\ \A y \in S : Least(S) <= y
<1> DEFINE Down(x) == 0 .. x
           T == {Down(x) : x \in S}
<1>1. IsFiniteSet(0 .. N - 1)
  BY FS_Interval
<1>2. IsWellFoundedOn(StrictSubsetOrdering(0 .. N - 1), FiniteSubsetsOf(0 .. N - 1))
  BY FS_StrictSubsetOrderingWellFounded
<1>3. T \subseteq FiniteSubsetsOf(0 .. N - 1) /\ T # {}
  <2>1. FiniteSubsetsOf(0 .. N - 1) = SUBSET (0 .. N - 1)
    BY <1>1, FS_FiniteSubsetsOfFinite
  <2>2. \A x \in S : Down(x) \in SUBSET (0 .. N - 1)
    OBVIOUS
  <2>3. T \subseteq SUBSET (0 .. N - 1)
    BY <2>2
  <2>4. PICK x : x \in S
    OBVIOUS
  <2>5. Down(x) \in T
    BY <2>4
  <2> QED BY <2>1, <2>3, <2>5
<1>4. PICK d \in T : \A e \in T : ~ (<<e, d>> \in StrictSubsetOrdering(0 .. N - 1))
  BY <1>2, <1>3, WFMin
<1>5. PICK x \in S : d = Down(x)
  OBVIOUS
<1>6. \A y \in S : x <= y
  <2> SUFFICES ASSUME NEW y \in S, y < x PROVE FALSE
    OBVIOUS
  <2>1. Down(y) \in T /\ Down(y) \subseteq Down(x) /\ Down(y) # Down(x)
    OBVIOUS
  <2>2. Down(y) \in SUBSET (0 .. N - 1) /\ Down(x) \in SUBSET (0 .. N - 1)
    OBVIOUS
  <2> QED BY <1>4, <1>5, <2>1, <2>2 DEF StrictSubsetOrdering
<1> QED BY <1>6 DEF Least

(* What heap_get_next_free_block promises about any table: -1 only if no   *)
(* run of n free blocks exists, otherwise a block from which n blocks, as  *)
(* far as they lie in the table, are free.                                 *)
LEMMA SearchResult ==
  ASSUME NEW t \in [Blocks -> Entry], NEW n \in Nat, n # 0,
         NEW s, s = heap_get_next_free_block(t, n)
  PROVE  \/ /\ s = -1
            /\ \A x \in Blocks : ~ FreeRun(t, x, n)
         \/ /\ s \in Blocks
            /\ \A b \in s .. s + n - 1 : b \in Blocks => ~ t[b].taken
<1> DEFINE fits == {x \in Blocks : n > 0 /\ FreeRun(t, x, n)}
           tails == {x \in Blocks : FreeRun(t, x, Total - x)}
<1>0. Total \in Nat /\ fits \in SUBSET (0 .. Total - 1) /\ tails \in SUBSET (0 .. Total - 1)
  BY HeapAssumption DEF Blocks
<1>1. CASE fits # {}
  <2>1. s = Least(fits)
    BY <1>1 DEF heap_get_next_free_block
  <2>2. s \in fits
    BY <1>0, <1>1, <2>1, LeastExists
  <2> QED BY <2>2 DEF FreeRun
<1>2. CASE fits = {} /\ tails # {}
  <2>1. s = Least(tails)
    BY <1>2 DEF heap_get_next_free_block
  <2>2. s \in tails
    BY <1>0, <1>2, <2>1, LeastExists
  <2>3. s \in Blocks /\ \A b \in s .. s + (Total - s) - 1 : ~ t[b].taken
    BY <2>2 DEF FreeRun
  <2>4. \A b \in s .. s + n - 1 : b \in Blocks => b \in s .. s + (Total - s) - 1
    BY <1>0, <2>3 DEF Blocks
  <2> QED BY <2>3, <2>4
<1>3. CASE fits = {} /\ tails = {}
  <2>1. s = -1
    BY <1>3 DEF heap_get_next_free_block
  <2>2. \A x \in Blocks : ~ FreeRun(t, x, n)
    BY <1>3
  <2> QED BY <2>1, <2>2
<1> QED BY <1>1, <1>2, <1>3

(* The free loop clears exactly the blocks of the chunk it is given, up to *)
(* the end of the table: HAS_NEXT leads it to the chunk's last block and   *)
(* no further.                                                             *)
LEMMA FreeClearsChunk ==
  ASSUME IInv, NEW c \in live
  PROVE  FreedFrom(entries, c.start) = Owned(c) \cap Blocks
<1> DEFINE s == c.start
           e == c.start + c.blocks - 1
<1>0. /\ Total \in Nat /\ s \in Blocks /\ c.blocks \in Nat \ {0}
      /\ s \in Nat /\ e \in Nat /\ s <= e
  BY HeapAssumption DEF IInv, TypeOK, Chunk, Blocks
<1>1. ASSUME NEW b \in FreedFrom(entries, s)
      PROVE  b \in Owned(c) \cap Blocks
  <2>1. b \in s .. Total - 1 /\ b \in Blocks /\ \A j \in s .. b - 1 : entries[j].next
    BY <1>0 DEF FreedFrom, Blocks
  <2> SUFFICES ASSUME b > e PROVE FALSE
    BY <1>0, <2>1 DEF Owned
  <2>2. e \in s .. b - 1 /\ e \in Blocks /\ e \in Owned(c)
    BY <1>0, <2>1 DEF Owned, Blocks
  <2>3. PICK d \in live : e \in Owned(d) /\ e # d.start + d.blocks - 1
    BY <2>1, <2>2 DEF IInv, TableMatchesChunks
  <2>4. d = c
    BY <2>2, <2>3 DEF IInv, ChunksDisjoint
  <2> QED BY <2>3, <2>4
<1>2. ASSUME NEW b \in Owned(c) \cap Blocks
      PROVE  b \in FreedFrom(entries, s)
  <2>1. b \in s .. Total - 1 /\ b <= e
    BY <1>0 DEF Owned, Blocks
  <2>2. ASSUME NEW j \in s .. b - 1 PROVE entries[j].next
    <3>1. j \in Blocks /\ j \in Owned(c) /\ j # c.start + c.blocks - 1
      BY <1>0, <2>1 DEF Owned, Blocks
    <3> QED BY <3>1 DEF IInv, TableMatchesChunks
  <2> QED BY <2>1, <2>2 DEF FreedFrom
<1> QED BY <1>1, <1>2
-----------------------------------------------------------------------------
(* The heap starts empty and consistent.                                   *)
LEMMA InitIInv == Init => IInv
BY HeapAssumption
   DEF Init, IInv, TypeOK, ChunksDisjoint, TableMatchesChunks, FreeEntry, Entry,
       Blocks, NULL

(* The chunk an allocation creates shares no block with a live one, even   *)
(* past the end of the table: a chunk that reaches past it holds the last  *)
(* block, and so does every other one that does.                           *)
LEMMA NewChunkDisjoint ==
  ASSUME IInv, NEW n \in Nat \ {0}, NEW s \in Blocks,
         \A b \in s .. s + n - 1 : b \in Blocks => ~ entries[b].taken,
         NEW c \in live
  PROVE  (s .. s + n - 1) \cap Owned(c) = {}
<1>0. Total \in Nat \ {0} /\ c.start \in Blocks /\ c.blocks \in Nat \ {0}
  BY HeapAssumption DEF IInv, TypeOK, Chunk
<1> SUFFICES ASSUME NEW b \in (s .. s + n - 1) \cap Owned(c) PROVE FALSE
  OBVIOUS
<1>1. CASE b \in Blocks
  BY <1>1 DEF IInv, TableMatchesChunks
<1>2. CASE b \notin Blocks
  <2>1. Total - 1 \in Blocks /\ Total - 1 \in s .. s + n - 1 /\ Total - 1 \in Owned(c)
    BY <1>0, <1>2 DEF Blocks, Owned
  <2> QED BY <2>1 DEF IInv, TableMatchesChunks
<1> QED BY <1>1, <1>2

(* An allocation keeps the invariant.                                      *)
LEMMA MallocIInv ==
  ASSUME IInv, NonzeroRequests, NEW size \in Sizes, heap_malloc(size)
  PROVE  IInv'
<1> DEFINE n == total_blocks(size)
           s == heap_get_next_free_block(entries, n)
           new == [start |-> s, blocks |-> n, size |-> size]
<1>0. Total \in Nat \ {0} /\ n \in Nat \ {0} /\ entries \in [Blocks -> Entry]
  BY HeapAssumption DEF NonzeroRequests, IInv, TypeOK
<1>1. \/ s = -1
      \/ s \in Blocks /\ \A b \in s .. s + n - 1 : b \in Blocks => ~ entries[b].taken
  BY <1>0, SearchResult
<1>2. CASE s = -1
  <2>1. UNCHANGED <<entries, stray, live>> /\ ret' = NULL
    BY <1>2 DEF heap_malloc
  <2> QED BY <2>1 DEF IInv, TypeOK, ChunksDisjoint, TableMatchesChunks
<1>3. CASE s \in Blocks /\ \A b \in s .. s + n - 1 : b \in Blocks => ~ entries[b].taken
  <2>1. /\ ret' = heap_block_to_address(s)
        /\ entries' = heap_mark_blocks_taken(entries, s, n)
        /\ stray' = stray \cup ((s .. s + n - 1) \ Blocks)
        /\ live' = live \cup {new}
    BY <1>3 DEF heap_malloc, Blocks
  <2>2. new \in Chunk /\ new.blocks # 0 /\ Owned(new) = s .. s + n - 1
    BY <1>0, <1>3 DEF Chunk, Owned
  <2>3. \A c \in live : Owned(new) \cap Owned(c) = {}
    BY <1>0, <1>3, <2>2, NewChunkDisjoint
  <2>4. TypeOK'
    <3>1. entries' \in [Blocks -> Entry]
      BY <1>0, <2>1 DEF heap_mark_blocks_taken, Entry
    <3>2. stray' \subseteq Int \ Blocks
      <4>1. s .. s + n - 1 \subseteq Int
        BY <1>0, <1>3 DEF Blocks
      <4> QED BY <2>1, <4>1 DEF IInv, TypeOK
    <3>3. heap_address_to_block(ret') = s
      BY <1>3, <2>1, HeapAssumption
         DEF heap_address_to_block, heap_block_to_address, Blocks
    <3> QED BY <1>3, <2>1, <2>2, <3>1, <3>2, <3>3 DEF IInv, TypeOK, heap_address_to_block
  <2>5. \A c \in live' : c.blocks # 0
    BY <2>1, <2>2 DEF IInv
  <2>6. ChunksDisjoint'
    BY <2>1, <2>3 DEF IInv, ChunksDisjoint, Owned
  <2>7. TableMatchesChunks'
    <3> SUFFICES ASSUME NEW b \in Blocks
                 PROVE  /\ entries'[b].taken <=> \E c \in live' : b \in Owned(c)
                        /\ entries'[b].first <=> \E c \in live' : b = c.start
                        /\ entries'[b].next <=>
                             \E c \in live' : b \in Owned(c) /\ b # c.start + c.blocks - 1
      BY DEF TableMatchesChunks, Owned
    <3>1. CASE b \in Owned(new)
      <4>1. entries'[b] = [taken |-> TRUE, first |-> b = s, next |-> b # s + n - 1]
        BY <2>1, <2>2, <3>1 DEF heap_mark_blocks_taken
      <4>2. \A c \in live : b \notin Owned(c) /\ b # c.start
        <5> TAKE c \in live
        <5>1. c.start \in Owned(c)
          BY DEF IInv, TypeOK, Chunk, Owned, Blocks
        <5> QED BY <2>3, <3>1, <5>1
      <4>3. new.start = s /\ new.blocks = n
        OBVIOUS
      <4>4. \A c \in live' : c = new \/ (b \notin Owned(c) /\ b # c.start)
        BY <2>1, <4>2
      <4>5. new \in live'
        BY <2>1
      <4>6. entries'[b].taken /\ (entries'[b].first <=> b = s)
            /\ (entries'[b].next <=> b # s + n - 1)
        <5>1. entries'[b].taken = TRUE
          BY <4>1
        <5>2. entries'[b].first = (b = s)
          BY <4>1
        <5>3. entries'[b].next = (b # s + n - 1)
          BY <4>1
        <5> QED BY <5>1, <5>2, <5>3
      <4>7. entries'[b].taken <=> \E c \in live' : b \in Owned(c)
        BY <3>1, <4>5, <4>6
      <4>8. entries'[b].first <=> \E c \in live' : b = c.start
        BY <4>3, <4>4, <4>5, <4>6
      <4>9. entries'[b].next <=>
              \E c \in live' : b \in Owned(c) /\ b # c.start + c.blocks - 1
        <5>1. ASSUME entries'[b].next
              PROVE  \E c \in live' : b \in Owned(c) /\ b # c.start + c.blocks - 1
          <6>1. b # new.start + new.blocks - 1
            BY <4>3, <4>6, <5>1
          <6> QED BY <3>1, <4>5, <6>1
        <5>2. ASSUME NEW c \in live', b \in Owned(c), b # c.start + c.blocks - 1
              PROVE  entries'[b].next
          <6>1. c = new
            BY <4>4, <5>2
          <6> QED BY <4>3, <4>6, <5>2, <6>1
        <5> QED BY <5>1, <5>2
      <4> QED BY <4>7, <4>8, <4>9
    <3>2. CASE b \notin Owned(new)
      <4>1. entries'[b] = entries[b]
        BY <2>1, <2>2, <3>2 DEF heap_mark_blocks_taken
      <4>2. b # new.start
        BY <1>0, <1>3, <2>2, <3>2 DEF Blocks
      <4> QED BY <2>1, <3>2, <4>1, <4>2 DEF IInv, TableMatchesChunks
    <3> QED BY <3>1, <3>2
  <2> QED BY <2>4, <2>5, <2>6, <2>7 DEF IInv
<1> QED BY <1>1, <1>2, <1>3

(* What allocations alone keep, of zero blocks too: no free has yet taken  *)
(* a block for such a request's that another caller holds.                 *)
Covered ==
  /\ entries \in [Blocks -> Entry]
  /\ \A c \in live : c.start \in Blocks /\ c.blocks \in Nat
  /\ \A c \in live, b \in Blocks : b \in Owned(c) => entries[b].taken
  /\ ChunksDisjoint

(* The search returns a free block, if any, even for zero blocks.          *)
LEMMA SearchFindsFree ==
  ASSUME NEW t \in [Blocks -> Entry], NEW n \in Nat,
         NEW s, s = heap_get_next_free_block(t, n)
  PROVE  \/ s = -1
         \/ /\ s \in Blocks /\ ~ t[s].taken
            /\ \A b \in s .. s + n - 1 : b \in Blocks => ~ t[b].taken
<1>0. Total \in Nat \ {0}
  BY HeapAssumption
<1>1. CASE n # 0
  <2>1. \/ s = -1
        \/ s \in Blocks /\ \A b \in s .. s + n - 1 : b \in Blocks => ~ t[b].taken
    BY <1>1, SearchResult
  <2>2. s \in Blocks => s \in s .. s + n - 1
    BY <1>0, <1>1 DEF Blocks
  <2> QED BY <2>1, <2>2
<1>2. CASE n = 0
  <2> DEFINE fits == {x \in Blocks : n > 0 /\ FreeRun(t, x, n)}
             tails == {x \in Blocks : FreeRun(t, x, Total - x)}
  <2>1. fits = {} /\ tails \in SUBSET (0 .. Total - 1)
    BY <1>2 DEF Blocks
  <2>2. CASE tails = {}
    BY <2>1, <2>2 DEF heap_get_next_free_block
  <2>3. CASE tails # {}
    <3>1. s = Least(tails)
      BY <2>1, <2>3 DEF heap_get_next_free_block
    <3>2. s \in tails
      BY <1>0, <2>1, <2>3, <3>1, LeastExists
    <3>3. s \in Blocks /\ \A b \in s .. s + (Total - s) - 1 : ~ t[b].taken
      BY <3>2 DEF FreeRun
    <3>4. s \in s .. s + (Total - s) - 1 /\ s .. s + n - 1 = {}
      BY <1>0, <1>2, <3>3 DEF Blocks
    <3> QED BY <3>3, <3>4
  <2> QED BY <2>2, <2>3
<1> QED BY <1>1, <1>2

(* An allocation hands out a block that nobody holds, or nothing.          *)
LEMMA MallocCovered ==
  ASSUME Covered, NEW size \in Sizes, total_blocks(size) \in Nat, heap_malloc(size)
  PROVE  /\ Covered'
         /\ \/ ret' = NULL /\ live' = live
            \/ /\ ret' # NULL
               /\ \E s \in Blocks :
                    /\ ret' = heap_block_to_address(s) /\ ~ entries[s].taken
                    /\ live' = live \cup
                         {[start |-> s, blocks |-> total_blocks(size), size |-> size]}
<1> DEFINE n == total_blocks(size)
           s == heap_get_next_free_block(entries, n)
           new == [start |-> s, blocks |-> n, size |-> size]
<1>0. Total \in Nat \ {0} /\ SAddr \in Nat \ {0} /\ n \in Nat
  BY HeapAssumption
<1>1. \/ s = -1
      \/ /\ s \in Blocks /\ ~ entries[s].taken
         /\ \A b \in s .. s + n - 1 : b \in Blocks => ~ entries[b].taken
  BY <1>0, SearchFindsFree DEF Covered
<1>2. CASE s = -1
  <2>1. UNCHANGED <<entries, stray, live>> /\ ret' = NULL
    BY <1>2 DEF heap_malloc
  <2> QED BY <2>1 DEF Covered, ChunksDisjoint
<1>3. CASE /\ s \in Blocks /\ ~ entries[s].taken
           /\ \A b \in s .. s + n - 1 : b \in Blocks => ~ entries[b].taken
  <2>1. /\ ret' = heap_block_to_address(s)
        /\ entries' = heap_mark_blocks_taken(entries, s, n)
        /\ live' = live \cup {new}
    BY <1>3 DEF heap_malloc, Blocks
  <2> HIDE DEF s, n
  <2>2. new.start \in Blocks /\ new.blocks \in Nat /\ Owned(new) = s .. s + n - 1
    BY <1>0, <1>3 DEF Owned
  <2>3. \A c \in live : Owned(new) \cap Owned(c) = {}
    <3> SUFFICES ASSUME NEW c \in live, NEW b \in Owned(new) \cap Owned(c) PROVE FALSE
      OBVIOUS
    <3>1. c.start \in 0 .. Total - 1 /\ c.blocks \in Nat
      BY DEF Covered, Blocks
    <3>2. CASE b \in Blocks
      BY <1>3, <2>2, <3>2 DEF Covered
    <3>3. CASE b \notin Blocks
      <4>1. b \in s .. s + n - 1 /\ b \in c.start .. c.start + c.blocks - 1 /\ s \in 0 .. Total - 1
        BY <1>3, <2>2 DEF Owned, Blocks
      <4>2. /\ Total - 1 \in Blocks /\ Total - 1 \in s .. s + n - 1
            /\ Total - 1 \in c.start .. c.start + c.blocks - 1
        BY <1>0, <3>1, <3>3, <4>1 DEF Blocks
      <4> QED BY <1>3, <4>2 DEF Covered, Owned
    <3> QED BY <3>2, <3>3
  <2>4. /\ entries' \in [Blocks -> Entry]
        /\ \A b \in Blocks : b \in Owned(new) \/ entries[b].taken => entries'[b].taken
    BY <2>1, <2>2 DEF heap_mark_blocks_taken, Entry, Covered
  <2>5. Covered'
    <3>1. \A c \in live' : c.start \in Blocks /\ c.blocks \in Nat
      BY <2>1, <2>2 DEF Covered
    <3>2. \A c \in live', b \in Blocks : b \in Owned(c) => entries'[b].taken
      BY <2>1, <2>4 DEF Covered
    <3>3. ChunksDisjoint'
      BY <2>1, <2>3 DEF Covered, ChunksDisjoint, Owned
    <3> QED BY <2>4, <3>1, <3>2, <3>3 DEF Covered, Owned
  <2>6. ret' # NULL
    BY <1>0, <1>3, <2>1 DEF heap_block_to_address, Blocks, NULL
  <2> QED BY <1>3, <2>1, <2>5, <2>6 DEF n
<1> QED BY <1>1, <1>2, <1>3

(* Freeing a live chunk keeps the invariant.                               *)
LEMMA FreeIInv ==
  ASSUME IInv, NEW c \in live, heap_free(c)
  PROVE  IInv'
<1>0. Total \in Nat \ {0} /\ c \in Chunk /\ \A d \in live : d \in Chunk /\ d.blocks # 0
  BY HeapAssumption DEF IInv, TypeOK
<1>1. /\ entries' = heap_mark_blocks_free(entries, c.start)
      /\ live' = live \ {c}
      /\ UNCHANGED <<stray, ret>>
  BY <1>0, HeapAssumption
     DEF heap_free, heap_address_to_block, heap_block_to_address, Chunk, Blocks
<1>2. \A b \in Blocks : entries'[b] = IF b \in Owned(c) THEN FreeEntry ELSE entries[b]
  BY <1>1, FreeClearsChunk DEF heap_mark_blocks_free
<1>3. TypeOK'
  <2>1. entries' \in [Blocks -> Entry]
    BY <1>1 DEF heap_mark_blocks_free, IInv, TypeOK, Entry, FreeEntry
  <2> QED BY <1>1, <2>1 DEF IInv, TypeOK
<1>4. (\A d \in live' : d.blocks # 0) /\ ChunksDisjoint'
  BY <1>1 DEF IInv, ChunksDisjoint, Owned
<1>5. TableMatchesChunks'
  <2> SUFFICES ASSUME NEW b \in Blocks
               PROVE  /\ entries'[b].taken <=> \E d \in live' : b \in Owned(d)
                      /\ entries'[b].first <=> \E d \in live' : b = d.start
                      /\ entries'[b].next <=>
                           \E d \in live' : b \in Owned(d) /\ b # d.start + d.blocks - 1
    BY DEF TableMatchesChunks, Owned
  <2>1. \A d \in live : d.start \in Owned(d)
    BY <1>0 DEF Chunk, Owned, Blocks
  <2>2. CASE b \in Owned(c)
    <3>1. \A d \in live' : b \notin Owned(d) /\ b # d.start
      BY <1>1, <2>1, <2>2 DEF IInv, ChunksDisjoint
    <3>2. ~ entries'[b].taken /\ ~ entries'[b].first /\ ~ entries'[b].next
      BY <1>2, <2>2 DEF FreeEntry
    <3> QED BY <3>1, <3>2
  <2>3. CASE b \notin Owned(c)
    <3>1. entries'[b] = entries[b] /\ b # c.start
      BY <1>2, <2>1, <2>3
    <3> QED BY <1>1, <2>3, <3>1 DEF IInv, TableMatchesChunks
  <2> QED BY <2>2, <2>3
<1> QED BY <1>3, <1>4, <1>5 DEF IInv

(* Freeing NULL touches nothing in the table.                              *)
LEMMA FreeNullIInv ==
  ASSUME IInv, heap_free_null
  PROVE  IInv'
<1>1. PICK last \in heap_address_to_block(NULL) .. -1 :
        stray' = stray \cup (heap_address_to_block(NULL) .. last)
  BY DEF heap_free_null
<1>2. UNCHANGED <<entries, live, ret>>
  BY DEF heap_free_null
<1>3. stray' \subseteq Int \ Blocks
  BY <1>1, HeapAssumption DEF IInv, TypeOK, heap_address_to_block, NULL, Blocks
<1> QED BY <1>2, <1>3 DEF IInv, TypeOK, ChunksDisjoint, TableMatchesChunks

(* IInv is inductive.                                                      *)
LEMMA NextIInv ==
  ASSUME IInv, NonzeroRequests, [Next]_vars
  PROVE  IInv'
<1>1. ASSUME NEW size \in Sizes, heap_malloc(size) PROVE IInv'
  BY <1>1, MallocIInv
<1>2. ASSUME NEW c \in live, heap_free(c) PROVE IInv'
  BY <1>2, FreeIInv
<1>3. CASE heap_free_null
  BY <1>3, FreeNullIInv
<1>4. CASE UNCHANGED vars
  BY <1>4 DEF vars, IInv, TypeOK, ChunksDisjoint, TableMatchesChunks
<1> QED BY <1>1, <1>2, <1>3, <1>4 DEF Next

(* IInv holds in every reachable state.                                    *)
THEOREM Invariance == NonzeroRequests => (Spec => []IInv)
<1> SUFFICES ASSUME NonzeroRequests PROVE Spec => []IInv
  OBVIOUS
<1>1. Init => IInv
  BY InitIInv
<1>2. IInv /\ [Next]_vars => IInv'
  BY NextIInv
<1> QED BY <1>1, <1>2, PTL DEF Spec

(* The state of the heap keeps its types.                                  *)
THEOREM HeapTypeOK == NonzeroRequests => (Spec => []TypeOK)
<1> SUFFICES ASSUME NonzeroRequests PROVE Spec => []TypeOK
  OBVIOUS
<1>1. IInv => TypeOK
  BY DEF IInv
<1> QED BY <1>1, Invariance, PTL

(* No block is ever in two callers' hands.                                 *)
THEOREM HeapChunksDisjoint == NonzeroRequests => (Spec => []ChunksDisjoint)
<1> SUFFICES ASSUME NonzeroRequests PROVE Spec => []ChunksDisjoint
  OBVIOUS
<1>1. IInv => ChunksDisjoint
  BY DEF IInv
<1> QED BY <1>1, Invariance, PTL

(* The flag bits of the table always describe the live chunks.             *)
THEOREM HeapTableMatchesChunks == NonzeroRequests => (Spec => []TableMatchesChunks)
<1> SUFFICES ASSUME NonzeroRequests PROVE Spec => []TableMatchesChunks
  OBVIOUS
<1>1. IInv => TableMatchesChunks
  BY DEF IInv
<1> QED BY <1>1, Invariance, PTL
-----------------------------------------------------------------------------
(* An allocation is a Grant of the allocator, or a Refuse when no run that *)
(* is large enough is free.                                                *)
LEMMA MallocImplements ==
  ASSUME IInv, NonzeroRequests, NEW size \in Sizes, heap_malloc(size)
  PROVE  Allocator!Next
<1> DEFINE n == total_blocks(size)
           s == heap_get_next_free_block(entries, n)
           new == [start |-> s, blocks |-> n, size |-> size]
           requests == {total_blocks(z) : z \in Sizes}
<1>0. /\ Total \in Nat \ {0} /\ n \in Nat \ {0} /\ entries \in [Blocks -> Entry]
      /\ n \in requests
      /\ Allocator!Blocks = Blocks
  BY HeapAssumption DEF NonzeroRequests, IInv, TypeOK, Blocks, Allocator!Blocks
<1>1. \/ /\ s = -1
         /\ \A x \in Blocks : ~ FreeRun(entries, x, n)
      \/ /\ s \in Blocks
         /\ \A b \in s .. s + n - 1 : b \in Blocks => ~ entries[b].taken
  BY <1>0, SearchResult
<1>2. CASE s = -1 /\ \A x \in Blocks : ~ FreeRun(entries, x, n)
  <2>1. ret' = NULL /\ UNCHANGED live
    BY <1>2 DEF heap_malloc
  <2>2. ~ Allocator!Available(n)
    <3> SUFFICES ASSUME NEW x \in Blocks, x .. x + n - 1 \subseteq Blocks,
                        (x .. x + n - 1) \cap UNION {Owned(c) : c \in live} = {}
                 PROVE  FALSE
      BY <1>0 DEF Allocator!Available, Allocator!Run, Allocator!InUse
    <3>1. \A b \in x .. x + n - 1 : ~ entries[b].taken
      BY DEF IInv, TableMatchesChunks
    <3>2. x + n <= Total
      <4>1. x + n - 1 \in x .. x + n - 1
        BY <1>0 DEF Blocks
      <4> QED BY <1>0, <4>1 DEF Blocks
    <3> QED BY <1>2, <3>1, <3>2 DEF FreeRun
  <2>3. Allocator!Refuse(n)
    BY <2>1, <2>2 DEF Allocator!Refuse, Allocator!NULL, NULL, Owned
  <2> QED BY <1>0, <2>3 DEF Allocator!Next
<1>3. CASE s \in Blocks /\ \A b \in s .. s + n - 1 : b \in Blocks => ~ entries[b].taken
  <2>1. ret' = SAddr + s /\ live' = live \cup {new}
    BY <1>3 DEF heap_malloc, Blocks, heap_block_to_address
  <2>2. Owned(new) = s .. s + n - 1
    BY DEF Owned
  <2>3. \A c \in live : (s .. s + n - 1) \cap Owned(c) = {}
    BY <1>0, <1>3, NewChunkDisjoint
  <2>4. {Owned(c) : c \in live}' = {Owned(c) : c \in live} \cup {s .. s + n - 1}
    BY <2>1, <2>2 DEF Owned
  <2>5. Allocator!Grant(n)
    <3>1. (s .. s + n - 1) \cap UNION {Owned(c) : c \in live} = {}
      BY <2>3
    <3> QED BY <1>0, <1>3, <2>1, <2>4, <3>1
            DEF Allocator!Grant, Allocator!Run, Allocator!InUse
  <2> QED BY <1>0, <2>5 DEF Allocator!Next
<1> QED BY <1>1, <1>2, <1>3

(* A free gives back exactly one run.                                      *)
LEMMA FreeImplements ==
  ASSUME IInv, NEW c \in live, heap_free(c)
  PROVE  Allocator!Next
<1>1. live' = live \ {c} /\ UNCHANGED ret
  BY DEF heap_free
<1>2. \A d \in live : d # c => Owned(d) # Owned(c)
  <2> TAKE d \in live
  <2>1. c.start \in Owned(c)
    BY DEF IInv, TypeOK, Chunk, Owned, Blocks
  <2> QED BY <2>1 DEF IInv, ChunksDisjoint
<1>3. {Owned(d) : d \in live}' = {Owned(d) : d \in live} \ {Owned(c)}
  BY <1>1, <1>2 DEF Owned
<1>4. Owned(c) \in {Owned(d) : d \in live}
  OBVIOUS
<1>5. Allocator!Release(Owned(c))
  BY <1>1, <1>3 DEF Allocator!Release
<1> QED BY <1>4, <1>5 DEF Allocator!Next

(* The table-driven allocator implements the abstract one: runs handed out *)
(* are disjoint and an allocation fails only when nothing fits.            *)
THEOREM HeapImplementsAllocator == NonzeroRequests => (Spec => ImplementsAllocator)
<1> SUFFICES ASSUME NonzeroRequests PROVE Spec => ImplementsAllocator
  OBVIOUS
<1>1. Init => Allocator!Init
  BY DEF Init, Allocator!Init, Allocator!NULL, NULL
<1>2. IInv /\ [Next]_vars => [Allocator!Next]_(Allocator!vars)
  <2> SUFFICES ASSUME IInv, [Next]_vars
               PROVE  Allocator!Next \/ UNCHANGED Allocator!vars
    OBVIOUS
  <2>1. ASSUME NEW size \in Sizes, heap_malloc(size) PROVE Allocator!Next
    BY <2>1, MallocImplements
  <2>2. ASSUME NEW c \in live, heap_free(c) PROVE Allocator!Next
    BY <2>2, FreeImplements
  <2>3. CASE heap_free_null
    <3>1. UNCHANGED <<live, ret>>
      BY <2>3 DEF heap_free_null
    <3> QED BY <3>1 DEF Allocator!vars, Owned
  <2>4. CASE UNCHANGED vars
    BY <2>4 DEF vars, Allocator!vars, Owned
  <2> QED BY <2>1, <2>2, <2>3, <2>4 DEF Next
<1>3. Spec => []IInv
  BY Invariance
<1> QED BY <1>1, <1>2, <1>3, PTL DEF Spec, ImplementsAllocator, Allocator!Spec

(* total_blocks(size) blocks hold size bytes, unless the size wraps when   *)
(* it is rounded up (heap.c:48-57).                                        *)
LEMMA BlocksCover ==
  ASSUME NEW size \in Nat, size + BlockSize <= Word
  PROVE  total_blocks(size) * BlockSize >= size
<1>1. BlockSize \in Nat \ {0} /\ Word \in Nat /\ Word % BlockSize = 0 /\ Word > BlockSize
  BY HeapAssumption
<1>2. PICK q \in Nat, r \in 0 .. BlockSize - 1 : size = q * BlockSize + r /\ size % BlockSize = r
  <2>1. size \div BlockSize \in Nat /\ size % BlockSize \in 0 .. BlockSize - 1
    BY <1>1
  <2>2. size = (size \div BlockSize) * BlockSize + (size % BlockSize)
    BY <1>1
  <2> QED BY <2>1, <2>2
<1>3. CASE r = 0
  <2>1. total_blocks(size) = q
    <3>1. (q * BlockSize) \div BlockSize = q
      BY <1>1
    <3> QED BY <1>1, <1>2, <1>3, <3>1 DEF total_blocks, heap_align_value_to_upper
  <2> QED BY <1>1, <1>2, <1>3, <2>1
<1>4. CASE r # 0
  <2>1. size - r + BlockSize = (q + 1) * BlockSize
    BY <1>1, <1>2
  <2>2. (q + 1) * BlockSize < Word
    BY <1>1, <1>2, <1>4, <2>1
  <2>3. (q + 1) * BlockSize \in Nat
    BY <1>1
  <2>4. ((q + 1) * BlockSize) % Word = (q + 1) * BlockSize
    <3> DEFINE v == (q + 1) * BlockSize
    <3>1. v \in Nat /\ v < Word
      BY <2>2, <2>3
    <3> HIDE DEF v
    <3>2. v % Word = v
      BY <1>1, <3>1
    <3> QED BY <3>2 DEF v
  <2>5. ((q + 1) * BlockSize) \div BlockSize = q + 1
    BY <1>1
  <2>6. total_blocks(size) = q + 1
    BY <1>2, <1>4, <2>1, <2>4, <2>5 DEF total_blocks, heap_align_value_to_upper
  <2> QED BY <1>1, <1>2, <2>6
<1> QED BY <1>2, <1>3, <1>4

-----------------------------------------------------------------------------
(* The loops of heap.c against the whole calls of KHeap: how far each loop *)
(* has come with the table that the call found (before).                   *)

FreeIn(t, a, b) == \A k \in a .. b : ~ t[k].taken

(* The scan has looked at i entries.  A run lies in hand exactly when the  *)
(* last of them is free, it begins as far back as it can, and neither it   *)
(* nor any that ended earlier is long enough.                              *)
Scanned(t) ==
  /\ i \in 0 .. Total /\ bc \in Nat /\ bs \in Blocks \cup {-1}
  /\ \A s \in Blocks : need > 0 /\ s + need <= i => ~ FreeIn(t, s, s + need - 1)
  /\ bs = -1 => bc = 0 /\ (i = 0 \/ t[i - 1].taken)
  /\ bs # -1 =>
       /\ bc = i - bs /\ bc > 0
       /\ FreeIn(t, bs, i - 1) /\ (bs = 0 \/ t[bs - 1].taken)
  /\ need > 0 => bc < need

(* The entries before i are marked, the others are as they were.           *)
Marked ==
  /\ bs \in Blocks /\ i \in bs .. bs + need
  /\ table = [b \in Blocks |->
       IF b \in bs .. i - 1
       THEN [taken |-> TRUE, first |-> b = bs, next |-> b # bs + need - 1]
       ELSE before.entries[b]]
  /\ writes = before.stray \cup ((bs .. i - 1) \ Blocks)
  /\ i < bs + need => entry = [taken |-> TRUE, first |-> i = bs, next |-> i # bs + need - 1]

(* The entries of a chunk before i are cleared, and each led to the next.  *)
Cleared(c) ==
  /\ i \in c.start .. Total
  /\ table = [b \in Blocks |->
       IF b \in c.start .. i - 1 THEN FreeEntry ELSE before.entries[b]]
  /\ \A k \in c.start .. i - 1 : before.entries[k].next

MallocInv ==
  pc \in {"scan", "found", "mark"} =>
    /\ req \in Sizes /\ need \in Nat /\ need = total_blocks(req)
    /\ before.entries \in [Blocks -> Entry]
    /\ pc # "mark" => table = before.entries /\ writes = before.stray
    /\ pc = "scan" => Scanned(before.entries)
    /\ pc # "scan" => bs = heap_get_next_free_block(before.entries, need)
    /\ pc = "mark" => Marked

FreeChunkInv(c) ==
  /\ freeing = {c} /\ writes = before.stray
  /\ pc = "free" => Cleared(c)
  /\ pc = "freed" => table = heap_mark_blocks_free(before.entries, c.start)

FreeNullInv ==
  /\ freeing = {} /\ table = before.entries
  /\ pc = "free" => i \in -SAddr .. -1 /\ writes = before.stray \cup (-SAddr .. i - 1)
  /\ pc = "freed" => \E last \in -SAddr .. -1 : writes = before.stray \cup (-SAddr .. last)

FreeInv ==
  pc \in {"free", "freed"} =>
    /\ before.entries \in [Blocks -> Entry]
    /\ (\E c \in live : FreeChunkInv(c)) \/ FreeNullInv

LoopInv ==
  /\ entries = Table /\ stray = Writes
  /\ pc \in {"idle", "scan", "found", "mark", "free", "freed"}
  /\ table \in [Blocks -> Entry]
  /\ \A c \in live : c.start \in Blocks
  /\ pc = "idle" => i = 0 /\ bc = 0 /\ bs = -1 /\ freeing = {}
  /\ MallocInv /\ FreeInv
-----------------------------------------------------------------------------
(* A size is some number of blocks, perhaps none.                          *)
LEMMA RequestIsNat ==
  ASSUME NEW size \in Sizes
  PROVE  total_blocks(size) \in Nat
<1>1. /\ BlockSize \in Nat \ {0} /\ Word \in Nat \ {0} /\ size \in Nat
  BY HeapAssumption
<1>2. /\ size % BlockSize \in 0 .. BlockSize - 1
      /\ size - (size % BlockSize) + BlockSize \in Nat
  BY <1>1
<1> DEFINE up == heap_align_value_to_upper(size)
<1>3. up \in Nat
  <2> DEFINE sum == size - (size % BlockSize) + BlockSize
  <2>1. sum \in Nat
    BY <1>2
  <2> HIDE DEF sum
  <2>2. sum % Word \in Nat
    BY <1>1, <2>1
  <2> QED BY <1>1, <2>2 DEF heap_align_value_to_upper, sum
<1> HIDE DEF up
<1> QED BY <1>1, <1>3 DEF total_blocks, up

(* What a caller sees does not change while a call is in progress, nor     *)
(* when it begins.                                                         *)
View == entries' = Table' /\ stray' = Writes'

LEMMA Unseen ==
  ASSUME LoopInv, View, pc' # "idle",
         before' = IF pc = "idle" THEN [entries |-> table, stray |-> writes] ELSE before
  PROVE  entries' = entries /\ stray' = stray
BY DEF LoopInv, View, Table, Writes

(* The least element of a set is its only lower bound in it.               *)
LEMMA LeastIs ==
  ASSUME NEW S \in SUBSET Int, NEW x \in S, \A y \in S : x <= y
  PROVE  Least(S) = x
<1>1. \A z \in S : (\A y \in S : z <= y) => z = x
  <2> SUFFICES ASSUME NEW z \in S, \A y \in S : z <= y PROVE z = x
    OBVIOUS
  <2>1. z <= x /\ x <= z /\ x \in Int /\ z \in Int
    OBVIOUS
  <2> QED BY <2>1
<1> QED BY <1>1 DEF Least

(* The scan ends at the block the whole search finds: with enough in hand, *)
LEMMA FoundRun ==
  ASSUME NEW t \in [Blocks -> Entry], need \in Nat, need > 0, Scanned(t),
         i < Total, ~ t[i].taken,
         NEW s, s = (IF bs = -1 THEN i ELSE bs), bc + 1 = need
  PROVE  s \in Blocks /\ s = heap_get_next_free_block(t, need)
<1> DEFINE fits == {x \in Blocks : need > 0 /\ FreeRun(t, x, need)}
<1>1. /\ Total \in Nat /\ i \in Blocks /\ s \in Blocks /\ s <= i /\ s + need = i + 1
      /\ s = 0 \/ (s - 1 \in Blocks /\ t[s - 1].taken)
      /\ \A k \in s .. i : ~ t[k].taken
  <2>1. Total \in Nat /\ i \in Nat /\ bc \in Nat
    BY HeapAssumption DEF Scanned
  <2>2. CASE bs = -1
    <3>1. s = i /\ bc = 0 /\ (i = 0 \/ t[i - 1].taken)
      BY <2>2 DEF Scanned
    <3>2. /\ i \in Blocks /\ s <= i /\ s + need = i + 1
          /\ s = 0 \/ s - 1 \in Blocks
      BY <2>1, <3>1 DEF Blocks
    <3>3. \A k \in s .. i : k = i
      BY <2>1, <3>1
    <3> QED BY <2>1, <3>1, <3>2, <3>3
  <2>3. CASE bs # -1
    <3>1. /\ s = bs /\ s \in Blocks /\ bc = i - s /\ bc > 0
          /\ \A k \in s .. i - 1 : ~ t[k].taken
          /\ s = 0 \/ t[s - 1].taken
      BY <2>3 DEF Scanned, FreeIn
    <3>2. /\ i \in Blocks /\ s \in Nat /\ s <= i /\ s + need = i + 1
          /\ s = 0 \/ s - 1 \in Blocks
      BY <2>1, <3>1 DEF Blocks
    <3>3. \A k \in s .. i : k \in s .. i - 1 \/ k = i
      BY <2>1, <3>2
    <3>4. \A k \in s .. i : ~ t[k].taken
      BY <3>1, <3>3
    <3> QED BY <2>1, <3>1, <3>2, <3>4
  <2> QED BY <2>2, <2>3
<1>2. s \in fits
  BY <1>1 DEF FreeRun, Blocks
<1>3. \A x \in fits : s <= x
  <2> SUFFICES ASSUME NEW x \in fits, x < s PROVE FALSE
    BY <1>1 DEF Blocks
  <2>1. x \in Nat /\ \A k \in x .. x + need - 1 : ~ t[k].taken
    BY DEF FreeRun, Blocks
  <2>2. CASE x + need <= i
    BY <2>1, <2>2 DEF Scanned, FreeIn
  <2>3. CASE x + need > i
    <3>1. s - 1 \in x .. x + need - 1 /\ t[s - 1].taken
      BY <1>1, <2>1, <2>3 DEF Blocks
    <3> QED BY <2>1, <3>1
  <2> QED BY <1>1, <2>1, <2>2, <2>3
<1>4. fits \in SUBSET Int
  BY <1>1 DEF Blocks
<1>5. Least(fits) = s
  BY <1>2, <1>3, <1>4, LeastIs
<1> QED BY <1>1, <1>2, <1>5 DEF heap_get_next_free_block

(* or at the end of the table, with a run that is too short, or with none. *)
LEMMA FoundEnd ==
  ASSUME NEW t \in [Blocks -> Entry], need \in Nat, Scanned(t), i = Total
  PROVE  bs = heap_get_next_free_block(t, need)
<1> DEFINE fits == {x \in Blocks : need > 0 /\ FreeRun(t, x, need)}
           tails == {x \in Blocks : FreeRun(t, x, Total - x)}
<1>1. Total \in Nat \ {0} /\ fits \in SUBSET Int /\ tails \in SUBSET Int
  BY HeapAssumption DEF Blocks
<1>2. fits = {}
  BY DEF Scanned, FreeIn, FreeRun, Blocks
<1>3. CASE bs = -1
  <2>1. Total - 1 \in Blocks /\ t[Total - 1].taken
    BY <1>1, <1>3 DEF Scanned, Blocks
  <2>2. tails = {}
    BY <1>1, <2>1 DEF FreeRun, Blocks
  <2> QED BY <1>2, <1>3, <2>2 DEF heap_get_next_free_block
<1>4. CASE bs # -1
  <2>1. /\ bs \in Blocks /\ \A k \in bs .. Total - 1 : ~ t[k].taken
        /\ bs = 0 \/ t[bs - 1].taken
    BY <1>4 DEF Scanned, FreeIn
  <2>2. bs \in tails
    BY <1>1, <2>1 DEF FreeRun, Blocks
  <2>3. \A x \in tails : bs <= x
    <3> SUFFICES ASSUME NEW x \in tails, x < bs PROVE FALSE
      BY <1>1, <2>1 DEF Blocks
    <3>1. x \in Nat /\ bs - 1 \in x .. x + (Total - x) - 1 /\ t[bs - 1].taken
      BY <1>1, <2>1 DEF Blocks
    <3> QED BY <3>1 DEF FreeRun
  <2>4. Least(tails) = bs
    BY <1>1, <2>2, <2>3, LeastIs
  <2> QED BY <1>2, <2>2, <2>4 DEF heap_get_next_free_block
<1> QED BY <1>3, <1>4
-----------------------------------------------------------------------------
(* Each step of a malloc: the call, the scan, and what it has found.       *)
LEMMA CallMallocInv ==
  ASSUME LoopInv, NEW size \in Sizes, Loops!CallMalloc(size), View
  PROVE  LoopInv' /\ UNCHANGED vars
<1>1. /\ pc = "idle" /\ pc' = "scan" /\ req' = size /\ need' = total_blocks(size)
      /\ before' = [entries |-> table, stray |-> writes]
      /\ UNCHANGED <<table, writes, live, ret, i, bc, bs, entry, freeing>>
  BY DEF Loops!CallMalloc, Loops!Heap!total_blocks, Loops!Heap!heap_align_value_to_upper,
         total_blocks, heap_align_value_to_upper
<1>2. UNCHANGED vars
  BY <1>1, Unseen DEF vars
<1>3. need' \in Nat /\ i' = 0 /\ bc' = 0 /\ bs' = -1
  BY <1>1, RequestIsNat DEF LoopInv
<1>4. Scanned(before.entries)'
  BY <1>1, <1>3, HeapAssumption DEF Scanned, Blocks
<1>5. MallocInv'
  BY <1>1, <1>3, <1>4 DEF MallocInv, LoopInv
<1>6. FreeInv'
  BY <1>1 DEF FreeInv
<1> QED BY <1>1, <1>2, <1>5, <1>6 DEF LoopInv, View

(* While the scan runs, only it changes.                                   *)
LEMMA Scanning ==
  ASSUME LoopInv, View, pc = "scan", pc' \in {"scan", "found"},
         UNCHANGED <<table, writes, live, ret, need, req, entry, freeing, before>>,
         pc' = "scan" => Scanned(before.entries)',
         pc' = "found" => bs' = heap_get_next_free_block(before.entries, need)
  PROVE  LoopInv' /\ UNCHANGED vars
<1>1. UNCHANGED vars
  BY Unseen DEF vars
<1>2. MallocInv'
  BY DEF MallocInv, LoopInv
<1>3. FreeInv'
  BY DEF FreeInv
<1> QED BY <1>1, <1>2, <1>3 DEF LoopInv, View

LEMMA ScanTakenInv ==
  ASSUME LoopInv, Loops!ScanTaken, View
  PROVE  LoopInv' /\ UNCHANGED vars
<1> DEFINE t == before.entries
<1>1. /\ pc = "scan" /\ i < Total /\ t[i].taken /\ Scanned(t) /\ need \in Nat
      /\ bc' = 0 /\ bs' = -1 /\ i' = i + 1
      /\ UNCHANGED <<table, writes, live, ret, pc, need, req, entry, freeing, before>>
  BY DEF Loops!ScanTaken, LoopInv, MallocInv
<1>2. Total \in Nat /\ i \in Nat /\ t' = t
  BY <1>1, HeapAssumption DEF Scanned
<1> HIDE DEF t
<1>3. \A s \in Blocks : need > 0 /\ s + need <= i + 1 => ~ FreeIn(t, s, s + need - 1)
  <2> SUFFICES ASSUME NEW s \in Blocks, need > 0, s + need <= i + 1,
                      FreeIn(t, s, s + need - 1)
               PROVE  FALSE
    OBVIOUS
  <2>1. CASE s + need <= i
    BY <1>1, <2>1 DEF Scanned
  <2>2. CASE s + need = i + 1
    BY <1>1, <1>2, <2>2 DEF FreeIn, Blocks
  <2> QED BY <1>1, <1>2, <2>1, <2>2 DEF Blocks
<1>4. Scanned(t)'
  BY <1>1, <1>2, <1>3 DEF Scanned, FreeIn, Blocks
<1>5. Scanned(before.entries)'
  BY <1>4 DEF t
<1> QED BY <1>1, <1>5, Scanning

LEMMA ScanFreeInv ==
  ASSUME LoopInv, Loops!ScanFree, View
  PROVE  LoopInv' /\ UNCHANGED vars
<1> DEFINE t == before.entries
           s == IF bs = -1 THEN i ELSE bs
<1>1. /\ pc = "scan" /\ i < Total /\ ~ t[i].taken /\ Scanned(t) /\ need \in Nat
      /\ t \in [Blocks -> Entry]
      /\ bs' = s /\ bc' = bc + 1
      /\ \/ bc + 1 = need /\ pc' = "found"
         \/ bc + 1 # need /\ pc' = "scan" /\ i' = i + 1
      /\ UNCHANGED <<table, writes, live, ret, need, req, entry, freeing, before>>
  BY DEF Loops!ScanFree, LoopInv, MallocInv
<1>2. Total \in Nat /\ i \in Nat /\ bc \in Nat /\ t' = t
  BY <1>1, HeapAssumption DEF Scanned
<1>3. CASE bc + 1 = need /\ pc' = "found"
  <2>1. bs' = heap_get_next_free_block(t, need)
    BY <1>1, <1>2, <1>3, FoundRun
  <2> QED BY <1>1, <1>3, <2>1, Scanning
<1>4. CASE bc + 1 # need /\ pc' = "scan" /\ i' = i + 1
  <2>1. /\ s \in Blocks /\ s \in Nat /\ s <= i /\ bc + 1 = i + 1 - s
        /\ FreeIn(t, s, i) /\ (s = 0 \/ t[s - 1].taken)
    <3>1. CASE bs = -1
      BY <1>1, <1>2, <3>1 DEF Scanned, FreeIn, Blocks
    <3>2. CASE bs # -1
      <4>1. s = bs /\ s \in Blocks /\ bc = i - s /\ bc > 0 /\ (s = 0 \/ t[s - 1].taken)
        BY <1>1, <3>2 DEF Scanned
      <4>2. \A k \in s .. i - 1 : ~ t[k].taken
        BY <1>1, <3>2 DEF Scanned, FreeIn
      <4>3. s \in Nat /\ s <= i /\ \A k \in s .. i : k \in s .. i - 1 \/ k = i
        BY <1>2, <4>1 DEF Blocks
      <4> HIDE DEF s, t
      <4> QED BY <1>1, <1>2, <4>1, <4>2, <4>3 DEF FreeIn
    <3> QED BY <3>1, <3>2
  <2> HIDE DEF s, t
  <2>2. need > 0 => bc + 1 < need
    BY <1>1, <1>2, <1>4 DEF Scanned
  <2>3. \A x \in Blocks : need > 0 /\ x + need <= i + 1 => ~ FreeIn(t, x, x + need - 1)
    <3> SUFFICES ASSUME NEW x \in Blocks, need > 0, x + need <= i + 1,
                        FreeIn(t, x, x + need - 1)
                 PROVE  FALSE
      OBVIOUS
    <3>1. CASE x + need <= i
      BY <1>1, <3>1 DEF Scanned
    <3>2. CASE x + need = i + 1
      <4>1. x < s /\ x \in Nat
        BY <1>1, <1>2, <2>1, <2>2, <3>2 DEF Blocks
      <4>2. s - 1 \in x .. x + need - 1 /\ t[s - 1].taken
        BY <1>1, <1>2, <2>1, <3>2, <4>1
      <4> QED BY <4>2 DEF FreeIn
    <3> QED BY <1>1, <1>2, <3>1, <3>2 DEF Blocks
  <2>4. Scanned(t)'
    <3>1. i' \in 0 .. Total /\ bc' \in Nat /\ bs' \in Blocks /\ bs' # -1
      BY <1>1, <1>2, <1>4, <2>1
    <3>2. bc' = i' - bs' /\ bc' > 0 /\ i' - 1 = i
      BY <1>1, <1>2, <1>4, <2>1
    <3> QED BY <1>1, <1>2, <1>4, <2>1, <2>2, <2>3, <3>1, <3>2 DEF Scanned, FreeIn, Blocks
  <2>5. Scanned(before.entries)'
    BY <2>4 DEF t
  <2> QED BY <1>1, <1>4, <2>5, Scanning
<1> QED BY <1>1, <1>3, <1>4

LEMMA ScanEndInv ==
  ASSUME LoopInv, Loops!ScanEnd, View
  PROVE  LoopInv' /\ UNCHANGED vars
<1>1. /\ pc = "scan" /\ i = Total /\ pc' = "found"
      /\ UNCHANGED <<table, writes, live, ret, need, req, entry, freeing, before, bs>>
      /\ before.entries \in [Blocks -> Entry] /\ need \in Nat /\ Scanned(before.entries)
  BY DEF Loops!ScanEnd, Loops!locals, LoopInv, MallocInv
<1>2. bs = heap_get_next_free_block(before.entries, need)
  BY <1>1, FoundEnd
<1> QED BY <1>1, <1>2, Scanning
-----------------------------------------------------------------------------
(* The whole search gives a block or -1.                                   *)
LEMMA SearchType ==
  ASSUME NEW t, NEW n \in Nat
  PROVE  heap_get_next_free_block(t, n) \in Blocks \cup {-1}
<1> DEFINE fits == {x \in Blocks : n > 0 /\ FreeRun(t, x, n)}
           tails == {x \in Blocks : FreeRun(t, x, Total - x)}
<1>1. Total \in Nat /\ fits \in SUBSET (0 .. Total - 1) /\ tails \in SUBSET (0 .. Total - 1)
  BY HeapAssumption DEF Blocks
<1>2. fits # {} => Least(fits) \in fits
  BY <1>1, LeastExists
<1>3. tails # {} => Least(tails) \in tails
  BY <1>1, LeastExists
<1> QED BY <1>2, <1>3 DEF heap_get_next_free_block

(* A call that returns leaves the table as its callers see it.             *)
LEMMA Seen ==
  ASSUME LoopInv, View, pc # "idle", pc' = "idle"
  PROVE  /\ entries = before.entries /\ stray = before.stray
         /\ entries' = table' /\ stray' = writes'
BY DEF LoopInv, View, Table, Writes

(* The end of a malloc that has found nothing, and the marking loop of one *)
(* that has.                                                               *)
LEMMA NoSpaceInv ==
  ASSUME LoopInv, Loops!NoSpace, View
  PROVE  LoopInv' /\ \E size \in Sizes : heap_malloc(size)
<1>1. /\ pc = "found" /\ bs < 0 /\ ret' = NULL /\ pc' = "idle"
      /\ i' = 0 /\ bc' = 0 /\ bs' = -1 /\ freeing' = {}
      /\ UNCHANGED <<table, writes, live>>
  BY DEF Loops!NoSpace, Loops!Return, Loops!NULL, NULL
<1>2. /\ req \in Sizes /\ need = total_blocks(req)
      /\ table = before.entries /\ writes = before.stray
      /\ bs = heap_get_next_free_block(before.entries, need)
  BY <1>1 DEF LoopInv, MallocInv
<1>3. heap_malloc(req)
  BY <1>1, <1>2, Seen DEF heap_malloc
<1> QED BY <1>1, <1>2, <1>3 DEF LoopInv, View, MallocInv, FreeInv

LEMMA MarkBeginInv ==
  ASSUME LoopInv, Loops!MarkBegin, View
  PROVE  LoopInv' /\ UNCHANGED vars
<1>1. /\ pc = "found" /\ bs >= 0 /\ pc' = "mark" /\ i' = bs
      /\ entry' = [taken |-> TRUE, first |-> TRUE, next |-> need > 1]
      /\ UNCHANGED <<table, writes, live, ret, bc, bs, need, req, freeing, before>>
  BY DEF Loops!MarkBegin
<1>2. /\ req \in Sizes /\ need \in Nat /\ before.entries \in [Blocks -> Entry]
      /\ table = before.entries /\ writes = before.stray
      /\ bs = heap_get_next_free_block(before.entries, need)
  BY <1>1 DEF LoopInv, MallocInv
<1>3. bs \in Blocks /\ bs \in Nat
  BY <1>1, <1>2, SearchType, HeapAssumption DEF Blocks
<1>4. UNCHANGED vars
  BY <1>1, Unseen DEF vars
<1>5. Marked'
  <2>1. bs .. i' - 1 = {} /\ i' \in bs .. bs + need
    BY <1>1, <1>2, <1>3
  <2>2. table = [b \in Blocks |-> before.entries[b]]
    BY <1>2
  <2>3. i' < bs + need => (need > 1) = (i' # bs + need - 1)
    BY <1>1, <1>2, <1>3
  <2>4. (i' = bs) = TRUE
    BY <1>1
  <2>5. i' < bs + need =>
          entry' = [taken |-> TRUE, first |-> i' = bs, next |-> i' # bs + need - 1]
    BY <1>1, <2>3, <2>4, Zenon
  <2> QED BY <1>1, <1>2, <1>3, <2>1, <2>2, <2>5 DEF Marked
<1>6. MallocInv'
  BY <1>1, <1>2, <1>5 DEF LoopInv, MallocInv
<1> QED BY <1>1, <1>4, <1>6 DEF LoopInv, View, FreeInv

LEMMA MarkOneInv ==
  ASSUME LoopInv, Loops!MarkOne, View
  PROVE  LoopInv' /\ UNCHANGED vars
<1> DEFINE end == bs + need - 1
           old == before.entries
<1>1. /\ pc = "mark" /\ i <= end
      /\ \/ i \in Blocks /\ table' = [table EXCEPT ![i] = entry] /\ UNCHANGED writes
         \/ i \notin Blocks /\ writes' = writes \cup {i} /\ UNCHANGED table
      /\ entry' = [taken |-> TRUE, first |-> FALSE, next |-> i # end - 1]
      /\ i' = i + 1
      /\ UNCHANGED <<live, ret, pc, bc, bs, need, req, freeing, before>>
  BY DEF Loops!MarkOne, Loops!Blocks, Blocks
<1>2. /\ need \in Nat /\ old \in [Blocks -> Entry] /\ table \in [Blocks -> Entry] /\ Marked
  BY <1>1 DEF LoopInv, MallocInv
<1>3. bs \in Nat /\ i \in Nat /\ end \in Int /\ bs <= i /\ i + 1 <= bs + need /\ Total \in Nat
  BY <1>1, <1>2, HeapAssumption DEF Marked, Blocks
<1>4. bs .. i' - 1 = (bs .. i - 1) \cup {i} /\ i \notin bs .. i - 1
  BY <1>1, <1>3
<1>5. entry = [taken |-> TRUE, first |-> i = bs, next |-> i # end]
  BY <1>1, <1>2, <1>3 DEF Marked
<1>6. UNCHANGED vars
  BY <1>1, Unseen DEF vars
<1> HIDE DEF end, old
<1>7. table' = [b \in Blocks |->
        IF b \in bs .. i' - 1 THEN [taken |-> TRUE, first |-> b = bs, next |-> b # end]
        ELSE old[b]]
  BY <1>1, <1>2, <1>4, <1>5 DEF Marked, end, old
<1>8. writes' = before.stray \cup ((bs .. i' - 1) \ Blocks)
  BY <1>1, <1>2, <1>4 DEF Marked
<1>9. /\ i' \in bs .. bs + need
      /\ entry' = [taken |-> TRUE, first |-> i' = bs, next |-> i' # bs + need - 1]
  <2>1. i' \in bs .. bs + need /\ (i' = bs) = FALSE
    BY <1>1, <1>3
  <2>2. (i # end - 1) = (i' # bs + need - 1)
    BY <1>1, <1>3 DEF end
  <2> QED BY <1>1, <2>1, <2>2, Zenon
<1>10. Marked'
  BY <1>1, <1>2, <1>7, <1>8, <1>9 DEF Marked, end, old
<1>11. table' \in [Blocks -> Entry]
  <2>1. entry \in Entry
    BY <1>5 DEF Entry
  <2> QED BY <1>1, <1>2, <2>1
<1>12. MallocInv'
  BY <1>1, <1>10 DEF LoopInv, MallocInv
<1> QED BY <1>1, <1>6, <1>11, <1>12 DEF LoopInv, View, FreeInv

LEMMA MarkEndInv ==
  ASSUME LoopInv, Loops!MarkEnd, View
  PROVE  LoopInv' /\ \E size \in Sizes : heap_malloc(size)
<1>1. /\ pc = "mark" /\ i > bs + need - 1 /\ ret' = heap_block_to_address(bs)
      /\ live' = live \cup {[start |-> bs, blocks |-> need, size |-> req]}
      /\ pc' = "idle" /\ i' = 0 /\ bc' = 0 /\ bs' = -1 /\ freeing' = {}
      /\ UNCHANGED <<table, writes>>
  BY DEF Loops!MarkEnd, Loops!Return, Loops!Heap!heap_block_to_address, heap_block_to_address
<1>2. /\ req \in Sizes /\ need \in Nat /\ need = total_blocks(req)
      /\ bs = heap_get_next_free_block(before.entries, need) /\ Marked
  BY <1>1 DEF LoopInv, MallocInv
<1>3. bs \in Blocks /\ bs \in Nat /\ i - 1 = bs + need - 1
  <2>1. bs \in Blocks /\ bs \in Nat /\ i \in bs .. bs + need
    BY <1>2, HeapAssumption DEF Marked, Blocks
  <2> QED BY <1>1, <1>2, <2>1
<1>4. /\ table = heap_mark_blocks_taken(before.entries, bs, need)
      /\ writes = before.stray \cup ((bs .. bs + need - 1) \ Blocks)
  BY <1>2, <1>3 DEF Marked, heap_mark_blocks_taken
<1>5. heap_malloc(req)
  BY <1>1, <1>2, <1>3, <1>4, Seen DEF heap_malloc
<1> QED BY <1>1, <1>2, <1>3, <1>5 DEF LoopInv, View, MallocInv, FreeInv
-----------------------------------------------------------------------------
(* The steps of a free, of a chunk or of NULL.                             *)
LEMMA CallFreeInv ==
  ASSUME LoopInv, NEW c \in live, Loops!CallFree(c), View
  PROVE  LoopInv' /\ UNCHANGED vars
<1>1. /\ pc = "idle" /\ pc' = "free" /\ freeing' = {c}
      /\ i' = (SAddr + c.start) - SAddr
      /\ before' = [entries |-> table, stray |-> writes]
      /\ UNCHANGED <<table, writes, live, ret, bc, bs, need, req, entry>>
  BY DEF Loops!CallFree, Loops!Heap!heap_address_to_block, Loops!Heap!heap_block_to_address
<1>2. c.start \in Blocks /\ c.start \in Nat /\ i' = c.start /\ c.start <= Total
  BY <1>1, HeapAssumption DEF LoopInv, Blocks
<1>3. UNCHANGED vars
  BY <1>1, Unseen DEF vars
<1>4. table \in [Blocks -> Entry] /\ table = [b \in Blocks |-> table[b]]
  BY DEF LoopInv
<1>5. Cleared(c)'
  <2>1. c.start .. i' - 1 = {} /\ i' \in c.start .. Total
    BY <1>2, HeapAssumption
  <2> QED BY <1>1, <1>4, <2>1 DEF Cleared
<1>6. FreeChunkInv(c)'
  BY <1>1, <1>5 DEF FreeChunkInv
<1>7. FreeInv'
  BY <1>1, <1>4, <1>6 DEF FreeInv
<1> QED BY <1>1, <1>3, <1>7 DEF LoopInv, View, MallocInv

LEMMA CallFreeNullInv ==
  ASSUME LoopInv, Loops!CallFreeNull, View
  PROVE  LoopInv' /\ UNCHANGED vars
<1>1. /\ pc = "idle" /\ pc' = "free" /\ i' = 0 - SAddr
      /\ before' = [entries |-> table, stray |-> writes]
      /\ UNCHANGED <<table, writes, live, ret, bc, bs, need, req, entry, freeing>>
  BY DEF Loops!CallFreeNull, Loops!Heap!heap_address_to_block, Loops!NULL
<1>2. UNCHANGED vars
  BY <1>1, Unseen DEF vars
<1>3. -SAddr .. i' - 1 = {} /\ i' \in -SAddr .. -1
  BY <1>1, HeapAssumption
<1>4. FreeNullInv'
  BY <1>1, <1>3 DEF FreeNullInv, LoopInv
<1>5. FreeInv'
  BY <1>1, <1>4 DEF FreeInv, LoopInv
<1> QED BY <1>1, <1>2, <1>5 DEF LoopInv, View, MallocInv

(* While the loop of a free runs, only it changes.                         *)
LEMMA Clearing ==
  ASSUME LoopInv, View, pc = "free", pc' \in {"free", "freed"},
         UNCHANGED <<live, ret, need, req, entry, freeing, before>>,
         table' \in [Blocks -> Entry],
         (\E c \in live : FreeChunkInv(c)') \/ FreeNullInv'
  PROVE  LoopInv' /\ UNCHANGED vars
<1>1. UNCHANGED vars
  BY Unseen DEF vars
<1>2. FreeInv'
  BY DEF FreeInv, LoopInv
<1> QED BY <1>1, <1>2 DEF LoopInv, View, MallocInv

LEMMA ClearOneInv ==
  ASSUME LoopInv, Loops!ClearOne, View
  PROVE  LoopInv' /\ UNCHANGED vars
<1> DEFINE old == before.entries
<1>1. /\ pc = "free" /\ i \in Blocks /\ table' = [table EXCEPT ![i] = FreeEntry]
      /\ \/ table[i].next /\ i' = i + 1 /\ pc' = "free"
         \/ ~ table[i].next /\ pc' = "freed" /\ i' = i
      /\ UNCHANGED <<writes, live, ret, bc, bs, need, req, entry, freeing, before>>
  BY DEF Loops!ClearOne, Loops!Blocks, Blocks, Loops!NoEntry, FreeEntry
<1>2. i \in Nat /\ i < Total /\ Total \in Nat /\ i \notin -SAddr .. -1
  BY <1>1, HeapAssumption DEF Blocks
<1>3. /\ table \in [Blocks -> Entry] /\ old \in [Blocks -> Entry]
      /\ \A c \in live : c.start \in Blocks
  BY <1>1 DEF LoopInv, FreeInv
<1>4. PICK c \in live : FreeChunkInv(c)
  BY <1>1, <1>2 DEF LoopInv, FreeInv, FreeNullInv
<1> DEFINE s == c.start
<1>5. /\ s \in Nat /\ s <= i
      /\ table = [b \in Blocks |-> IF b \in s .. i - 1 THEN FreeEntry ELSE old[b]]
      /\ \A k \in s .. i - 1 : old[k].next
  BY <1>1, <1>3, <1>4, HeapAssumption DEF FreeChunkInv, Cleared, Blocks
<1>6. s .. i = (s .. i - 1) \cup {i} /\ i \notin s .. i - 1
  BY <1>2, <1>5
<1> HIDE DEF s, old
<1>7. table' = [b \in Blocks |-> IF b \in s .. i THEN FreeEntry ELSE old[b]]
  BY <1>1, <1>5, <1>6
<1>8. table[i] = old[i]
  BY <1>1, <1>5, <1>6
<1>9. table' \in [Blocks -> Entry]
  BY <1>1, <1>3 DEF Entry, FreeEntry
<1>10. CASE table[i].next /\ i' = i + 1 /\ pc' = "free"
  <2>1. i' - 1 = i /\ i' \in s .. Total
    BY <1>2, <1>5, <1>10
  <2>2. \A k \in s .. i' - 1 : old[k].next
    BY <1>5, <1>6, <1>8, <1>10, <2>1
  <2>3. Cleared(c)'
    BY <1>1, <1>7, <2>1, <2>2 DEF Cleared, s, old
  <2>4. FreeChunkInv(c)'
    BY <1>1, <1>4, <1>10, <2>3 DEF FreeChunkInv
  <2> QED BY <1>1, <1>9, <1>10, <2>4, Clearing
<1>11. CASE ~ table[i].next /\ pc' = "freed" /\ i' = i
  <2>1. \A b \in s .. Total - 1 : (\A j \in s .. b - 1 : old[j].next) <=> b \in s .. i
    <3> SUFFICES ASSUME NEW b \in s .. Total - 1
                 PROVE  (\A j \in s .. b - 1 : old[j].next) <=> b \in s .. i
      OBVIOUS
    <3>1. CASE b <= i
      <4>1. \A j \in s .. b - 1 : j \in s .. i - 1
        BY <1>2, <1>5, <3>1
      <4> QED BY <1>2, <1>5, <3>1, <4>1
    <3>2. CASE b > i
      <4>1. i \in s .. b - 1 /\ ~ old[i].next
        BY <1>2, <1>5, <1>8, <1>11, <3>2
      <4> QED BY <1>2, <1>5, <3>2, <4>1
    <3> QED BY <1>2, <1>5, <3>1, <3>2
  <2>2. s .. i \subseteq s .. Total - 1
    BY <1>2, <1>5
  <2>3. FreedFrom(old, s) = s .. i
    BY <2>1, <2>2 DEF FreedFrom
  <2>4. table' = heap_mark_blocks_free(old, s)
    BY <1>7, <2>3 DEF heap_mark_blocks_free
  <2>5. FreeChunkInv(c)'
    BY <1>1, <1>4, <1>11, <2>4 DEF FreeChunkInv, s, old
  <2> QED BY <1>1, <1>9, <1>11, <2>5, Clearing
<1> QED BY <1>1, <1>10, <1>11

LEMMA ClearBelowInv ==
  ASSUME LoopInv, Loops!ClearBelow, View
  PROVE  LoopInv' /\ UNCHANGED vars
<1>1. /\ pc = "free" /\ i < 0 /\ writes' = writes \cup {i}
      /\ \/ i' = i + 1 /\ i' < 0 /\ pc' = "free"
         \/ pc' = "freed" /\ i' = i
      /\ UNCHANGED <<table, live, ret, bc, bs, need, req, entry, freeing, before>>
  BY DEF Loops!ClearBelow
<1>2. SAddr \in Nat /\ Total \in Nat
  BY HeapAssumption
<1>3. FreeNullInv
  <2> SUFFICES ASSUME NEW c \in live, FreeChunkInv(c) PROVE FALSE
    BY <1>1 DEF LoopInv, FreeInv
  <2>1. c.start \in Nat /\ i \in c.start .. Total
    BY <1>1, <1>2 DEF FreeChunkInv, Cleared, LoopInv, Blocks
  <2> QED BY <1>1, <1>2, <2>1
<1>4. freeing = {} /\ table = before.entries /\ i \in -SAddr .. -1
      /\ writes = before.stray \cup (-SAddr .. i - 1)
  BY <1>1, <1>3 DEF FreeNullInv
<1>5. -SAddr .. i = (-SAddr .. i - 1) \cup {i}
  BY <1>2, <1>4
<1>6. writes' = before.stray \cup (-SAddr .. i)
  BY <1>1, <1>4, <1>5
<1>7. CASE i' = i + 1 /\ i' < 0 /\ pc' = "free"
  <2>1. i' - 1 = i /\ i' \in -SAddr .. -1
    BY <1>2, <1>4, <1>7
  <2>2. FreeNullInv'
    BY <1>1, <1>4, <1>6, <1>7, <2>1 DEF FreeNullInv
  <2> QED BY <1>1, <1>7, <2>2, Clearing DEF LoopInv
<1>8. CASE pc' = "freed" /\ i' = i
  <2>1. FreeNullInv'
    BY <1>1, <1>4, <1>6, <1>8 DEF FreeNullInv
  <2> QED BY <1>1, <1>8, <2>1, Clearing DEF LoopInv
<1> QED BY <1>1, <1>7, <1>8

LEMMA ClearEndInv ==
  ASSUME LoopInv, Loops!ClearEnd, View
  PROVE  LoopInv' /\ UNCHANGED vars
<1>1. /\ pc = "free" /\ i = Total /\ pc' = "freed"
      /\ UNCHANGED <<table, writes, live, ret, i, bc, bs, need, req, entry, freeing, before>>
  BY DEF Loops!ClearEnd, Loops!locals
<1>2. Total \in Nat /\ i \notin -SAddr .. -1
  BY <1>1, HeapAssumption
<1>3. PICK c \in live : FreeChunkInv(c)
  BY <1>1, <1>2 DEF LoopInv, FreeInv, FreeNullInv
<1>4. Cleared(c)
  BY <1>1, <1>3 DEF FreeChunkInv
<1>5. c.start \in Nat
  BY HeapAssumption DEF LoopInv, Blocks
<1>6. FreedFrom(before.entries, c.start) = c.start .. Total - 1
  BY <1>1, <1>2, <1>4, <1>5 DEF FreedFrom, Cleared
<1>7. table = heap_mark_blocks_free(before.entries, c.start)
  BY <1>1, <1>4, <1>6 DEF Cleared, heap_mark_blocks_free
<1>8. FreeChunkInv(c)'
  BY <1>1, <1>3, <1>7 DEF FreeChunkInv
<1> QED BY <1>1, <1>8, Clearing DEF LoopInv

LEMMA FreeReturnsInv ==
  ASSUME LoopInv, Loops!FreeReturns, View
  PROVE  LoopInv' /\ ((\E c \in live : heap_free(c)) \/ heap_free_null)
<1>1. /\ pc = "freed" /\ live' = live \ freeing /\ pc' = "idle"
      /\ i' = 0 /\ bc' = 0 /\ bs' = -1 /\ freeing' = {}
      /\ UNCHANGED <<table, writes, ret>>
  BY DEF Loops!FreeReturns, Loops!Return
<1>2. LoopInv'
  BY <1>1 DEF LoopInv, View, MallocInv, FreeInv
<1>3. /\ entries = before.entries /\ stray = before.stray
      /\ entries' = table /\ stray' = writes
  BY <1>1, Seen
<1>4. ASSUME NEW c \in live, FreeChunkInv(c)
      PROVE  heap_free(c)
  <2>1. /\ freeing = {c} /\ writes = before.stray
        /\ table = heap_mark_blocks_free(before.entries, c.start)
    BY <1>1, <1>4 DEF FreeChunkInv
  <2>2. heap_address_to_block(heap_block_to_address(c.start)) = c.start
    BY HeapAssumption DEF LoopInv, Blocks, heap_address_to_block, heap_block_to_address
  <2> QED BY <1>1, <1>3, <2>1, <2>2 DEF heap_free
<1>5. ASSUME FreeNullInv
      PROVE  heap_free_null
  <2>1. heap_address_to_block(NULL) = -SAddr
    BY HeapAssumption DEF heap_address_to_block, NULL
  <2>2. /\ freeing = {} /\ table = before.entries
        /\ \E last \in -SAddr .. -1 : writes = before.stray \cup (-SAddr .. last)
    BY <1>1, <1>5 DEF FreeNullInv
  <2>3. live' = live
    BY <1>1, <2>2
  <2>4. \E last \in -SAddr .. -1 : stray' = stray \cup (-SAddr .. last)
    BY <1>3, <2>2
  <2> QED BY <1>1, <1>3, <2>1, <2>2, <2>3, <2>4 DEF heap_free_null
<1> QED BY <1>1, <1>2, <1>4, <1>5 DEF LoopInv, FreeInv
-----------------------------------------------------------------------------
(* Together they show that the invariant holds and that each iteration is  *)
(* a step of KHeap or none.                                                *)
LEMMA LoopsBegin == LoopInit => LoopInv /\ Init
<1> SUFFICES ASSUME LoopInit PROVE LoopInv /\ Init
  OBVIOUS
<1>1. /\ table = [b \in Blocks |-> FreeEntry] /\ writes = {} /\ live = {} /\ ret = NULL
      /\ pc = "idle" /\ i = 0 /\ bc = 0 /\ bs = -1 /\ freeing = {}
      /\ entries = Table /\ stray = Writes
  BY DEF LoopInit, Loops!Init, Loops!Blocks, Blocks, Loops!NoEntry, FreeEntry, Loops!NULL, NULL
<1>2. table \in [Blocks -> Entry]
  BY <1>1 DEF FreeEntry, Entry
<1> QED BY <1>1, <1>2 DEF LoopInv, Init, Table, Writes, MallocInv, FreeInv

LEMMA LoopsStep ==
  ASSUME LoopInv, [LoopNext]_allvars
  PROVE  LoopInv' /\ [Next]_vars
<1>1. ASSUME UNCHANGED allvars
      PROVE  LoopInv' /\ UNCHANGED vars
  BY <1>1 DEF allvars, vars, LoopInv, Table, Writes, MallocInv, Scanned, FreeIn, Marked,
              FreeInv, FreeChunkInv, FreeNullInv, Cleared
<1>2. ASSUME LoopNext
      PROVE  LoopInv' /\ [Next]_vars
  <2>1. View
    BY <1>2 DEF LoopNext, View
  <2>2. ASSUME NEW size \in Sizes, Loops!CallMalloc(size)
        PROVE  LoopInv' /\ UNCHANGED vars
    BY <2>1, <2>2, CallMallocInv
  <2>3. ASSUME NEW c \in live, Loops!CallFree(c)
        PROVE  LoopInv' /\ UNCHANGED vars
    BY <2>1, <2>3, CallFreeInv
  <2>4. ASSUME Loops!CallFreeNull
        PROVE  LoopInv' /\ UNCHANGED vars
    BY <2>1, <2>4, CallFreeNullInv
  <2>5. ASSUME Loops!Iterate
        PROVE  LoopInv' /\ (Next \/ UNCHANGED vars)
    BY <2>1, <2>5, ScanTakenInv, ScanFreeInv, ScanEndInv, NoSpaceInv, MarkBeginInv,
       MarkOneInv, MarkEndInv, ClearOneInv, ClearBelowInv, ClearEndInv, FreeReturnsInv
       DEF Loops!Iterate, Next
  <2> QED BY <1>2, <2>2, <2>3, <2>4, <2>5 DEF LoopNext, Loops!Next
<1> QED BY <1>1, <1>2

(* heap.c's loops, iteration by iteration, are the whole calls of KHeap:   *)
(* the search finds the first run that is long enough, or the short one at *)
(* the end, and what is marked and cleared is what KHeap says.             *)
THEOREM HeapLoopsImplementCalls == LoopSpec => ImplementsKHeap
<1>1. LoopSpec => []LoopInv
  BY LoopsBegin, LoopsStep, PTL DEF LoopSpec
<1>2. LoopInv /\ [LoopNext]_allvars => [Next]_vars
  BY LoopsStep
<1> QED BY <1>1, <1>2, LoopsBegin, PTL DEF LoopSpec, ImplementsKHeap, Spec

(* So the loops implement the allocator too, and never hand out a block    *)
(* that another caller holds.                                              *)
THEOREM HeapLoopsAllocate ==
  NonzeroRequests => (LoopSpec => ImplementsAllocator /\ []ChunksDisjoint)
BY HeapLoopsImplementCalls, HeapImplementsAllocator, HeapChunksDisjoint DEF ImplementsKHeap

(* What is still to be done of a call: the iterations of the loop at most, *)
(* and the lines behind it.                                                *)
ToDo ==
  CASE pc = "idle" -> 0
    [] pc = "scan" -> (Total - i) + need + 3
    [] pc = "found" -> need + 2
    [] pc = "mark" -> (bs + need - i) + 1
    [] pc = "free" -> (Total - i) + 2
    [] pc = "freed" -> 1

(* Both loops that look at the table stop where one of their guards holds: *)
(* inside the table, or at its end, or below it for an address that is no  *)
(* block.                                                                  *)
Guarded ==
  /\ pc = "scan" => i \in Blocks \/ i = Total
  /\ pc = "free" => i \in Blocks \/ i < 0 \/ i = Total

(* What the search leaves.                                                 *)
LEMMA FoundType ==
  ASSUME LoopInv, pc = "found"
  PROVE  need \in Nat /\ bs \in Int
<1>1. need \in Nat /\ bs = heap_get_next_free_block(before.entries, need)
  BY DEF LoopInv, MallocInv
<1>2. bs \in Blocks \cup {-1}
  BY <1>1, SearchType
<1> QED BY <1>1, <1>2, HeapAssumption DEF Blocks

(* Freeing never looks behind the table.                                   *)
LEMMA FreeIndex ==
  ASSUME LoopInv, pc = "free"
  PROVE  i \in Int /\ i <= Total
<1>0. Total \in Nat \ {0} /\ SAddr \in Nat
  BY HeapAssumption
<1>1. CASE FreeNullInv
  BY <1>0, <1>1 DEF FreeNullInv
<1>2. CASE \E c \in live : FreeChunkInv(c)
  BY <1>0, <1>2 DEF FreeChunkInv, Cleared, LoopInv, Blocks
<1> QED BY <1>1, <1>2 DEF LoopInv, FreeInv

(* The count is one, and there is something to do until the call returns.  *)
LEMMA ToDoIs ==
  ASSUME LoopInv
  PROVE  ToDo \in Nat /\ (pc # "idle" => ToDo > 0) /\ Guarded
<1>0. Total \in Nat \ {0} /\ SAddr \in Nat
  BY HeapAssumption
<1>1. CASE pc = "idle"
  BY <1>1 DEF ToDo, Guarded
<1>2. CASE pc = "scan"
  <2>1. i \in 0 .. Total /\ need \in Nat
    BY <1>2 DEF LoopInv, MallocInv, Scanned
  <2> QED BY <1>0, <1>2, <2>1 DEF ToDo, Guarded, Blocks
<1>3. CASE pc = "found"
  <2>1. need \in Nat /\ bs \in Int
    BY <1>3, FoundType
  <2> QED BY <1>3, <2>1 DEF ToDo, Guarded
<1>4. CASE pc = "mark"
  <2>1. need \in Nat /\ bs \in Blocks /\ i \in bs .. bs + need
    BY <1>4 DEF LoopInv, MallocInv, Marked
  <2> QED BY <1>0, <1>4, <2>1 DEF ToDo, Guarded, Blocks
<1>5. CASE pc = "free"
  <2>1. i \in Int /\ i <= Total
    BY <1>5, FreeIndex
  <2> QED BY <1>0, <1>5, <2>1 DEF ToDo, Guarded, Blocks
<1>6. CASE pc = "freed"
  BY <1>6 DEF ToDo, Guarded
<1> QED BY <1>1, <1>2, <1>3, <1>4, <1>5, <1>6 DEF LoopInv

(* Every iteration does some of it.                                        *)
LEMMA LessToDo ==
  ASSUME LoopInv, LoopInv', Loops!Iterate
  PROVE  ToDo' < ToDo
<1>0. Total \in Nat \ {0} /\ ToDo \in Nat /\ (pc # "idle" => ToDo > 0)
  BY HeapAssumption, ToDoIs
<1>1. CASE pc = "scan"
  <2>1. i \in 0 .. Total /\ need \in Nat
    BY <1>1 DEF LoopInv, MallocInv, Scanned
  <2>2. need' = need /\ ((pc' = "scan" /\ i' = i + 1) \/ pc' = "found")
    BY <1>1 DEF Loops!Iterate, Loops!ScanTaken, Loops!ScanFree, Loops!ScanEnd, Loops!NoSpace,
          Loops!MarkBegin, Loops!MarkOne, Loops!MarkEnd, Loops!ClearOne, Loops!ClearBelow,
          Loops!ClearEnd, Loops!FreeReturns, Loops!locals
  <2> QED BY <1>0, <1>1, <2>1, <2>2 DEF ToDo
<1>2. CASE pc = "found"
  <2>1. need \in Nat
    BY <1>2 DEF LoopInv, MallocInv
  <2>2. pc' = "idle" \/ (pc' = "mark" /\ i' = bs /\ bs' = bs /\ need' = need)
    BY <1>2 DEF Loops!Iterate, Loops!ScanTaken, Loops!ScanFree, Loops!ScanEnd, Loops!NoSpace,
          Loops!MarkBegin, Loops!MarkOne, Loops!MarkEnd, Loops!ClearOne, Loops!ClearBelow,
          Loops!ClearEnd, Loops!FreeReturns, Loops!Return
  <2>3. bs \in Int
    BY <1>2, FoundType
  <2> QED BY <1>2, <2>1, <2>2, <2>3 DEF ToDo
<1>3. CASE pc = "mark"
  <2>1. need \in Nat /\ bs \in Nat /\ i \in bs .. bs + need
    BY <1>0, <1>3 DEF LoopInv, MallocInv, Marked, Blocks
  <2>2. pc' = "idle" \/ (pc' = "mark" /\ i' = i + 1 /\ bs' = bs /\ need' = need)
    BY <1>3 DEF Loops!Iterate, Loops!ScanTaken, Loops!ScanFree, Loops!ScanEnd, Loops!NoSpace,
          Loops!MarkBegin, Loops!MarkOne, Loops!MarkEnd, Loops!ClearOne, Loops!ClearBelow,
          Loops!ClearEnd, Loops!FreeReturns, Loops!Return
  <2> QED BY <1>3, <2>1, <2>2 DEF ToDo
<1>4. CASE pc \in {"free", "freed"}
  <2>1. \/ pc' = "idle" /\ pc = "freed"
        \/ pc' = "freed" /\ pc = "free"
        \/ pc' = "free" /\ pc = "free" /\ i' = i + 1
    BY <1>4 DEF Loops!Iterate, Loops!ScanTaken, Loops!ScanFree, Loops!ScanEnd, Loops!NoSpace,
          Loops!MarkBegin, Loops!MarkOne, Loops!MarkEnd, Loops!ClearOne, Loops!ClearBelow,
          Loops!ClearEnd, Loops!FreeReturns, Loops!Return
  <2>2. pc = "free" => i \in Int /\ i <= Total
    BY FreeIndex
  <2> QED BY <1>0, <2>1, <2>2 DEF ToDo
<1>5. pc # "idle"
  BY DEF Loops!Iterate, Loops!ScanTaken, Loops!ScanFree, Loops!ScanEnd, Loops!NoSpace,
          Loops!MarkBegin, Loops!MarkOne, Loops!MarkEnd, Loops!ClearOne, Loops!ClearBelow,
          Loops!ClearEnd, Loops!FreeReturns
<1> QED BY <1>1, <1>2, <1>3, <1>4, <1>5 DEF LoopInv

(* kmalloc and kfree get on: the loops of heap.c never reach an index      *)
(* where neither the body nor the end of the loop is next, and each        *)
(* iteration leaves less to do, so that a call that is scheduled returns,  *)
(* whatever the table.                                                     *)
THEOREM HeapCallsGetOn ==
  LoopSpec => [](ToDo \in Nat /\ Guarded) /\ [][Loops!Iterate => ToDo' < ToDo]_allvars
<1>1. LoopSpec => []LoopInv
  BY LoopsBegin, LoopsStep, PTL DEF LoopSpec
<1>2. LoopInv => ToDo \in Nat /\ Guarded
  BY ToDoIs
<1>3. LoopInv /\ LoopInv' /\ [LoopNext]_allvars => [Loops!Iterate => ToDo' < ToDo]_allvars
  BY LessToDo
<1> QED BY <1>1, <1>2, <1>3, PTL DEF LoopSpec
=============================================================================
