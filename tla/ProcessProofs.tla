--------------------------- MODULE ProcessProofs ----------------------------
(***************************************************************************)
(* Proofs about Process, for any number of processes, programs of any      *)
(* size, and any heap, size of page and layout that LayoutAssumption       *)
(* allows.                                                                 *)
(***************************************************************************)
EXTENDS Process, TLAPS

HeapFacts == INSTANCE KHeapProofs WITH
  Total <- HeapPages, SAddr <- HeapStart, BlockSize <- PageSize,
  \* whole calls: no loop is under way
  table <- entries, writes <- stray, pc <- "idle", i <- 0, bc <- 0, bs <- -1,
  need <- 0, req <- 0, entry <- Heap!FreeEntry, freeing <- {},
  before <- [entries |-> <<>>, stray |-> {}]

(* The pages that hold so many bytes.                                      *)
PagesFor(bytes) == Heap!total_blocks(bytes)

(* Somebody has asked the heap for that much and got it at address a.      *)
HeldIn(chunks, a, bytes) ==
  \E c \in chunks : a = Heap!heap_block_to_address(c.start) /\ c.blocks = PagesFor(bytes)

Held(a, bytes) == HeldIn(live, a, bytes)

(* The address space that process_map_memory makes.                        *)
Memory(p) ==
  Mapped(Mapped(Space!Identity(TaskFlags), ProgramPage, p.ptr, p.size),
         StackPage, p.stack, StackSize)

Pointers(p) == {p.ptr, p.stack, p.task}

(* A process in the table holds its memory and runs on it.                 *)
Sound(p) ==
  /\ p.size \in Files /\ p.size > 0
  /\ Held(p.ptr, p.size) /\ Held(p.stack, StackSize) /\ Held(p.task, PageSize)
  /\ p.task \in DOMAIN space /\ space[p.task] = Memory(p)

(* No two processes share a pointer.                                       *)
LoadedInv ==
  /\ DOMAIN processes = Slots
  /\ \A s \in Loaded : Sound(processes[s])
  /\ \A s, r \in Loaded : s # r => Pointers(processes[s]) \cap Pointers(processes[r]) = {}
  /\ \A t \in DOMAIN space : Held(t, PageSize)

(* What process_load_for_slot has gathered for the next process by now, in *)
(* the order it does, and shares with none.                                *)
Gathered ==
  (IF pc \in {"stack", "task", "map"} THEN {process.ptr} ELSE {})
    \cup (IF pc \in {"task", "map"} THEN {process.stack} ELSE {})
    \cup (IF pc = "map" THEN {process.task} ELSE {})

LoadingInv ==
  /\ DOMAIN process = DOMAIN NoProcess /\ process = [f \in DOMAIN process |-> process[f]]
  /\ \A s \in Loaded : Gathered \cap Pointers(processes[s]) = {}
  /\ pc = "image" => size \in Files
  /\ pc \in {"stack", "task", "map"} =>
       process.size \in Files /\ process.size > 0 /\ Held(process.ptr, process.size)
  /\ pc \in {"task", "map"} => Held(process.stack, StackSize)
  /\ pc = "map" =>
       /\ Held(process.task, PageSize)
       /\ process.task \in DOMAIN space /\ space[process.task] = Space!Identity(TaskFlags)

IInv == HeapFacts!Covered /\ LoadedInv /\ LoadingInv
-----------------------------------------------------------------------------
(* The quotient and the remainder of a division exist and are unique.      *)
LEMMA Divided ==
  ASSUME NEW d \in Nat \ {0}, NEW n \in Nat
  PROVE  /\ n \div d \in Nat /\ n % d \in 0 .. d - 1
         /\ n = (n \div d) * d + (n % d)
OBVIOUS

LEMMA Division ==
  ASSUME NEW d \in Nat \ {0}, NEW q \in Nat, NEW r \in 0 .. d - 1
  PROVE  (q * d + r) \div d = q /\ (q * d + r) % d = r
OBVIOUS

(* KHeap's assumption holds for the heap of the kernel.                    *)
LEMMA HeapAssumed ==
  /\ HeapPages \in Nat \ {0} /\ HeapStart \in Nat \ {0} /\ PageSize \in Nat \ {0}
  /\ Word \in Nat /\ Word > PageSize /\ Word % PageSize = 0
  /\ Sizes \subseteq 0 .. Word - 1
<1>1. /\ PageSize \in Nat \ {0} /\ StackSize \in Nat \ {0} /\ Files \subseteq Nat
      /\ Word \in Nat /\ \A bytes \in Sizes : bytes + PageSize <= Word
  BY ProcessAssumption
<1>2. PageSize \in Sizes /\ Sizes \subseteq Nat
  BY <1>1 DEF Sizes
<1>3. PageSize + PageSize <= Word
  BY <1>1, <1>2
<1> QED BY <1>1, <1>2, <1>3, ProcessAssumption

(* Rounding up loses no byte, and process_map_binary, which rounds the end *)
(* of the image up to a page, arrives at as many pages as the heap gave.   *)
LEMMA PagesForBytes ==
  ASSUME NEW bytes \in Sizes
  PROVE  /\ PagesFor(bytes) \in Nat
         /\ bytes > 0 => PagesFor(bytes) > 0
         /\ \A k \in 0 .. bytes - 1 : k \div PageSize \in 0 .. PagesFor(bytes) - 1
         /\ \A ptr \in Nat :
              paging_align_address(ptr * PageSize + bytes) \div PageSize - ptr = PagesFor(bytes)
<1> DEFINE q == bytes \div PageSize
           r == bytes % PageSize
           up == IF r = 0 THEN q ELSE q + 1
<1>1. /\ PageSize \in Nat \ {0} /\ Word \in Nat
      /\ bytes \in Nat /\ bytes + PageSize <= Word
  BY HeapAssumed, ProcessAssumption
<1>2. q \in Nat /\ r \in 0 .. PageSize - 1 /\ bytes = q * PageSize + r
  BY <1>1, Divided
<1> HIDE DEF q
<1>3. bytes - r + PageSize = (q + 1) * PageSize /\ bytes - r = q * PageSize
      /\ q * PageSize \in Nat /\ (q + 1) * PageSize \in Nat
  <2> HIDE DEF r
  <2> QED BY <1>1, <1>2
<1>4. (q * PageSize) \div PageSize = q /\ ((q + 1) * PageSize) \div PageSize = q + 1
  <2>1. 0 \in 0 .. PageSize - 1
    BY <1>1
  <2>2. (q * PageSize + 0) \div PageSize = q
    BY <1>1, <1>2, <2>1, Division
  <2>3. ((q + 1) * PageSize + 0) \div PageSize = q + 1
    BY <1>1, <1>2, <2>1, Division
  <2> QED BY <1>3, <2>2, <2>3
<1>5. PagesFor(bytes) = up
  <2>1. CASE r = 0
    <3>1. Heap!heap_align_value_to_upper(bytes) = q * PageSize
      BY <1>1, <1>3, <2>1 DEF Heap!heap_align_value_to_upper
    <3> QED BY <1>4, <2>1, <3>1 DEF PagesFor, Heap!total_blocks
  <2>2. CASE r # 0
    <3> DEFINE v == (q + 1) * PageSize
    <3>1. v \in Nat /\ v < Word
      <4> HIDE DEF r
      <4> QED BY <1>1, <1>2, <1>3, <2>2
    <3> HIDE DEF v
    <3>2. v % Word = v
      BY <1>1, <3>1
    <3>3. Heap!heap_align_value_to_upper(bytes) = (q + 1) * PageSize
      BY <1>3, <2>2, <3>2 DEF Heap!heap_align_value_to_upper, v
    <3> QED BY <1>4, <2>2, <3>3 DEF PagesFor, Heap!total_blocks
  <2> QED BY <2>1, <2>2
<1>6. up \in Nat /\ (bytes > 0 => up > 0)
  <2> HIDE DEF r
  <2>1. up \in Nat
    BY <1>2
  <2>2. q = 0 => q * PageSize = 0
    BY <1>1
  <2>3. bytes > 0 => up > 0
    BY <1>1, <1>2, <1>3, <2>2
  <2> QED BY <2>1, <2>3
<1>7. ASSUME NEW k \in 0 .. bytes - 1 PROVE k \div PageSize \in 0 .. up - 1
  <2> DEFINE p == k \div PageSize
             t == k % PageSize
  <2>1. k \in Nat /\ p \in Nat /\ t \in 0 .. PageSize - 1 /\ k = p * PageSize + t
    <3>1. k \in Nat
      BY <1>1
    <3> HIDE DEF r
    <3> QED BY <1>1, <3>1, Divided
  <2>2. k < bytes
    BY <1>1
  <2> HIDE DEF p, t, r
  <2>3. ASSUME p >= up PROVE FALSE
    <3>1. p * PageSize >= up * PageSize /\ p * PageSize \in Nat /\ up * PageSize \in Nat
      BY <1>1, <1>6, <2>1, <2>3
    <3>2. CASE r = 0
      <4>1. up * PageSize = bytes
        BY <1>1, <1>2, <1>3, <3>2
      <4> HIDE DEF up
      <4> QED BY <1>1, <2>1, <2>2, <3>1, <4>1
    <3>3. CASE r # 0
      <4>1. up * PageSize = bytes - r + PageSize
        BY <1>3, <3>3
      <4> HIDE DEF up
      <4> QED BY <1>1, <1>2, <2>1, <2>2, <3>1, <4>1
    <3> QED BY <3>2, <3>3
  <2>4. p < up
    <3> HIDE DEF up
    <3> QED BY <1>6, <2>1, <2>3
  <2> QED BY <1>6, <2>1, <2>4 DEF p
<1>8. ASSUME NEW ptr \in Nat
      PROVE  paging_align_address(ptr * PageSize + bytes) \div PageSize - ptr = up
  <2> DEFINE a == ptr * PageSize + bytes
  <2>1. a = (ptr + q) * PageSize + r /\ ptr + q \in Nat /\ a \in Nat
        /\ (ptr + q) * PageSize \in Nat /\ (ptr + q + 1) * PageSize \in Nat
    <3> HIDE DEF r
    <3> QED BY <1>1, <1>2
  <2>2. a % PageSize = r
    <3> HIDE DEF a, r
    <3>1. ((ptr + q) * PageSize + r) % PageSize = r
      BY <1>1, <1>2, <2>1, Division
    <3> QED BY <2>1, <3>1
  <2>3. ((ptr + q) * PageSize) \div PageSize = ptr + q
        /\ ((ptr + q + 1) * PageSize) \div PageSize = ptr + q + 1
    <3>1. 0 \in 0 .. PageSize - 1 /\ ptr + q + 1 \in Nat
      BY <1>1, <2>1
    <3>2. ((ptr + q) * PageSize + 0) \div PageSize = ptr + q
      BY <1>1, <2>1, <3>1, Division
    <3>3. ((ptr + q + 1) * PageSize + 0) \div PageSize = ptr + q + 1
      BY <1>1, <3>1, Division
    <3> QED BY <2>1, <3>2, <3>3
  <2> HIDE DEF a, r
  <2>4. CASE r = 0
    <3>1. paging_align_address(a) = (ptr + q) * PageSize
      BY <2>1, <2>2, <2>4 DEF paging_align_address
    <3>2. paging_align_address(a) \div PageSize - ptr = q
      BY <1>2, <2>3, <3>1
    <3> QED BY <2>4, <3>2 DEF a
  <2>5. CASE r # 0
    <3>1. a - r + PageSize = (ptr + q + 1) * PageSize
      BY <1>1, <1>2, <2>1
    <3>2. paging_align_address(a) = (ptr + q + 1) * PageSize
      BY <2>2, <2>5, <3>1 DEF paging_align_address
    <3>3. paging_align_address(a) \div PageSize - ptr = q + 1
      BY <1>2, <2>3, <3>2
    <3> QED BY <2>5, <3>3 DEF a
  <2> QED BY <2>4, <2>5
<1> QED BY <1>5, <1>6, <1>7, <1>8
-----------------------------------------------------------------------------
(* kmalloc keeps what is held and hands out an address that nobody holds   *)
(* memory at.                                                              *)
LEMMA Malloc ==
  ASSUME HeapFacts!Covered, NEW bytes \in Sizes, Heap!heap_malloc(bytes)
  PROVE  /\ HeapFacts!Covered'
         /\ \A a, n : Held(a, n) => HeldIn(live', a, n)
         /\ ret' # NULL =>
              /\ HeldIn(live', ret', bytes)
              /\ \A a : \A n \in Sizes : n > 0 /\ Held(a, n) => a # ret'
<1>0. /\ PagesFor(bytes) \in Nat /\ HeapFacts!total_blocks(bytes) = PagesFor(bytes)
      /\ HeapStart \in Nat /\ HeapPages \in Nat
  BY PagesForBytes, HeapAssumed
     DEF PagesFor, Heap!total_blocks, Heap!heap_align_value_to_upper,
         HeapFacts!total_blocks, HeapFacts!heap_align_value_to_upper
<1>1. HeapFacts!heap_malloc(bytes)
  BY DEF Heap!heap_malloc, Heap!heap_get_next_free_block, Heap!FreeRun, Heap!Blocks,
         Heap!Least, Heap!total_blocks, Heap!heap_align_value_to_upper, Heap!NULL,
         Heap!heap_block_to_address, Heap!heap_mark_blocks_taken,
         HeapFacts!heap_malloc, HeapFacts!heap_get_next_free_block, HeapFacts!FreeRun,
         HeapFacts!Blocks, HeapFacts!Least, HeapFacts!total_blocks,
         HeapFacts!heap_align_value_to_upper, HeapFacts!NULL,
         HeapFacts!heap_block_to_address, HeapFacts!heap_mark_blocks_taken
<1>2. /\ HeapFacts!Covered'
      /\ \/ ret' = HeapFacts!NULL /\ live' = live
         \/ /\ ret' # HeapFacts!NULL
            /\ \E s \in HeapFacts!Blocks :
                 /\ ret' = HeapFacts!heap_block_to_address(s) /\ ~ entries[s].taken
                 /\ live' = live \cup
                      {[start |-> s, blocks |-> HeapFacts!total_blocks(bytes), size |-> bytes]}
  BY <1>0, <1>1, HeapFacts!MallocCovered, HeapAssumed DEF HeapFacts!HeapAssumption
<1>3. \A a, n : Held(a, n) => HeldIn(live', a, n)
  BY <1>2 DEF Held, HeldIn
<1>4. ASSUME ret' # NULL
      PROVE  /\ HeldIn(live', ret', bytes)
             /\ \A a : \A n \in Sizes : n > 0 /\ Held(a, n) => a # ret'
  <2>1. PICK s \in 0 .. HeapPages - 1 :
          /\ ret' = HeapStart + s /\ ~ entries[s].taken
          /\ live' = live \cup {[start |-> s, blocks |-> PagesFor(bytes), size |-> bytes]}
    BY <1>0, <1>2, <1>4
       DEF NULL, HeapFacts!NULL, HeapFacts!Blocks, HeapFacts!heap_block_to_address
  <2>2. HeldIn(live', ret', bytes)
    <3> DEFINE new == [start |-> s, blocks |-> PagesFor(bytes), size |-> bytes]
    <3>1. /\ new \in live' /\ ret' = Heap!heap_block_to_address(new.start)
          /\ new.blocks = PagesFor(bytes)
      BY <2>1 DEF Heap!heap_block_to_address
    <3> HIDE DEF new
    <3> QED BY <3>1 DEF HeldIn
  <2>3. ASSUME NEW a, NEW n \in Sizes, n > 0, Held(a, n), a = ret' PROVE FALSE
    <3>1. PICK c \in live : a = HeapStart + c.start /\ c.blocks = PagesFor(n)
      BY <2>3 DEF Held, HeldIn, Heap!heap_block_to_address
    <3>2. c.start \in 0 .. HeapPages - 1 /\ c.blocks \in Nat /\ c.blocks > 0
      BY <2>3, <3>1, PagesForBytes DEF HeapFacts!Covered, HeapFacts!Blocks
    <3>3. c.start = s
      BY <1>0, <2>1, <2>3, <3>1, <3>2
    <3>4. c.start \in HeapFacts!Owned(c)
      BY <3>2 DEF HeapFacts!Owned
    <3> QED BY <2>1, <3>2, <3>3, <3>4 DEF HeapFacts!Covered, HeapFacts!Blocks
  <2> QED BY <2>2, <2>3
<1> QED BY <1>2, <1>3, <1>4

(* What is held at an address is that many frames from there, and no two   *)
(* addresses hold the same frame.  A chunk of no blocks that starts there  *)
(* too owns nothing.                                                       *)
LEMMA FramesHeld ==
  ASSUME HeapFacts!Covered, NEW n \in Sizes, n > 0, NEW a, Held(a, n)
  PROVE  /\ a \in HeapStart .. HeapStart + HeapPages - 1
         /\ FramesAt(a) = a .. a + PagesFor(n) - 1
<1>0. /\ HeapPages \in Nat /\ HeapStart \in Nat
      /\ PagesFor(n) \in Nat /\ PagesFor(n) > 0
  BY HeapAssumed, PagesForBytes
<1>1. PICK c \in live : a = HeapStart + c.start /\ c.blocks = PagesFor(n)
  BY DEF Held, HeldIn, Heap!heap_block_to_address
<1>2. \A d \in live : d.start \in 0 .. HeapPages - 1 /\ d.blocks \in Nat
  BY DEF HeapFacts!Covered, HeapFacts!Blocks
<1>3. ASSUME NEW d \in live, d.start = c.start, d # c PROVE Heap!Owned(d) = {}
  <2>1. HeapFacts!Owned(c) \cap HeapFacts!Owned(d) = {}
    BY <1>3 DEF HeapFacts!Covered, HeapFacts!ChunksDisjoint
  <2>2. d.blocks = 0
    BY <1>0, <1>1, <1>2, <1>3, <2>1 DEF HeapFacts!Owned
  <2> QED BY <1>2, <2>2 DEF Heap!Owned
<1>4. a - HeapStart = c.start /\ a \in HeapStart .. HeapStart + HeapPages - 1
  BY <1>0, <1>1, <1>2
<1>5. ChunkAt(a) = Heap!Owned(c)
  <2>1. \A d \in live : d.start = c.start => Heap!Owned(d) \subseteq Heap!Owned(c)
    BY <1>3
  <2> QED BY <1>4, <2>1 DEF ChunkAt, Heap!heap_address_to_block
<1>6. FramesAt(a) = {HeapStart + b : b \in c.start .. c.start + PagesFor(n) - 1}
  BY <1>1, <1>5 DEF FramesAt, Heap!Owned, Heap!heap_block_to_address
<1>7. {HeapStart + b : b \in c.start .. c.start + PagesFor(n) - 1} = a .. a + PagesFor(n) - 1
  <2> DEFINE m == PagesFor(n)
             t == c.start
  <2>1. m \in Nat /\ t \in Nat /\ a = HeapStart + t
    BY <1>0, <1>1, <1>2
  <2> HIDE DEF m, t
  <2>2. ASSUME NEW x \in a .. a + m - 1 PROVE x \in {HeapStart + b : b \in t .. t + m - 1}
    <3>1. x - HeapStart \in t .. t + m - 1 /\ x = HeapStart + (x - HeapStart)
      BY <1>0, <2>1
    <3> QED BY <3>1
  <2>3. {HeapStart + b : b \in t .. t + m - 1} \subseteq a .. a + m - 1
    BY <1>0, <2>1
  <2> QED BY <2>2, <2>3 DEF m, t
<1> QED BY <1>4, <1>6, <1>7

LEMMA FramesDisjoint ==
  ASSUME HeapFacts!Covered,
         NEW n \in Sizes, n > 0, NEW a, Held(a, n),
         NEW m \in Sizes, m > 0, NEW b, Held(b, m), a # b
  PROVE  FramesAt(a) \cap FramesAt(b) = {}
<1>0. /\ HeapPages \in Nat /\ HeapStart \in Nat
      /\ PagesFor(n) \in Nat /\ PagesFor(m) \in Nat
  BY HeapAssumed, PagesForBytes
<1>1. PICK c \in live : a = HeapStart + c.start /\ c.blocks = PagesFor(n)
  BY DEF Held, HeldIn, Heap!heap_block_to_address
<1>2. PICK d \in live : b = HeapStart + d.start /\ d.blocks = PagesFor(m)
  BY DEF Held, HeldIn, Heap!heap_block_to_address
<1>3. c.start \in 0 .. HeapPages - 1 /\ d.start \in 0 .. HeapPages - 1
  BY DEF HeapFacts!Covered, HeapFacts!Blocks
<1>4. (c.start .. c.start + PagesFor(n) - 1) \cap (d.start .. d.start + PagesFor(m) - 1) = {}
  <2>1. c # d
    BY <1>1, <1>2
  <2> QED BY <1>1, <1>2, <2>1
          DEF HeapFacts!Covered, HeapFacts!ChunksDisjoint, HeapFacts!Owned
<1>5. FramesAt(a) = a .. a + PagesFor(n) - 1 /\ FramesAt(b) = b .. b + PagesFor(m) - 1
  BY FramesHeld
<1> SUFFICES ASSUME NEW x \in FramesAt(a) \cap FramesAt(b) PROVE FALSE
  OBVIOUS
<1>6. /\ x - HeapStart \in c.start .. c.start + PagesFor(n) - 1
      /\ x - HeapStart \in d.start .. d.start + PagesFor(m) - 1
  <2> DEFINE i == c.start
             j == d.start
  <2>1. i \in Nat /\ j \in Nat /\ a = HeapStart + i /\ b = HeapStart + j
    BY <1>0, <1>1, <1>2, <1>3
  <2>2. x \in a .. a + PagesFor(n) - 1 /\ x \in b .. b + PagesFor(m) - 1
    BY <1>5
  <2> HIDE DEF i, j
  <2>3. x \in Int /\ a \in Nat /\ b \in Nat
    BY <1>0, <2>1, <2>2
  <2>4. x - HeapStart \in i .. i + PagesFor(n) - 1 /\ x - HeapStart \in j .. j + PagesFor(m) - 1
    BY <1>0, <2>1, <2>2, <2>3
  <2> QED BY <2>4 DEF i, j
<1> QED BY <1>4, <1>6
-----------------------------------------------------------------------------
(* What is allocated next is not a page directory and not a loaded         *)
(* process's.                                                              *)
LEMMA FreshPointer ==
  ASSUME IInv, NEW bytes \in Sizes, Heap!heap_malloc(bytes), ret' # NULL
  PROVE  /\ ret' \notin DOMAIN space
         /\ \A s \in Loaded : ret' \notin Pointers(processes[s])
<1>1. \A a : \A n \in Sizes : n > 0 /\ Held(a, n) => a # ret'
  BY Malloc DEF IInv
<1>2. /\ PageSize \in Sizes /\ StackSize \in Sizes /\ PageSize > 0 /\ StackSize > 0
      /\ Files \subseteq Sizes
  BY ProcessAssumption DEF Sizes
<1>3. \A t \in DOMAIN space : t # ret'
  BY <1>1, <1>2 DEF IInv, LoadedInv
<1>4. ASSUME NEW s \in Loaded PROVE ret' \notin Pointers(processes[s])
  BY <1>1, <1>2 DEF IInv, LoadedInv, Sound, Pointers
<1> QED BY <1>3, <1>4

(* The loaded processes stay as they are while memory is allocated and     *)
(* address spaces are added.                                               *)
LEMMA LoadedKept ==
  ASSUME LoadedInv, processes' = processes,
         \A a, n : Held(a, n) => HeldIn(live', a, n),
         \A t \in DOMAIN space : t \in DOMAIN space' /\ space'[t] = space[t],
         \A t \in DOMAIN space' : HeldIn(live', t, PageSize)
  PROVE  LoadedInv'
<1>1. Loaded' = Loaded
  BY DEF Loaded
<1>2. ASSUME NEW s \in Loaded PROVE Sound(processes[s])'
  BY DEF LoadedInv, Sound, Held, Memory, Mapped
<1> QED BY <1>1, <1>2 DEF LoadedInv, Held, Pointers

(* The heap, the table and the address spaces are left alone.              *)
LEMMA NothingAllocated ==
  ASSUME IInv, UNCHANGED <<heap, space, processes>>
  PROVE  HeapFacts!Covered' /\ LoadedInv'
<1>1. UNCHANGED <<entries, live>> /\ UNCHANGED <<space, processes>>
  BY DEF heap
<1>2. HeapFacts!Covered'
  BY <1>1 DEF IInv, HeapFacts!Covered, HeapFacts!ChunksDisjoint
<1>3. LoadedInv'
  BY <1>1, LoadedKept DEF IInv, LoadedInv, Held
<1> QED BY <1>2, <1>3

(* An allocation on the way, except for that of a task.                    *)
LEMMA MemoryAllocated ==
  ASSUME IInv, NEW bytes \in Sizes, Heap!heap_malloc(bytes), UNCHANGED <<space, processes>>
  PROVE  HeapFacts!Covered' /\ LoadedInv'
<1>1. HeapFacts!Covered' /\ \A a, n : Held(a, n) => HeldIn(live', a, n)
  BY Malloc DEF IInv
<1>2. \A t \in DOMAIN space : HeldIn(live', t, PageSize)
  BY <1>1 DEF IInv, LoadedInv
<1>3. LoadedInv'
  BY <1>1, <1>2, LoadedKept DEF IInv
<1> QED BY <1>1, <1>3
-----------------------------------------------------------------------------
(* A load that is not under way, has only begun or is lost has gathered    *)
(* nothing.                                                                *)
LEMMA NothingGathered ==
  ASSUME NEW q, q = [f \in DOMAIN NoProcess |-> q[f]], process' = q,
         pc' \in {"idle", "open", "image", "undefined"}, pc' = "image" => size' \in Files
  PROVE  LoadingInv'
BY DEF LoadingInv, Gathered, NoProcess

(* The slot is found and there is a process structure, or there is not.    *)
LEMMA process_loadIInv ==
  ASSUME IInv, process_load
  PROVE  IInv'
<1>1. HeapFacts!Covered' /\ LoadedInv'
  BY MemoryAllocated DEF process_load, Sizes
<1>2. /\ pc' = "idle" \/ pc' = "open"
      /\ process' = NoProcess \/ process' = [NoProcess EXCEPT !.addr = ret']
  BY DEF process_load, Fail
<1>3. /\ NoProcess = [f \in DOMAIN NoProcess |-> NoProcess[f]]
      /\ [NoProcess EXCEPT !.addr = ret'] =
           [f \in DOMAIN NoProcess |-> [NoProcess EXCEPT !.addr = ret'][f]]
  BY DEF NoProcess
<1>4. LoadingInv'
  BY <1>2, <1>3, NothingGathered
<1> QED BY <1>1, <1>4 DEF IInv

(* The file is opened, or it is not.                                       *)
LEMMA FopenIInv ==
  ASSUME IInv, OpenFile \/ NoSuchFile \/ CannotOpen
  PROVE  IInv'
<1>1. HeapFacts!Covered' /\ LoadedInv'
  BY NothingAllocated DEF OpenFile, NoSuchFile, CannotOpen
<1>2. /\ pc' \in {"idle", "image", "undefined"} /\ (pc' = "image" => size' \in Files)
      /\ process' = process \/ process' = NoProcess
  BY DEF OpenFile, NoSuchFile, CannotOpen, Fail
<1>3. /\ process = [f \in DOMAIN NoProcess |-> process[f]]
      /\ NoProcess = [f \in DOMAIN NoProcess |-> NoProcess[f]]
  BY DEF IInv, LoadingInv, NoProcess
<1>4. LoadingInv'
  BY <1>2, <1>3, NothingGathered
<1> QED BY <1>1, <1>4 DEF IInv

(* An error ends the load; what it had gathered stays allocated.           *)
LEMMA FailLoading ==
  ASSUME Fail
  PROVE  LoadingInv'
<1>1. NoProcess = [f \in DOMAIN NoProcess |-> NoProcess[f]]
  BY DEF NoProcess
<1> QED BY <1>1, NothingGathered DEF Fail

(* The memory for the image is the load's own.                             *)
LEMMA LoadImageIInv ==
  ASSUME IInv, LoadImage
  PROVE  IInv'
<1>1. pc = "image" /\ size \in Files /\ size \in Sizes /\ Heap!heap_malloc(size)
  BY DEF IInv, LoadingInv, LoadImage, Sizes
<1>2. HeapFacts!Covered' /\ LoadedInv'
  BY <1>1, MemoryAllocated DEF LoadImage
<1>3. CASE Fail
  BY <1>2, <1>3, FailLoading DEF IInv
<1>4. CASE /\ ret' # NULL /\ size > 0 /\ pc' = "stack"
           /\ process' = [process EXCEPT !.ptr = ret', !.size = size]
  <2>1. HeldIn(live', ret', size)
    BY <1>1, <1>4, Malloc DEF IInv
  <2>2. \A s \in Loaded : ret' \notin Pointers(processes[s])
    BY <1>1, <1>4, FreshPointer
  <2>3. Loaded' = Loaded /\ processes' = processes
    BY DEF LoadImage, Loaded
  <2>4. /\ process' = [f \in DOMAIN NoProcess |-> process'[f]]
        /\ DOMAIN process' = DOMAIN NoProcess
        /\ process'.ptr = ret' /\ process'.size = size
    BY <1>4 DEF IInv, LoadingInv, NoProcess
  <2>5. Gathered' = {ret'}
    BY <1>4, <2>4 DEF Gathered
  <2>6. LoadingInv'
    BY <1>1, <1>4, <2>1, <2>2, <2>3, <2>4, <2>5 DEF LoadingInv, Held, Pointers
  <2> QED BY <1>2, <2>6 DEF IInv
<1> QED BY <1>3, <1>4 DEF LoadImage

(* So is the memory for the stack.                                         *)
LEMMA MakeStackIInv ==
  ASSUME IInv, MakeStack
  PROVE  IInv'
<1>1. pc = "stack" /\ StackSize \in Sizes /\ Heap!heap_malloc(StackSize)
  BY DEF MakeStack, Sizes
<1>2. HeapFacts!Covered' /\ LoadedInv'
  BY <1>1, MemoryAllocated DEF MakeStack
<1>3. CASE Fail
  BY <1>2, <1>3, FailLoading DEF IInv
<1>4. CASE ret' # NULL /\ pc' = "task" /\ process' = [process EXCEPT !.stack = ret']
  <2>1. /\ HeldIn(live', ret', StackSize)
        /\ \A a, n : Held(a, n) => HeldIn(live', a, n)
    BY <1>1, <1>4, Malloc DEF IInv
  <2>2. \A s \in Loaded : ret' \notin Pointers(processes[s])
    BY <1>1, <1>4, FreshPointer
  <2>3. Loaded' = Loaded /\ processes' = processes
    BY DEF MakeStack, Loaded
  <2>4. /\ process' = [f \in DOMAIN NoProcess |-> process'[f]]
        /\ DOMAIN process' = DOMAIN NoProcess
        /\ process'.ptr = process.ptr /\ process'.size = process.size
        /\ process'.stack = ret'
    BY <1>4 DEF IInv, LoadingInv, NoProcess
  <2>5. /\ Gathered' = {process.ptr, ret'} /\ Gathered = {process.ptr}
        /\ process.size \in Files /\ process.size > 0 /\ Held(process.ptr, process.size)
    BY <1>1, <1>4, <2>4 DEF Gathered, IInv, LoadingInv
  <2>6. \A s \in Loaded : Gathered' \cap Pointers(processes[s]) = {}
    BY <2>2, <2>5 DEF IInv, LoadingInv
  <2>7. LoadingInv'
    BY <1>4, <2>1, <2>3, <2>4, <2>5, <2>6 DEF LoadingInv, Held, Pointers
  <2> QED BY <1>2, <2>7 DEF IInv
<1> QED BY <1>3, <1>4 DEF MakeStack

(* A new task is a new address space: the others stay what they were.      *)
LEMMA MakeTaskIInv ==
  ASSUME IInv, MakeTask
  PROVE  IInv'
<1>1. pc = "task" /\ PageSize \in Sizes /\ Heap!heap_malloc(PageSize) /\ ret' # NULL
  BY DEF MakeTask, Sizes
<1>2. /\ HeapFacts!Covered' /\ HeldIn(live', ret', PageSize)
      /\ \A a, n : Held(a, n) => HeldIn(live', a, n)
  BY <1>1, Malloc DEF IInv
<1>3. /\ ret' \notin DOMAIN space
      /\ \A s \in Loaded : ret' \notin Pointers(processes[s])
  BY <1>1, FreshPointer
<1>4. /\ DOMAIN space' = DOMAIN space \cup {ret'}
      /\ space'[ret'] = Space!Identity(TaskFlags)
      /\ \A t \in DOMAIN space : space'[t] = space[t]
      /\ processes' = processes /\ pc' = "map"
      /\ process' = [process EXCEPT !.task = ret']
  BY <1>3 DEF MakeTask
<1>5. LoadedInv'
  <2>1. \A t \in DOMAIN space' : HeldIn(live', t, PageSize)
    BY <1>2, <1>4 DEF IInv, LoadedInv
  <2> QED BY <1>2, <1>4, <2>1, LoadedKept DEF IInv
<1>6. Loaded' = Loaded
  BY <1>4 DEF Loaded
<1>7. /\ process' = [f \in DOMAIN NoProcess |-> process'[f]]
      /\ DOMAIN process' = DOMAIN NoProcess
      /\ process'.ptr = process.ptr /\ process'.size = process.size
      /\ process'.stack = process.stack /\ process'.task = ret'
  BY <1>4 DEF IInv, LoadingInv, NoProcess
<1>8. /\ Gathered' = Gathered \cup {ret'}
      /\ process.size \in Files /\ process.size > 0
      /\ Held(process.ptr, process.size) /\ Held(process.stack, StackSize)
  BY <1>1, <1>4, <1>7 DEF Gathered, IInv, LoadingInv
<1>9. \A s \in Loaded : Gathered' \cap Pointers(processes[s]) = {}
  BY <1>3, <1>8 DEF IInv, LoadingInv
<1>10. LoadingInv'
  <2>1. process'.task \in DOMAIN space' /\ space'[process'.task] = Space!Identity(TaskFlags)'
    BY <1>4, <1>7 DEF Space!Identity, Space!Pages
  <2> QED BY <1>2, <1>4, <1>6, <1>7, <1>8, <1>9, <2>1 DEF LoadingInv, Held, Pointers
<1> QED BY <1>2, <1>5, <1>10 DEF IInv

(* Where the code goes on without a task, the load is lost.                *)
LEMMA NoTaskIInv ==
  ASSUME IInv, NoTask
  PROVE  IInv'
<1>1. HeapFacts!Covered' /\ LoadedInv'
  BY MemoryAllocated DEF NoTask, Sizes
<1>2. pc' = "undefined" /\ process' = process
  BY DEF NoTask
<1>3. process = [f \in DOMAIN NoProcess |-> process[f]]
  BY DEF IInv, LoadingInv, NoProcess
<1>4. LoadingInv'
  BY <1>2, <1>3, NothingGathered
<1> QED BY <1>1, <1>4 DEF IInv

(* The process goes into the table with its own memory mapped into its own *)
(* address space, and no other process notices.                            *)
LEMMA PublishIInv ==
  ASSUME IInv, Publish
  PROVE  IInv'
<1>1. /\ pc = "map" /\ live' = live /\ entries' = entries
      /\ space' = [space EXCEPT ![process.task] = process_map_memory(space[process.task])]
      /\ processes' = [processes EXCEPT ![slot] = process]
      /\ pc' = "idle" /\ process' = NoProcess
  BY DEF Publish, heap
<1>2. HeapFacts!Covered'
  BY <1>1 DEF IInv, HeapFacts!Covered, HeapFacts!ChunksDisjoint
<1>3. /\ process.task \in DOMAIN space /\ DOMAIN space' = DOMAIN space
      /\ Gathered = Pointers(process)
      /\ \A s \in Loaded : Pointers(process) \cap Pointers(processes[s]) = {}
  BY <1>1 DEF IInv, LoadingInv, Gathered, Pointers
<1>4. PICK p : p = process
  OBVIOUS
<1>5. Sound(p)'
  <2>1. /\ p.size \in Files /\ p.size > 0
        /\ Held(p.ptr, p.size) /\ Held(p.stack, StackSize) /\ Held(p.task, PageSize)
    BY <1>1, <1>4 DEF IInv, LoadingInv
  <2>2. space'[p.task] = Memory(p)
    BY <1>1, <1>3, <1>4
       DEF IInv, LoadingInv, process_map_memory, process_map_binary, Memory
  <2> QED BY <1>1, <1>3, <1>4, <2>1, <2>2
          DEF Sound, Held, Memory, Mapped, Space!Identity, Space!Pages
<1>6. ASSUME NEW s \in Loaded, NEW q, q = processes[s] PROVE Sound(q)'
  <2>1. Sound(q) /\ q.task # process.task
    BY <1>3, <1>6 DEF IInv, LoadedInv, Pointers
  <2>2. q.task \in DOMAIN space /\ space'[q.task] = space[q.task]
    BY <1>1, <2>1 DEF Sound
  <2> QED BY <1>1, <1>3, <2>1, <2>2
          DEF Sound, Held, Memory, Mapped, Space!Identity, Space!Pages
<1>7. /\ DOMAIN processes' = Slots
      /\ \A s \in Loaded' :
           \/ s = slot /\ processes'[s] = p
           \/ s # slot /\ s \in Loaded /\ processes'[s] = processes[s]
  BY <1>1, <1>4 DEF IInv, LoadedInv, Loaded
<1>8. LoadedInv'
  <2>1. \A s \in Loaded' : Sound(processes[s])'
    BY <1>5, <1>6, <1>7 DEF Sound, Held
  <2>2. \A s, r \in Loaded' :
          s # r => Pointers(processes'[s]) \cap Pointers(processes'[r]) = {}
    BY <1>3, <1>4, <1>7 DEF IInv, LoadedInv
  <2>3. \A t \in DOMAIN space' : HeldIn(live', t, PageSize)
    BY <1>1, <1>3 DEF IInv, LoadedInv, Held
  <2> QED BY <1>7, <2>1, <2>2, <2>3 DEF LoadedInv, Held, Pointers
<1>9. LoadingInv'
  <2>1. NoProcess = [f \in DOMAIN NoProcess |-> NoProcess[f]]
    BY DEF NoProcess
  <2> QED BY <1>1, <2>1, NothingGathered
<1> QED BY <1>2, <1>8, <1>9 DEF IInv

(* IInv is inductive.                                                      *)
LEMMA InitIInv == Init => IInv
<1> SUFFICES ASSUME Init PROVE IInv
  OBVIOUS
<1>1. HeapFacts!Covered
  BY DEF Init, Heap!Init, Heap!FreeEntry, Heap!Blocks, HeapFacts!Covered, HeapFacts!Entry,
         HeapFacts!Blocks, HeapFacts!ChunksDisjoint
<1>2. LoadedInv
  BY DEF Init, LoadedInv, Loaded
<1>3. LoadingInv
  BY DEF Init, LoadingInv, Gathered, NoProcess
<1> QED BY <1>1, <1>2, <1>3 DEF IInv

LEMMA NextIInv ==
  ASSUME IInv, [Next]_vars
  PROVE  IInv'
<1>1. CASE process_load
  BY <1>1, process_loadIInv
<1>2. CASE OpenFile \/ NoSuchFile \/ CannotOpen
  BY <1>2, FopenIInv
<1>3. CASE LoadImage
  BY <1>3, LoadImageIInv
<1>4. CASE MakeStack
  BY <1>4, MakeStackIInv
<1>5. CASE MakeTask
  BY <1>5, MakeTaskIInv
<1>6. CASE NoTask
  BY <1>6, NoTaskIInv
<1>7. CASE Publish
  BY <1>7, PublishIInv
<1>8. CASE UNCHANGED vars
  <2>1. UNCHANGED <<heap, space, processes>> /\ UNCHANGED <<pc, process, size>>
    BY <1>8 DEF vars
  <2>2. HeapFacts!Covered' /\ LoadedInv'
    BY <2>1, NothingAllocated
  <2>3. UNCHANGED <<entries, live>> /\ UNCHANGED <<space, processes>>
    BY <2>1 DEF heap
  <2>4. LoadingInv'
    BY <2>1, <2>3 DEF IInv, LoadingInv, Gathered, Loaded, Held, Pointers,
                      Space!Identity, Space!Pages
  <2> QED BY <2>2, <2>4 DEF IInv
<1> QED BY <1>1, <1>2, <1>3, <1>4, <1>5, <1>6, <1>7, <1>8 DEF Next

(* While a program is loaded, the address spaces that are not its own stay *)
(* as they are.                                                            *)
LEMMA OtherSpacesKept ==
  ASSUME IInv, Next, NEW t \in DOMAIN space, t \notin Gathered
  PROVE  t \in DOMAIN space' /\ space'[t] = space[t] /\ t \notin Gathered'
<1>1. ASSUME NEW bytes \in Sizes, Heap!heap_malloc(bytes), ret' # NULL PROVE t # ret'
  BY <1>1, FreshPointer
<1>2. PageSize \in Sizes /\ StackSize \in Sizes /\ (pc = "image" => size \in Sizes)
  BY DEF IInv, LoadingInv, Sizes
<1>3. process = [f \in DOMAIN NoProcess |-> process[f]]
  BY DEF IInv, LoadingInv
<1>4. CASE process_load \/ OpenFile \/ NoSuchFile \/ CannotOpen \/ NoTask
  BY <1>4 DEF process_load, OpenFile, NoSuchFile, CannotOpen, NoTask, Fail, Gathered
<1>5. CASE LoadImage
  <2>1. space' = space /\ (pc' = "idle" \/ (pc' = "stack" /\ process'.ptr = ret' /\ ret' # t))
    BY <1>1, <1>2, <1>3, <1>5 DEF LoadImage, Fail, NoProcess
  <2> QED BY <2>1 DEF Gathered
<1>6. CASE MakeStack
  <2>1. /\ space' = space /\ pc = "stack"
        /\ \/ pc' = "idle"
           \/ pc' = "task" /\ process'.ptr = process.ptr /\ process'.stack = ret' /\ ret' # t
    BY <1>1, <1>2, <1>3, <1>6 DEF MakeStack, Fail, NoProcess
  <2> QED BY <2>1 DEF Gathered
<1>7. CASE MakeTask
  <2>1. /\ pc = "task" /\ pc' = "map" /\ ret' # t
        /\ process'.ptr = process.ptr /\ process'.stack = process.stack /\ process'.task = ret'
        /\ t \in DOMAIN space' /\ space'[t] = space[t]
    BY <1>1, <1>2, <1>3, <1>7 DEF MakeTask, NoProcess
  <2> QED BY <2>1 DEF Gathered
<1>8. CASE Publish
  <2>1. /\ pc' = "idle" /\ process.task # t
        /\ space' = [space EXCEPT ![process.task] = process_map_memory(space[process.task])]
    BY <1>8 DEF Publish, Gathered
  <2> QED BY <2>1 DEF Gathered
<1> QED BY <1>4, <1>5, <1>6, <1>7, <1>8 DEF Next

(* However many loads have failed and left memory allocated, a process in  *)
(* the table holds its image, its stack and its task and runs on a map of  *)
(* them, and shares none with another.                                     *)
THEOREM ProcessInvariance == Spec => []IInv
BY InitIInv, NextIInv, PTL DEF Spec
-----------------------------------------------------------------------------
(* Where the image and the stack lie: in the address space and apart from  *)
(* each other, the stack apart from the kernel's pages and the heap too.   *)
LEMMA Layout ==
  ASSUME NEW bytes \in Files, NEW n, n = PagesFor(bytes), NEW m, m = PagesFor(StackSize)
  PROVE  /\ ProgramPage \in Nat /\ StackPage \in Nat /\ PageCount \in Nat
         /\ HeapStart \in Nat /\ HeapPages \in Nat /\ n \in Nat /\ m \in Nat
         /\ StackPage + m <= ProgramPage /\ ProgramPage + n <= PageCount
         /\ ProgramPage <= HeapStart /\ HeapStart + HeapPages <= PageCount
         /\ \A v \in KernelPages :
              /\ v \in Space!Pages
              /\ v \notin StackPage .. StackPage + m - 1
<1>1. bytes \in Sizes /\ StackSize \in Sizes
  BY DEF Sizes
<1>2. n \in Nat /\ m \in Nat
  BY <1>1, PagesForBytes
<1>3. n = Heap!total_blocks(bytes) /\ m = Heap!total_blocks(StackSize)
  BY DEF PagesFor
<1>4. HeapStart \in Nat /\ HeapPages \in Nat
  BY HeapAssumed
<1>5. /\ ProgramPage \in Nat /\ StackPage \in Nat /\ PageCount \in Nat
      /\ StackPage + m <= ProgramPage /\ ProgramPage + n <= PageCount
      /\ ProgramPage <= HeapStart /\ HeapStart + HeapPages <= PageCount
      /\ \A v \in KernelPages :
           /\ v \in Nat /\ v < PageCount
           /\ v \notin StackPage .. StackPage + m - 1
  BY <1>3, LayoutAssumption
<1> QED BY <1>2, <1>4, <1>5 DEF Space!Pages

(* process_map_memory maps the image and the stack, whole pages of them,   *)
(* and leaves every other page at its own address and read only.           *)
LEMMA MemoryMaps ==
  ASSUME NEW p, p.ptr \in Nat, p.stack \in Nat, p.size \in Files, p.size > 0,
         NEW n, n = PagesFor(p.size), NEW m, m = PagesFor(StackSize)
  PROVE  /\ \A j \in 0 .. n - 1 :
              /\ ProgramPage + j \in Space!Pages
              /\ Memory(p)[ProgramPage + j] = [frame |-> p.ptr + j, flags |-> OwnFlags]
         /\ \A j \in 0 .. m - 1 :
              /\ StackPage + j \in Space!Pages
              /\ Memory(p)[StackPage + j] = [frame |-> p.stack + j, flags |-> OwnFlags]
         /\ \A v \in Space!Pages :
              v \notin ProgramPage .. ProgramPage + n - 1
                /\ v \notin StackPage .. StackPage + m - 1 =>
                   Memory(p)[v] = [frame |-> v, flags |-> TaskFlags]
<1>1. /\ ProgramPage \in Nat /\ StackPage \in Nat /\ PageCount \in Nat
      /\ HeapStart \in Nat /\ HeapPages \in Nat /\ n \in Nat /\ m \in Nat
      /\ StackPage + m <= ProgramPage /\ ProgramPage + n <= PageCount
      /\ HeapStart + HeapPages <= PageCount
  BY Layout
<1>2. p.size \in Sizes /\ StackSize \in Sizes
  BY DEF Sizes
<1>3. /\ paging_align_address(p.ptr * PageSize + p.size) \div PageSize - p.ptr = n
      /\ paging_align_address(p.stack * PageSize + StackSize) \div PageSize - p.stack = m
  BY <1>2, PagesForBytes
<1>4. ASSUME NEW v \in Space!Pages
      PROVE  Memory(p)[v] =
               IF v \in StackPage .. StackPage + m - 1
               THEN [frame |-> p.stack + (v - StackPage), flags |-> OwnFlags]
               ELSE IF v \in ProgramPage .. ProgramPage + n - 1
               THEN [frame |-> p.ptr + (v - ProgramPage), flags |-> OwnFlags]
               ELSE [frame |-> v, flags |-> TaskFlags]
  BY <1>3 DEF Memory, Mapped, Space!Identity
<1>5. ASSUME NEW j \in 0 .. n - 1
      PROVE  /\ ProgramPage + j \in Space!Pages
             /\ Memory(p)[ProgramPage + j] = [frame |-> p.ptr + j, flags |-> OwnFlags]
  <2> DEFINE v == ProgramPage + j
  <2>1. /\ v \in Space!Pages /\ v \in ProgramPage .. ProgramPage + n - 1
        /\ v \notin StackPage .. StackPage + m - 1 /\ v - ProgramPage = j
    BY <1>1 DEF Space!Pages
  <2> HIDE DEF v
  <2>2. Memory(p)[v] = [frame |-> p.ptr + j, flags |-> OwnFlags]
    BY <1>4, <2>1
  <2> QED BY <2>1, <2>2 DEF v
<1>6. ASSUME NEW j \in 0 .. m - 1
      PROVE  /\ StackPage + j \in Space!Pages
             /\ Memory(p)[StackPage + j] = [frame |-> p.stack + j, flags |-> OwnFlags]
  <2> DEFINE v == StackPage + j
  <2>1. /\ v \in Space!Pages /\ v \in StackPage .. StackPage + m - 1 /\ v - StackPage = j
    BY <1>1 DEF Space!Pages
  <2> HIDE DEF v
  <2>2. Memory(p)[v] = [frame |-> p.stack + j, flags |-> OwnFlags]
    BY <1>4, <2>1
  <2> QED BY <2>1, <2>2 DEF v
<1> QED BY <1>4, <1>5, <1>6

(* What the invariant says of a process in the table.                      *)
LEMMA LoadedProcess ==
  ASSUME IInv, NEW s \in Loaded, NEW p, p = processes[s]
  PROVE  /\ p.ptr \in Nat /\ p.stack \in Nat /\ p.size \in Files /\ p.size > 0
         /\ p.size \in Nat /\ StackSize \in Nat /\ StackSize > 0
         /\ p.size \in Sizes /\ StackSize \in Sizes
         /\ Held(p.ptr, p.size) /\ Held(p.stack, StackSize)
         /\ space[p.task] = Memory(p)
         /\ FramesAt(p.ptr) = p.ptr .. p.ptr + PagesFor(p.size) - 1
         /\ FramesAt(p.stack) = p.stack .. p.stack + PagesFor(StackSize) - 1
<1>1. /\ p.size \in Files /\ p.size > 0 /\ space[p.task] = Memory(p)
      /\ Held(p.ptr, p.size) /\ Held(p.stack, StackSize)
  BY DEF IInv, LoadedInv, Sound
<1>2. /\ p.size \in Sizes /\ StackSize \in Sizes
      /\ p.size \in Nat /\ StackSize \in Nat /\ StackSize > 0
  <2>1. Files \subseteq Nat /\ StackSize \in Nat \ {0}
    BY ProcessAssumption
  <2>2. p.size \in Sizes /\ StackSize \in Sizes
    BY <1>1 DEF Sizes
  <2>3. p.size \in Nat
    BY <1>1, <2>1, Zenon
  <2>4. StackSize \in Nat /\ StackSize > 0
    BY <2>1
  <2> QED BY <2>2, <2>3, <2>4
<1>3. /\ p.ptr \in HeapStart .. HeapStart + HeapPages - 1
      /\ p.stack \in HeapStart .. HeapStart + HeapPages - 1
      /\ FramesAt(p.ptr) = p.ptr .. p.ptr + PagesFor(p.size) - 1
      /\ FramesAt(p.stack) = p.stack .. p.stack + PagesFor(StackSize) - 1
  BY <1>1, <1>2, FramesHeld DEF IInv
<1>4. p.ptr \in Nat /\ p.stack \in Nat
  BY <1>3, HeapAssumed
<1> QED BY <1>1, <1>2, <1>3, <1>4

(* The four properties follow from the invariant.                          *)
LEMMA IInvImageAndStackMapped == IInv => ImageAndStackMapped
<1> SUFFICES ASSUME IInv, NEW s \in Loaded, NEW p, p = processes[s]
             PROVE  /\ \A k \in 0 .. p.size - 1 :
                         space[p.task][ProgramPage + k \div PageSize] =
                           [frame |-> p.ptr + k \div PageSize, flags |-> OwnFlags]
                    /\ \A k \in 0 .. StackSize - 1 :
                         space[p.task][StackPage + k \div PageSize] =
                           [frame |-> p.stack + k \div PageSize, flags |-> OwnFlags]
  BY DEF ImageAndStackMapped
<1>1. /\ p.ptr \in Nat /\ p.stack \in Nat /\ p.size \in Files /\ p.size > 0
      /\ p.size \in Sizes /\ StackSize \in Sizes /\ space[p.task] = Memory(p)
  BY LoadedProcess
<1>2. /\ \A k \in 0 .. p.size - 1 : k \div PageSize \in 0 .. PagesFor(p.size) - 1
      /\ \A k \in 0 .. StackSize - 1 : k \div PageSize \in 0 .. PagesFor(StackSize) - 1
  BY <1>1, PagesForBytes
<1>3. /\ \A j \in 0 .. PagesFor(p.size) - 1 :
           Memory(p)[ProgramPage + j] = [frame |-> p.ptr + j, flags |-> OwnFlags]
      /\ \A j \in 0 .. PagesFor(StackSize) - 1 :
           Memory(p)[StackPage + j] = [frame |-> p.stack + j, flags |-> OwnFlags]
  BY <1>1, MemoryMaps
<1> QED BY <1>1, <1>2, <1>3

(* So many pages from v on are writeable and show the frames from f on;    *)
(* only the pages of an image of n pages and a stack of m are writeable.   *)
Shows(pages, v, f, n) ==
  \A j \in 0 .. n - 1 :
    /\ v + j \in Space!Pages
    /\ pages[v + j].frame = f + j /\ "W" \in pages[v + j].flags

ReadOnlyElse(pages, n, m) ==
  \A v \in Space!Pages :
    v \notin ProgramPage .. ProgramPage + n - 1 /\ v \notin StackPage .. StackPage + m - 1
      => "W" \notin pages[v].flags

WriteableFrames(pages) ==
  {pages[v].frame : v \in {u \in Space!Pages : "W" \in pages[u].flags}}

(* The frames behind the writeable pages of such a map.                    *)
LEMMA FramesOfWriteable ==
  ASSUME NEW pages, NEW ptr \in Nat, NEW stack \in Nat, NEW n \in Nat, NEW m \in Nat,
         ProgramPage \in Nat, StackPage \in Nat,
         Shows(pages, ProgramPage, ptr, n), Shows(pages, StackPage, stack, m),
         ReadOnlyElse(pages, n, m)
  PROVE  WriteableFrames(pages) = (ptr .. ptr + n - 1) \cup (stack .. stack + m - 1)
<1> DEFINE W == {u \in Space!Pages : "W" \in pages[u].flags}
<1>1. ASSUME NEW v \in W
      PROVE  pages[v].frame \in (ptr .. ptr + n - 1) \cup (stack .. stack + m - 1)
  <2>1. v \in Space!Pages /\ v \in Int /\ "W" \in pages[v].flags
    BY DEF Space!Pages
  <2>2. v \in ProgramPage .. ProgramPage + n - 1 \/ v \in StackPage .. StackPage + m - 1
    BY <2>1 DEF ReadOnlyElse
  <2>3. CASE v \in ProgramPage .. ProgramPage + n - 1
    <3>1. PICK j \in 0 .. n - 1 : ProgramPage + j = v
      <4>1. v - ProgramPage \in 0 .. n - 1 /\ ProgramPage + (v - ProgramPage) = v
        BY <2>1, <2>3
      <4> QED BY <4>1
    <3>2. pages[v].frame = ptr + j
      BY <3>1 DEF Shows
    <3> QED BY <3>2
  <2>4. CASE v \in StackPage .. StackPage + m - 1
    <3>1. PICK j \in 0 .. m - 1 : StackPage + j = v
      <4>1. v - StackPage \in 0 .. m - 1 /\ StackPage + (v - StackPage) = v
        BY <2>1, <2>4
      <4> QED BY <4>1
    <3>2. pages[v].frame = stack + j
      BY <3>1 DEF Shows
    <3> QED BY <3>2
  <2> QED BY <2>2, <2>3, <2>4
<1>2. ASSUME NEW x \in (ptr .. ptr + n - 1) \cup (stack .. stack + m - 1)
      PROVE  \E v \in W : x = pages[v].frame
  <2>1. CASE x \in ptr .. ptr + n - 1
    <3>1. PICK j \in 0 .. n - 1 : ptr + j = x
      <4>1. x - ptr \in 0 .. n - 1 /\ ptr + (x - ptr) = x
        BY <2>1
      <4> QED BY <4>1
    <3>2. /\ ProgramPage + j \in Space!Pages /\ pages[ProgramPage + j].frame = x
          /\ "W" \in pages[ProgramPage + j].flags
      BY <3>1 DEF Shows
    <3> QED BY <3>2
  <2>2. CASE x \in stack .. stack + m - 1
    <3>1. PICK j \in 0 .. m - 1 : stack + j = x
      <4>1. x - stack \in 0 .. m - 1 /\ stack + (x - stack) = x
        BY <2>2
      <4> QED BY <4>1
    <3>2. /\ StackPage + j \in Space!Pages /\ pages[StackPage + j].frame = x
          /\ "W" \in pages[StackPage + j].flags
      BY <3>1 DEF Shows
    <3> QED BY <3>2
  <2> QED BY <2>1, <2>2
<1> QED BY <1>1, <1>2 DEF WriteableFrames

LEMMA IInvWritesOnlyItsOwn == IInv => WritesOnlyItsOwn
<1> DEFINE Own(s) == FramesAt(processes[s].ptr) \cup FramesAt(processes[s].stack)
<1> SUFFICES ASSUME IInv
             PROVE  /\ \A s \in Loaded :
                         WriteableFrames(space[processes[s].task]) = Own(s)
                    /\ \A s, r \in Loaded : s # r => Own(s) \cap Own(r) = {}
  BY DEF WritesOnlyItsOwn, WriteableFrames
<1>1. ASSUME NEW s \in Loaded, NEW p, p = processes[s], NEW pages, pages = space[p.task]
      PROVE  WriteableFrames(pages) = FramesAt(p.ptr) \cup FramesAt(p.stack)
  <2> DEFINE n == PagesFor(p.size)
             m == PagesFor(StackSize)
  <2>1. /\ p.ptr \in Nat /\ p.stack \in Nat /\ p.size \in Files /\ p.size > 0
        /\ pages = Memory(p)
        /\ FramesAt(p.ptr) = p.ptr .. p.ptr + n - 1
        /\ FramesAt(p.stack) = p.stack .. p.stack + m - 1
    BY <1>1, LoadedProcess
  <2>2. ProgramPage \in Nat /\ StackPage \in Nat /\ n \in Nat /\ m \in Nat
    BY <2>1, Layout
  <2>3. /\ \A j \in 0 .. n - 1 :
             /\ ProgramPage + j \in Space!Pages
             /\ pages[ProgramPage + j] = [frame |-> p.ptr + j, flags |-> OwnFlags]
        /\ \A j \in 0 .. m - 1 :
             /\ StackPage + j \in Space!Pages
             /\ pages[StackPage + j] = [frame |-> p.stack + j, flags |-> OwnFlags]
        /\ \A v \in Space!Pages :
             v \notin ProgramPage .. ProgramPage + n - 1
               /\ v \notin StackPage .. StackPage + m - 1 =>
                  pages[v] = [frame |-> v, flags |-> TaskFlags]
    BY <2>1, MemoryMaps
  <2>4. "W" \in OwnFlags /\ "W" \notin TaskFlags
    BY DEF OwnFlags, TaskFlags
  <2> HIDE DEF n, m
  <2>5. ASSUME NEW j \in 0 .. n - 1
        PROVE  /\ ProgramPage + j \in Space!Pages
               /\ pages[ProgramPage + j].frame = p.ptr + j
               /\ "W" \in pages[ProgramPage + j].flags
    <3>1. pages[ProgramPage + j] = [frame |-> p.ptr + j, flags |-> OwnFlags]
      BY <2>3, Zenon
    <3> QED BY <2>3, <2>4, <3>1
  <2>6. ASSUME NEW j \in 0 .. m - 1
        PROVE  /\ StackPage + j \in Space!Pages
               /\ pages[StackPage + j].frame = p.stack + j
               /\ "W" \in pages[StackPage + j].flags
    <3>1. pages[StackPage + j] = [frame |-> p.stack + j, flags |-> OwnFlags]
      BY <2>3, Zenon
    <3> QED BY <2>3, <2>4, <3>1
  <2>7. ASSUME NEW v \in Space!Pages,
               v \notin ProgramPage .. ProgramPage + n - 1
                 /\ v \notin StackPage .. StackPage + m - 1
        PROVE  "W" \notin pages[v].flags
    <3>1. pages[v] = [frame |-> v, flags |-> TaskFlags]
      BY <2>3, <2>7, Zenon
    <3> QED BY <2>4, <3>1
  <2>8. WriteableFrames(pages) = (p.ptr .. p.ptr + n - 1) \cup (p.stack .. p.stack + m - 1)
    <3>1. p.ptr \in Nat /\ p.stack \in Nat
      BY <2>1
    <3>2. Shows(pages, ProgramPage, p.ptr, n) /\ Shows(pages, StackPage, p.stack, m)
      BY <2>5, <2>6 DEF Shows
    <3>3. ReadOnlyElse(pages, n, m)
      BY <2>7 DEF ReadOnlyElse
    <3> QED BY <2>2, <3>1, <3>2, <3>3, FramesOfWriteable
  <2> QED BY <2>1, <2>8 DEF n, m
<1>2. ASSUME NEW s \in Loaded, NEW r \in Loaded, s # r PROVE Own(s) \cap Own(r) = {}
  <2>1. /\ processes[s].ptr # processes[r].ptr /\ processes[s].ptr # processes[r].stack
        /\ processes[s].stack # processes[r].ptr /\ processes[s].stack # processes[r].stack
    BY <1>2 DEF IInv, LoadedInv, Pointers
  <2>2. \A t \in {s, r} :
          LET p == processes[t]
          IN  /\ p.size \in Sizes /\ p.size > 0 /\ StackSize \in Sizes /\ StackSize > 0
              /\ Held(p.ptr, p.size) /\ Held(p.stack, StackSize)
    BY LoadedProcess
  <2>3. FramesAt(processes[s].ptr) \cap FramesAt(processes[r].ptr) = {}
    BY <2>1, <2>2, FramesDisjoint DEF IInv
  <2>4. FramesAt(processes[s].ptr) \cap FramesAt(processes[r].stack) = {}
    BY <2>1, <2>2, FramesDisjoint DEF IInv
  <2>5. FramesAt(processes[s].stack) \cap FramesAt(processes[r].ptr) = {}
    BY <2>1, <2>2, FramesDisjoint DEF IInv
  <2>6. FramesAt(processes[s].stack) \cap FramesAt(processes[r].stack) = {}
    BY <2>1, <2>2, FramesDisjoint DEF IInv
  <2> QED BY <2>3, <2>4, <2>5, <2>6
<1> QED BY <1>1, <1>2

(* The page of a byte of a range that begins with a page.                  *)
LEMMA PageOf ==
  ASSUME NEW v \in Nat, NEW bytes \in Nat, NEW a,
         a \in v * PageSize .. v * PageSize + bytes - 1
  PROVE  \E k \in 0 .. bytes - 1 : a \div PageSize = v + k \div PageSize
<1>0. PageSize \in Nat \ {0} /\ v * PageSize \in Nat
  BY HeapAssumed
<1> DEFINE k == a - v * PageSize
           q == k \div PageSize
           r == k % PageSize
<1>1. k \in 0 .. bytes - 1 /\ k \in Nat /\ a = v * PageSize + k
  BY <1>0
<1> HIDE DEF k
<1>2. q \in Nat /\ r \in 0 .. PageSize - 1 /\ k = q * PageSize + r
  BY <1>0, <1>1, Divided
<1> HIDE DEF q, r
<1>3. a = (v + q) * PageSize + r
  BY <1>0, <1>1, <1>2
<1>4. a \div PageSize = v + q
  <2>1. v + q \in Nat
    BY <1>2
  <2>2. ((v + q) * PageSize + r) \div PageSize = v + q
    BY <1>0, <1>2, <2>1, Division
  <2> QED BY <1>3, <2>2
<1> QED BY <1>1, <1>4 DEF q

LEMMA IInvValidPointersAreOwn == IInv => ValidPointersAreOwn
<1> SUFFICES ASSUME IInv, NEW s \in Loaded, NEW p, p = processes[s],
                    NEW a \in 0 .. PageCount * PageSize - 1, process_validate_pointer(p, a)
             PROVE  /\ InImage(p, a) \/ InStack(p, a)
                    /\ "W" \in space[p.task][a \div PageSize].flags
  BY DEF ValidPointersAreOwn
<1>1. /\ p.size \in Files /\ p.size > 0 /\ p.size \in Nat /\ StackSize \in Nat
      /\ p.size \in Sizes /\ StackSize \in Sizes
  BY LoadedProcess
<1>2. ProgramPage \in Nat /\ StackPage \in Nat /\ PageCount \in Nat
  BY <1>1, Layout
<1>3. PageSize \in Nat /\ ProgramPage * PageSize \in Nat /\ StackPage * PageSize \in Nat
      /\ a \in Int
  BY <1>2, HeapAssumed
<1>4. "W" \in OwnFlags /\ ImageAndStackMapped
  BY IInvImageAndStackMapped DEF OwnFlags
<1>5. CASE a >= ProgramPage * PageSize /\ a < ProgramPage * PageSize + p.size
  <2>1. a \in ProgramPage * PageSize .. ProgramPage * PageSize + p.size - 1
    BY <1>1, <1>3, <1>5
  <2>2. PICK k \in 0 .. p.size - 1 : a \div PageSize = ProgramPage + k \div PageSize
    BY <1>1, <1>2, <2>1, PageOf
  <2>3. space[p.task][a \div PageSize].flags = OwnFlags
    <3>1. space[p.task][ProgramPage + k \div PageSize] =
            [frame |-> p.ptr + k \div PageSize, flags |-> OwnFlags]
      BY <1>4, Zenon DEF ImageAndStackMapped
    <3> QED BY <2>2, <3>1
  <2> QED BY <1>4, <2>1, <2>3 DEF InImage, Bytes
<1>6. CASE a >= StackPage * PageSize /\ a < StackPage * PageSize + StackSize
  <2>1. a \in StackPage * PageSize .. StackPage * PageSize + StackSize - 1
    BY <1>1, <1>3, <1>6
  <2>2. PICK k \in 0 .. StackSize - 1 : a \div PageSize = StackPage + k \div PageSize
    BY <1>1, <1>2, <2>1, PageOf
  <2>3. space[p.task][a \div PageSize].flags = OwnFlags
    <3>1. space[p.task][StackPage + k \div PageSize] =
            [frame |-> p.stack + k \div PageSize, flags |-> OwnFlags]
      BY <1>4, Zenon DEF ImageAndStackMapped
    <3> QED BY <2>2, <3>1
  <2> QED BY <1>4, <2>1, <2>3 DEF InStack, Bytes
<1> QED BY <1>5, <1>6 DEF process_validate_pointer

(* The kernel's pages and the heap are where they were, and read only, but *)
(* for those under the image.                                              *)
LEMMA KernelPagesKept ==
  ASSUME IInv, NEW s \in Loaded, NEW p, p = processes[s],
         NEW v \in KernelPages \cup (HeapStart .. HeapStart + HeapPages - 1)
  PROVE  space[p.task][v] =
           IF v \in ImagePages(p) THEN [frame |-> p.ptr + (v - ProgramPage), flags |-> OwnFlags]
           ELSE [frame |-> v, flags |-> TaskFlags]
<1> DEFINE n == PagesFor(p.size)
           m == PagesFor(StackSize)
<1>1. /\ p.ptr \in Nat /\ p.stack \in Nat /\ p.size \in Files /\ p.size > 0
      /\ space[p.task] = Memory(p)
  BY LoadedProcess
<1>2. /\ ProgramPage \in Nat /\ StackPage \in Nat /\ PageCount \in Nat
      /\ HeapStart \in Nat /\ HeapPages \in Nat /\ n \in Nat /\ m \in Nat
      /\ StackPage + m <= ProgramPage /\ ProgramPage + n <= PageCount
      /\ ProgramPage <= HeapStart /\ HeapStart + HeapPages <= PageCount
      /\ \A u \in KernelPages :
           /\ u \in Space!Pages
           /\ u \notin StackPage .. StackPage + m - 1
  BY <1>1, Layout
<1> HIDE DEF n, m
<1>3. /\ v \in Space!Pages
      /\ v \notin StackPage .. StackPage + m - 1
  BY <1>2 DEF Space!Pages
<1>4. ImagePages(p) = ProgramPage .. ProgramPage + n - 1
  BY DEF ImagePages, PagesFor, n
<1>5. CASE v \notin ImagePages(p)
  <2>1. Memory(p)[v] = [frame |-> v, flags |-> TaskFlags]
    BY <1>1, <1>3, <1>4, <1>5, MemoryMaps DEF n, m
  <2> QED BY <1>1, <1>5, <2>1
<1>6. CASE v \in ImagePages(p)
  <2>1. PICK j \in 0 .. n - 1 : v = ProgramPage + j
    <3>1. v - ProgramPage \in 0 .. n - 1 /\ v = ProgramPage + (v - ProgramPage)
      BY <1>2, <1>4, <1>6
    <3> QED BY <3>1
  <2>2. Memory(p)[ProgramPage + j] = [frame |-> p.ptr + j, flags |-> OwnFlags]
    BY <1>1, <2>1, MemoryMaps DEF n
  <2>3. v - ProgramPage = j
    BY <1>2, <2>1
  <2> QED BY <1>1, <1>6, <2>1, <2>2, <2>3
<1> QED BY <1>5, <1>6

LEMMA IInvKernelSeesItsOwn == IInv => KernelSeesItsOwn
<1> SUFFICES ASSUME IInv, NEW s \in Loaded, NEW p, p = processes[s],
                    NEW v \in KernelPages \cup (HeapStart .. HeapStart + HeapPages - 1)
             PROVE  space[p.task][v].frame =
                      IF v \in ImagePages(p) THEN p.ptr + (v - ProgramPage) ELSE v
  BY DEF KernelSeesItsOwn
<1>1. space[p.task][v] =
        IF v \in ImagePages(p) THEN [frame |-> p.ptr + (v - ProgramPage), flags |-> OwnFlags]
        ELSE [frame |-> v, flags |-> TaskFlags]
  BY KernelPagesKept
<1> QED BY <1>1

(* After any loads, whichever failed: every byte of a process's image and  *)
(* stack is mapped to the memory that holds it (process_map_memory, for    *)
(* any size of program, page and heap).                                    *)
THEOREM ProcessImageAndStackMapped == Spec => []ImageAndStackMapped
BY ProcessInvariance, IInvImageAndStackMapped, PTL

(* No process can write to memory of another one or of the kernel: what    *)
(* process_map_binary and process_map_memory make writeable is what kmalloc*)
(* gave to this load, page for page.                                       *)
THEOREM ProcessWritesOnlyItsOwn == Spec => []WritesOnlyItsOwn
BY ProcessInvariance, IInvWritesOnlyItsOwn, PTL

(* An address that process_validate_pointer accepts is mapped, writeable,  *)
(* in the process it was checked for.                                      *)
THEOREM ProcessValidPointersAreOwn == Spec => []ValidPointersAreOwn
BY ProcessInvariance, IInvValidPointersAreOwn, PTL

(* On the page directory of any process a page of the kernel or of the     *)
(* heap is where the kernel put it, unless the image is long enough to     *)
(* reach it: then it is the image's, page for page (process.c:49-81).      *)
THEOREM ProcessKernelSeesItsOwn == Spec => []KernelSeesItsOwn
BY ProcessInvariance, IInvKernelSeesItsOwn, PTL
=============================================================================
