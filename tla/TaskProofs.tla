----------------------------- MODULE TaskProofs ------------------------------
(***************************************************************************)
(* Proofs about what task.c makes a task of: its page tables (Paging), for *)
(* tables of any size, any heap and any arguments, and its place in the    *)
(* list of tasks (TaskList).                                               *)
(***************************************************************************)
EXTENDS Paging, TaskList, FiniteSetTheorems, SequenceTheorems, TLAPS

Rights == ChunkFlags \cup MapFlags
Memory == [Frames -> [Index -> Word]]

(* A directory and its tables, in memory m.                                *)
Dir(m, c) == m[c][0].frame
Tab(m, c, n) == m[Dir(m, c)][n].frame
Own(m, c) == {c, Dir(m, c)} \cup {Tab(m, c, n) : n \in Index}

Entry(m, c, v) ==
  [frame |-> m[Tab(m, c, v \div N)][v % N].frame,
   flags |-> m[Dir(m, c)][v \div N].flags \cap m[Tab(m, c, v \div N)][v % N].flags]

(* A chunk a caller may use: all its frames exist and none has two uses,   *)
(* and the directory grants whatever its tables grant.                     *)
Sound(m, c) ==
  /\ c \in Heap /\ Dir(m, c) \in Heap \ {c}
  /\ \A n \in Index : Tab(m, c, n) \in Heap \ {c, Dir(m, c)}
  /\ \A k, n \in Index : Tab(m, c, k) = Tab(m, c, n) => k = n
  /\ \A n \in Index : \A g \in MapFlags : g \subseteq m[Dir(m, c)][n].flags
  /\ \A n, b \in Index :
       /\ m[Tab(m, c, n)][b].flags \in Rights
       /\ m[Tab(m, c, n)][b].flags \subseteq m[Dir(m, c)][n].flags

(* What the call in progress has in use that is not in a chunk: the part   *)
(* that has been made, or the part that is not freed yet.                  *)
Part(m, c, d, S) == ({c, d} \cup {m[d][n].frame : n \in S}) \cap Heap

Busy ==
  IF pc = "table" /\ directory # NULL THEN Part(mem, NULL, directory, 0 .. i - 1)
  ELSE IF pc = "free" THEN Part(mem, chunk, Dir(mem, chunk), i .. N - 1)
  ELSE {}

PagingTypeOK ==
  /\ mem \in Memory
  /\ used \subseteq Heap /\ others \subseteq Heap /\ chunks \subseteq Heap
  /\ pc \in {"idle", "table", "free", "map"}
  /\ directory \in Heap \cup {NULL} /\ chunk \in Heap \cup {NULL}
  /\ i \in Nat /\ virt \in Frames /\ phys \in Frames /\ count \in 0 .. PageCount - 1

Chunked(m, held) == {f \in Heap : \E c \in held : f \in Own(m, c)}

Accounted ==
  /\ used = others \cup Chunked(mem, chunks) \cup Busy
  /\ Busy \cap others = {}
  /\ \A c \in chunks :
       /\ Sound(mem, c)
       /\ Own(mem, c) \cap (others \cup Busy) = {}
       /\ \A d \in chunks : c # d => Own(mem, c) \cap Own(mem, d) = {}

(* The n-th table maps every page to itself.                               *)
IsIdentity(table, n, f) == \A b \in Index : table[b] = [frame |-> n * N + b, flags |-> f]

(* A refused allocation leaves NULL where the table should be, and then no *)
(* later one is granted.  Without a directory the tables are written over  *)
(* each other at NULL, and the last one names no frame of the heap.        *)
Made(n) ==
  LET table == mem[directory][n].frame
  IN  /\ mem[directory][n].flags = flags \cup {Writeable}
      /\ table \in (Heap \ {directory}) \cup {NULL}
      /\ table = NULL => Free = {}
      /\ table # NULL =>
           /\ IsIdentity(mem[table], n, flags)
           /\ \A k \in 0 .. i - 1 : mem[directory][k].frame = table => k = n

Making ==
  pc = "table" =>
    /\ i \in 0 .. N /\ flags \in ChunkFlags
    /\ directory = NULL =>
         /\ Free = {}
         /\ i = N => \A b \in Index : mem[NULL][b].frame \notin Heap
    /\ directory # NULL => \A n \in 0 .. i - 1 : Made(n)

(* No frame is freed twice: the tables still to come are not among those   *)
(* that were.                                                              *)
Freeing ==
  pc = "free" =>
    /\ i \in 0 .. N
    /\ \A n \in i .. N - 1 :
         LET table == mem[Dir(mem, chunk)][n].frame
         IN  table \in Heap =>
               /\ table \notin {chunk, Dir(mem, chunk)}
               /\ \A k \in i .. N - 1 : mem[Dir(mem, chunk)][k].frame = table => k = n

(* The page k before v, round the end of the address space.                *)
Before(v, k) == IF k <= v THEN v - k ELSE v - k + PageCount

Mapping ==
  pc = "map" =>
    /\ chunk \in chunks /\ flags \in MapFlags /\ i \in 0 .. count
    /\ \A k \in 1 .. i :
         Entry(mem, chunk, Before(virt, k)) = [frame |-> Before(phys, k), flags |-> flags]

Answered == (pc # "idle" => res = NoCall) /\ MapToMapsAll

IInv == PagingTypeOK /\ Accounted /\ Making /\ Freeing /\ Mapping /\ Answered
-----------------------------------------------------------------------------
(* A quotient and a remainder exist.                                       *)
LEMMA Split ==
  ASSUME NEW d \in Nat \ {0}, NEW n \in Nat
  PROVE  n \div d \in Nat /\ n % d \in 0 .. d - 1 /\ n = (n \div d) * d + (n % d)
OBVIOUS

(* A page number is a place in a directory and a place in a table.         *)
LEMMA Places ==
  ASSUME NEW v \in Frames
  PROVE  /\ v \div N \in Index /\ v % N \in Index
         /\ v = (v \div N) * N + (v % N)
<1>1. N \in Nat \ {0}
  BY PagingAssumption
<1> DEFINE q == v \div N
           r == v % N
<1>2. v \in Nat /\ v < N * N
  BY <1>1 DEF Frames, PageCount
<1>3. q \in Nat /\ r \in 0 .. N - 1 /\ v = q * N + r
  BY <1>1, <1>2, Split
<1> HIDE DEF q, r
<1>4. ASSUME q >= N PROVE FALSE
  <2>1. q * N >= N * N
    BY <1>1, <1>3, <1>4
  <2> QED BY <2>1, <1>1, <1>2, <1>3
<1>5. q < N
  BY <1>1, <1>3, <1>4
<1> QED BY <1>1, <1>3, <1>5 DEF Index, q, r

LEMMA OnePage ==
  ASSUME NEW n \in Index, NEW b \in Index
  PROVE  n * N + b \in Frames
<1>1. N \in Nat /\ n \in Nat /\ n <= N - 1 /\ b \in Nat /\ b <= N - 1
  BY PagingAssumption DEF Index
<1>2. n * N <= (N - 1) * N
  BY <1>1
<1>3. (N - 1) * N = N * N - N
  BY <1>1
<1> QED BY <1>1, <1>2, <1>3 DEF Frames, PageCount

LEMMA Constants ==
  /\ N \in Nat /\ N > 2 /\ PageCount \in Nat /\ PageCount > N
  /\ NULL \in Frames /\ NULL \notin Heap /\ Heap \subseteq Frames
  /\ 0 \in Index /\ 1 \in Index /\ 2 \in Index
  /\ \A n \in Index : n \in Nat /\ n < N
<1>1. N \in Nat /\ N > 2
  BY PagingAssumption
<1>2. N * N > N /\ N * (N - 1) <= N * N
  BY <1>1
<1> QED BY <1>1, <1>2, PagingAssumption DEF PageCount, Frames, NULL, Index

(* The search upwards for a free frame ends at the first one.              *)
LEMMA LeastExists ==
  ASSUME NEW n \in Nat, NEW S \in SUBSET (0 .. n - 1), S # {}
  PROVE  \E x \in S : \A y \in S : x <= y
<1> DEFINE Down(x) == 0 .. x
           T == {Down(x) : x \in S}
<1>1. IsFiniteSet(0 .. n - 1)
  BY FS_Interval
<1>2. IsWellFoundedOn(StrictSubsetOrdering(0 .. n - 1), FiniteSubsetsOf(0 .. n - 1))
  BY FS_StrictSubsetOrderingWellFounded
<1>3. T \subseteq FiniteSubsetsOf(0 .. n - 1) /\ T # {}
  <2>1. FiniteSubsetsOf(0 .. n - 1) = SUBSET (0 .. n - 1)
    BY <1>1, FS_FiniteSubsetsOfFinite
  <2>2. \A x \in S : Down(x) \in SUBSET (0 .. n - 1)
    OBVIOUS
  <2>3. T \subseteq SUBSET (0 .. n - 1)
    BY <2>2
  <2>4. PICK x : x \in S
    OBVIOUS
  <2>5. Down(x) \in T
    BY <2>4
  <2> QED BY <2>1, <2>3, <2>5
<1>4. PICK d \in T : \A e \in T : ~ (<<e, d>> \in StrictSubsetOrdering(0 .. n - 1))
  BY <1>2, <1>3, WFMin
<1>5. PICK x \in S : d = Down(x)
  OBVIOUS
<1>6. \A y \in S : x <= y
  <2> SUFFICES ASSUME NEW y \in S, y < x PROVE FALSE
    OBVIOUS
  <2>1. Down(y) \in T /\ Down(y) \subseteq Down(x) /\ Down(y) # Down(x)
    OBVIOUS
  <2>2. Down(y) \in SUBSET (0 .. n - 1) /\ Down(x) \in SUBSET (0 .. n - 1)
    OBVIOUS
  <2> QED BY <1>4, <1>5, <2>1, <2>2 DEF StrictSubsetOrdering
<1> QED BY <1>6

(* kzalloc returns a free frame as long as there is one.                   *)
LEMMA Granted ==
  /\ kzalloc = NULL <=> Free = {}
  /\ kzalloc # NULL => kzalloc \in Free
  /\ kzalloc \in Frames
<1>1. CASE Free = {}
  BY <1>1, Constants DEF kzalloc
<1>2. CASE Free # {}
  <2>1. Free \in SUBSET (0 .. PageCount - 1) /\ PageCount \in Nat
    BY Constants DEF Free, Frames
  <2>2. \E x \in Free : \A y \in Free : x <= y
    BY <2>1, <1>2, LeastExists
  <2>3. kzalloc \in Free
    BY <1>2, <2>2 DEF kzalloc
  <2> QED BY <1>2, <2>3, Constants DEF Free
<1> QED BY <1>1, <1>2
(* What is where in a sound chunk.                                         *)
LEMMA OwnFrames ==
  ASSUME NEW m \in Memory, NEW c, Sound(m, c)
  PROVE  /\ c \in Own(m, c) /\ Dir(m, c) \in Own(m, c)
         /\ \A n \in Index : Tab(m, c, n) \in Own(m, c)
         /\ Own(m, c) \subseteq Heap
BY DEF Sound, Own

(* A chunk none of whose frames changes is the chunk it was.               *)
LEMMA Untouched ==
  ASSUME NEW m \in Memory, NEW m2 \in Memory, NEW c, Sound(m, c),
         \A f \in Own(m, c) : m2[f] = m[f]
  PROVE  /\ Sound(m2, c) /\ Own(m2, c) = Own(m, c)
         /\ \A v \in Frames : Entry(m2, c, v) = Entry(m, c, v)
<1>1. /\ m2[c] = m[c] /\ m2[Dir(m, c)] = m[Dir(m, c)]
      /\ \A n \in Index : m2[Tab(m, c, n)] = m[Tab(m, c, n)]
  BY OwnFrames
<1>2. Dir(m2, c) = Dir(m, c)
  BY <1>1 DEF Dir
<1>3. \A n : Tab(m2, c, n) = Tab(m, c, n)
  BY <1>1, <1>2 DEF Tab
<1>4. Own(m2, c) = Own(m, c)
  BY <1>2, <1>3 DEF Own
<1>5. Sound(m2, c)
  BY <1>1, <1>2, <1>3 DEF Sound
<1>6. ASSUME NEW v \in Frames PROVE Entry(m2, c, v) = Entry(m, c, v)
  <2>1. v \div N \in Index
    BY Places
  <2>2. Tab(m2, c, v \div N) = Tab(m, c, v \div N)
    BY <1>3
  <2>3. m2[Tab(m, c, v \div N)] = m[Tab(m, c, v \div N)]
    BY <1>1, <2>1
  <2> QED BY <1>1, <1>2, <2>2, <2>3, Zenon DEF Entry
<1> QED BY <1>4, <1>5, <1>6

(* What a new chunk is: every page is itself.                              *)
LEMMA NewIsIdentity ==
  ASSUME NEW m \in Memory, NEW c, NEW f \in ChunkFlags, NEW v \in Frames,
         \A n \in Index : /\ m[Dir(m, c)][n].flags = f \cup {Writeable}
                          /\ \A b \in Index : m[Tab(m, c, n)][b] = [frame |-> n * N + b, flags |-> f]
  PROVE  Entry(m, c, v) = [frame |-> v, flags |-> f]
<1> DEFINE n == v \div N
           b == v % N
<1>1. n \in Index /\ b \in Index /\ v = n * N + b
  BY Places
<1> HIDE DEF n, b
<1>2. m[Dir(m, c)][n].flags = f \cup {Writeable} /\ m[Tab(m, c, n)][b] = [frame |-> v, flags |-> f]
  BY <1>1
<1>3. (f \cup {Writeable}) \cap f = f
  OBVIOUS
<1> DEFINE outer == m[Dir(m, c)][n].flags
           inner == m[Tab(m, c, n)][b]
<1>4. inner = [frame |-> v, flags |-> f] /\ outer = f \cup {Writeable}
  BY <1>2
<1>5. Entry(m, c, v) = [frame |-> inner.frame, flags |-> outer \cap inner.flags]
  BY DEF Entry, n, b
<1> HIDE DEF outer, inner
<1>6. inner.flags = f /\ inner.frame = v
  BY <1>4
<1> QED BY <1>3, <1>4, <1>5, <1>6

(* An entry is a page and rights.                                          *)
LEMMA EntryType ==
  ASSUME NEW m \in Memory, NEW c, Sound(m, c), NEW v \in Frames
  PROVE  Entry(m, c, v) \in [frame : Frames, flags : Rights]
<1> DEFINE n == v \div N
           b == v % N
<1>1. n \in Index /\ b \in Index
  BY Places
<1> HIDE DEF n, b
<1> DEFINE outer == m[Dir(m, c)][n].flags
           inner == m[Tab(m, c, n)][b]
<1>2. inner.flags \in Rights /\ inner.flags \subseteq outer
  BY <1>1 DEF Sound
<1>3. Tab(m, c, n) \in Frames
  BY <1>1, Constants DEF Sound
<1>4. inner.frame \in Frames
  BY <1>1, <1>3 DEF Memory, Word
<1>5. outer \cap inner.flags = inner.flags
  BY <1>2
<1>6. Entry(m, c, v) = [frame |-> inner.frame, flags |-> outer \cap inner.flags]
  BY DEF Entry, n, b
<1>7. \A f \in Frames, r \in Rights : [frame |-> f, flags |-> r] \in [frame : Frames, flags : Rights]
  OBVIOUS
<1> HIDE DEF outer, inner
<1> QED BY <1>2, <1>4, <1>5, <1>6, <1>7

(* Remainders of numbers no further than one turn away.                    *)
LEMMA ModOf ==
  ASSUME NEW d \in Nat \ {0}, NEW r \in 0 .. d - 1
  PROVE  r % d = r /\ (r + d) % d = r /\ (r - d) % d = r
OBVIOUS

(* Going back round the end of the address space.                          *)
LEMMA RoundTheEnd ==
  ASSUME NEW v \in Frames
  PROVE  /\ (v + 1) % PageCount \in Frames
         /\ Before((v + 1) % PageCount, 1) = v
         /\ \A k \in 1 .. PageCount - 2 : /\ Before((v + 1) % PageCount, k + 1) = Before(v, k)
                                          /\ Before(v, k) # v
                                          /\ Before(v, k) \in Frames
<1> DEFINE P == PageCount
<1>0. P \in Nat /\ P > 0 /\ v \in Nat /\ v < P
  BY Constants DEF Frames
<1> HIDE DEF P
<1>1. (v + 1) % P = IF v = P - 1 THEN 0 ELSE v + 1
  <2>1. CASE v = P - 1
    BY <2>1, <1>0, ModOf
  <2>2. CASE v # P - 1
    BY <2>2, <1>0, ModOf
  <2> QED BY <2>1, <2>2
<1> QED BY <1>0, <1>1 DEF Before, Frames, P

-----------------------------------------------------------------------------
LEMMA KeptChunk ==
  ASSUME PagingTypeOK, Accounted, NEW m2 \in Memory, NEW c \in chunks,
         \A f \in used : f \notin Busy => m2[f] = mem[f]
  PROVE  /\ Sound(m2, c) /\ Own(m2, c) = Own(mem, c)
         /\ \A v \in Frames : Entry(m2, c, v) = Entry(mem, c, v)
<1>1. Sound(mem, c) /\ Own(mem, c) \cap Busy = {} /\ Own(mem, c) \subseteq used
  BY OwnFrames DEF Accounted, Chunked, PagingTypeOK
<1>2. \A f \in Own(mem, c) : m2[f] = mem[f]
  BY <1>1
<1>3. mem \in Memory
  BY DEF PagingTypeOK
<1> QED BY <1>1, <1>2, <1>3, Untouched

(* The books stay right when only what the call has in use changes.        *)
LEMMA AccountedKept ==
  ASSUME PagingTypeOK, Accounted, mem' \in Memory, UNCHANGED <<chunks, others>>,
         \A f \in used : f \notin Busy => mem'[f] = mem[f],
         Busy' \cap (used \ Busy) = {}, used' = (used \ Busy) \cup Busy'
  PROVE  Accounted'
<1>1. \A c \in chunks : Sound(mem', c) /\ Own(mem', c) = Own(mem, c)
  BY KeptChunk
<1>2. used \ Busy = others \cup Chunked(mem, chunks)
  <2>1. Busy \cap others = {} /\ Busy \cap Chunked(mem, chunks) = {}
    BY DEF Accounted, Chunked
  <2> QED BY <2>1 DEF Accounted
<1>3. Chunked(mem', chunks') = Chunked(mem, chunks)
  BY <1>1 DEF Chunked
<1>4. used' = others' \cup Chunked(mem', chunks') \cup Busy'
  BY <1>2, <1>3
<1>5. Busy' \cap others' = {}
  BY <1>2
<1>6. ASSUME NEW c \in chunks
      PROVE  /\ Sound(mem', c)
             /\ Own(mem', c) \cap (others' \cup Busy') = {}
             /\ \A d \in chunks : c # d => Own(mem', c) \cap Own(mem', d) = {}
  <2>1. Own(mem', c) = Own(mem, c) /\ Own(mem, c) \subseteq used \ Busy
    BY <1>1, <1>2, OwnFrames DEF Chunked, PagingTypeOK, Accounted
  <2>2. Own(mem, c) \cap others = {}
    BY DEF Accounted
  <2>3. \A d \in chunks : c # d => Own(mem, c) \cap Own(mem, d) = {}
    BY DEF Accounted
  <2> QED BY <1>1, <2>1, <2>2, <2>3
<1> QED BY <1>4, <1>5, <1>6 DEF Accounted

(* Nothing is claimed of a call that has not been answered.                *)
LEMMA NoAnswer == ASSUME res = NoCall PROVE MapToMapsAll
BY DEF MapToMapsAll, NoCall

LEMMA NoAnswerNext == ASSUME res' = NoCall PROVE MapToMapsAll'
BY DEF MapToMapsAll, NoCall

(* The address spaces that stay are as they were.                          *)
SpacesStay ==
  \A c \in chunks \cap chunks' : \A v \in Frames : Entry(mem', c, v) = Entry(mem, c, v)

LEMMA Clean ==
  ASSUME PagingTypeOK
  PROVE  /\ Zeroed(kzalloc) \in Memory
         /\ \A f \in Frames : f # kzalloc => Zeroed(kzalloc)[f] = mem[f]
         /\ kzalloc = NULL => Zeroed(kzalloc) = mem
<1>1. ZeroFrame \in [Index -> Word]
  <2>1. ZeroWord \in Word
    BY Constants DEF ZeroWord, Word, NULL
  <2> QED BY <2>1 DEF ZeroFrame
<1>2. mem \in [Frames -> [Index -> Word]]
  BY DEF PagingTypeOK, Memory
<1> QED BY <1>1, <1>2 DEF Zeroed, Memory

LEMMA NewCall ==
  ASSUME IInv, NEW f \in ChunkFlags, paging_chunk_new(f)
  PROVE  IInv' /\ SpacesStay
<1> USE DEF IInv
<1>1. /\ pc = "idle" /\ directory' = kzalloc /\ mem' = Zeroed(kzalloc) /\ used' = TakenBy(kzalloc)
      /\ flags' = f /\ i' = 0 /\ pc' = "table" /\ res' = NoCall
      /\ UNCHANGED <<others, chunks, chunk, virt, phys, count>>
  BY DEF paging_chunk_new
<1>2. Busy = {}
  BY <1>1 DEF Busy
<1>3. Busy' = {kzalloc} \ {NULL}
  <2>1. kzalloc = NULL \/ kzalloc \in Heap
    BY Granted DEF Free
  <2>2. 0 .. i' - 1 = {}
    BY <1>1
  <2> QED BY <1>1, <2>1, <2>2, Constants DEF Busy, Part
<1>4. mem' \in Memory /\ \A g \in Frames : g # kzalloc => mem'[g] = mem[g]
  BY <1>1, Clean
<1>5. PagingTypeOK'
  BY <1>1, <1>4, Granted DEF PagingTypeOK, Free, TakenBy
<1>6. \A g \in used : g \notin Busy => mem'[g] = mem[g]
  <2>1. used \subseteq Frames /\ NULL \notin used
    BY Constants DEF PagingTypeOK
  <2>2. kzalloc \notin used
    BY <2>1, Granted DEF Free
  <2> QED BY <2>1, <2>2, <1>4
<1>7. Accounted'
  <2>1. Busy' \cap used = {}
    BY <1>3, Granted DEF Free
  <2> QED BY <1>1, <1>2, <1>3, <1>4, <1>6, <2>1, AccountedKept DEF TakenBy
<1>8. Making'
  <2>1. kzalloc = NULL => Free' = {}
    BY <1>1, Granted DEF Free, TakenBy
  <2>2. 0 .. i' - 1 = {} /\ i' # N /\ i' \in 0 .. N
    BY <1>1, Constants
  <2> QED BY <1>1, <2>1, <2>2 DEF Making
<1>9. Freeing' /\ Mapping' /\ Answered'
  BY <1>1, NoAnswerNext DEF Freeing, Mapping, Answered
<1>10. SpacesStay
  BY <1>4, <1>6, KeptChunk DEF SpacesStay
<1> QED BY <1>5, <1>7, <1>8, <1>9, <1>10

LEMMA NewTableInv ==
  ASSUME IInv, NewTable
  PROVE  IInv' /\ SpacesStay
<1> USE DEF IInv
<1> DEFINE entry == kzalloc
           identity == [b \in Index |-> [frame |-> i * N + b, flags |-> flags]]
           filled == [Zeroed(entry) EXCEPT ![entry] = identity]
           word == [frame |-> entry, flags |-> flags \cup {Writeable}]
<1>1. /\ pc = "table" /\ i < N /\ i' = i + 1 /\ used' = TakenBy(entry)
      /\ mem' = [filled EXCEPT ![directory][i] = word]
      /\ UNCHANGED <<others, chunks, pc, directory, chunk, flags, virt, phys, count, res>>
  BY DEF NewTable
<1>2. i \in Index /\ i \in Nat /\ N \in Nat /\ flags \in ChunkFlags
  BY <1>1, Constants DEF PagingTypeOK, Making, Index
<1>3. flags \in SUBSET {Present, User, Writeable}
  BY <1>2, FlagsAssumption DEF Present, User, Writeable
<1>4. entry \in Frames /\ directory \in Frames
  BY Granted, Constants DEF PagingTypeOK
<1>5. identity \in [Index -> Word]
  <2>1. \A b \in Index : [frame |-> i * N + b, flags |-> flags] \in Word
    BY <1>2, <1>3, OnePage DEF Word
  <2> QED BY <2>1
<1>6. /\ filled \in Memory /\ filled[entry] = identity
      /\ \A g \in Frames : g # entry => filled[g] = mem[g]
  BY <1>4, <1>5, Clean DEF Memory
<1>7. word \in Word
  BY <1>3, <1>4 DEF Word, Writeable
<1> HIDE DEF identity, filled, word
<1>8. /\ mem' \in Memory
      /\ \A g \in Frames : g # directory => mem'[g] = filled[g]
      /\ mem'[directory][i] = word
      /\ \A b \in Index : b # i => mem'[directory][b] = filled[directory][b]
  BY <1>1, <1>2, <1>4, <1>6, <1>7 DEF Memory
<1>9. entry = NULL \/ entry \in Free
  BY Granted
<1>10. used \subseteq Frames /\ NULL \notin used /\ Busy \subseteq used
  BY Constants DEF PagingTypeOK, Accounted
<1>11. directory # NULL => directory \in Busy
  BY <1>1 DEF Busy, Part, PagingTypeOK
<1>12. \A g \in used : g \notin Busy => mem'[g] = mem[g]
  BY <1>6, <1>8, <1>9, <1>10, <1>11 DEF Free
<1>13. directory # NULL => directory # entry /\ mem'[directory][i] = word
                           /\ \A b \in Index : b # i => mem'[directory][b] = mem[directory][b]
  BY <1>4, <1>6, <1>8, <1>9, <1>10, <1>11 DEF Free
<1>14. PagingTypeOK'
  BY <1>1, <1>2, <1>8, <1>9 DEF PagingTypeOK, Free, TakenBy
<1>15. directory = NULL => entry = NULL /\ used' = used
  BY <1>1, Granted DEF Making, TakenBy
<1>16. Busy' = Busy \cup ({entry} \ {NULL})
  <2>1. CASE directory = NULL
    BY <2>1, <1>1, <1>15 DEF Busy
  <2>2. CASE directory # NULL
    <3>1. 0 .. i' - 1 = (0 .. i - 1) \cup {i} /\ i \notin 0 .. i - 1 /\ 0 .. i - 1 \subseteq Index
      BY <1>1, <1>2, Constants DEF Index
    <3>2. mem'[directory][i].frame = entry
      BY <2>2, <1>13 DEF word
    <3>3. \A n \in 0 .. i - 1 : mem'[directory][n] = mem[directory][n]
      BY <2>2, <3>1, <1>13
    <3>4. {mem'[directory][n].frame : n \in 0 .. i' - 1} =
            {mem[directory][n].frame : n \in 0 .. i - 1} \cup {entry}
      BY <3>1, <3>2, <3>3
    <3>5. /\ Busy = Part(mem, NULL, directory, 0 .. i - 1)
          /\ Busy' = Part(mem', NULL, directory, 0 .. i' - 1)
      BY <2>2, <1>1 DEF Busy
    <3>6. {entry} \cap Heap = {entry} \ {NULL}
      BY <1>9, Constants DEF Free
    <3> QED BY <3>4, <3>5, <3>6 DEF Part
  <2> QED BY <2>1, <2>2
<1>17. Accounted'
  <2>1. ({entry} \ {NULL}) \cap used = {}
    BY <1>9 DEF Free
  <2>2. Busy' \cap (used \ Busy) = {} /\ used' = (used \ Busy) \cup Busy'
    BY <2>1, <1>1, <1>10, <1>16 DEF TakenBy
  <2> QED BY <2>2, <1>1, <1>8, <1>12, AccountedKept
<1>18. Making'
  <2>1. i' \in 0 .. N /\ flags' \in ChunkFlags
    BY <1>1, <1>2
  <2>2. Free' \subseteq Free /\ (entry = NULL => Free' = {})
    BY <1>1, Granted DEF Free, TakenBy
  <2>3. ASSUME directory = NULL
        PROVE  Free' = {} /\ (i' = N => \A b \in Index : mem'[NULL][b].frame \notin Heap)
    <3>1. entry = NULL
      BY <2>3, <1>15
    <3>2. ASSUME i' = N, NEW b \in Index PROVE mem'[NULL][b].frame \notin Heap
      <4>1. i = N - 1
        BY <3>2, <1>1, <1>2
      <4>2. CASE b = i
        BY <4>2, <2>3, <3>1, <1>8, Constants DEF word
      <4>3. CASE b # i
        <5>1. mem'[NULL][b] = [frame |-> i * N + b, flags |-> flags]
          BY <4>3, <2>3, <3>1, <1>6, <1>8 DEF identity
        <5>2. i * N + b >= N * (N - 1)
          BY <4>1, <1>2, Constants
        <5>3. mem'[NULL][b].frame >= N * (N - 1) /\ N * (N - 1) \in Int
          BY <5>1, <5>2, <1>2
        <5>4. \A h \in Heap : h \in Int /\ h < N * (N - 1)
          BY <1>2, PagingAssumption
        <5> DEFINE x == mem'[NULL][b].frame
                   end == N * (N - 1)
        <5>5. x >= end /\ end \in Int /\ \A h \in Heap : h \in Int /\ h < end
          BY <5>3, <5>4
        <5> HIDE DEF entry, x, end
        <5> QED BY <5>5 DEF x
      <4> QED BY <4>2, <4>3
    <3> QED BY <2>2, <3>1, <3>2
  <2>4. ASSUME directory # NULL, NEW n \in 0 .. i' - 1 PROVE Made(n)'
    <3>1. n \in Index /\ (n = i \/ n \in 0 .. i - 1)
      BY <1>1, <1>2, Constants DEF Index
    <3>2. \A k \in 0 .. i - 1 : Made(k) /\ mem'[directory][k] = mem[directory][k]
      BY <2>4, <1>1, <1>2, <1>13, Constants DEF Making, Index
    <3>3. \A k \in 0 .. i - 1 : mem[directory][k].frame # entry \/ entry = NULL
      <4> SUFFICES ASSUME NEW k \in 0 .. i - 1, mem[directory][k].frame = entry, entry # NULL
                   PROVE  FALSE
        OBVIOUS
      <4>1. entry \in Busy
        BY <2>4, <1>1, <1>9 DEF Busy, Part, Free
      <4> QED BY <4>1, <1>9, <1>10 DEF Free
    <3>4. 0 .. i' - 1 = (0 .. i - 1) \cup {i}
      BY <1>1, <1>2
    <3>5. mem'[directory][i].frame = entry /\ mem'[directory][i].flags = flags \cup {Writeable}
      BY <2>4, <1>13 DEF word
    <3>6. CASE n = i
      <4>1. entry \in (Heap \ {directory}) \cup {NULL}
        BY <2>4, <1>9, <1>13 DEF Free
      <4>2. entry # NULL => IsIdentity(mem'[entry], i, flags)
        BY <2>4, <1>4, <1>6, <1>8, <1>13 DEF IsIdentity, identity
      <4>3. entry # NULL => \A k \in 0 .. i' - 1 : mem'[directory][k].frame = entry => k = i
        BY <3>2, <3>3, <3>4
      <4> QED BY <4>1, <4>2, <4>3, <3>5, <3>6, <2>2, <1>1 DEF Made
    <3>7. CASE n \in 0 .. i - 1
      <4> DEFINE table == mem[directory][n].frame
      <4>1. mem'[directory][n] = mem[directory][n] /\ Made(n)
        BY <3>2, <3>7
      <4>2. /\ mem[directory][n].flags = flags \cup {Writeable}
            /\ table \in (Heap \ {directory}) \cup {NULL}
            /\ table = NULL => Free = {}
            /\ table # NULL =>
                 /\ IsIdentity(mem[table], n, flags)
                 /\ \A k \in 0 .. i - 1 : mem[directory][k].frame = table => k = n
        BY <4>1 DEF Made
      <4>3. table # NULL => table # entry
        BY <3>3, <3>7
      <4>4. table # NULL => mem'[table] = mem[table]
        BY <4>2, <4>3, <1>6, <1>8, Constants
      <4> HIDE DEF table, entry
      <4>5. table # NULL => \A k \in 0 .. i' - 1 : mem'[directory][k].frame = table => k = n
        BY <4>2, <4>3, <3>2, <3>4, <3>5
      <4>6. mem'[directory'][n].frame = table
        BY <4>1, <1>1 DEF table
      <4> QED BY <4>1, <4>2, <4>4, <4>5, <4>6, <2>2, <1>1 DEF Made
    <3> QED BY <3>1, <3>6, <3>7
  <2> QED BY <2>1, <2>3, <2>4, <1>1 DEF Making
<1>19. Freeing' /\ Mapping' /\ Answered'
  BY <1>1, NoAnswerNext DEF Freeing, Mapping, Answered
<1>20. SpacesStay
  BY <1>8, <1>12, KeptChunk DEF SpacesStay
<1> QED BY <1>14, <1>17, <1>18, <1>19, <1>20

(* paging_chunk_free and the freeing of a chunk that has not been made.    *)
LEMMA FreeCall ==
  ASSUME IInv, NEW c \in chunks, paging_chunk_free(c)
  PROVE  IInv' /\ SpacesStay
<1> USE DEF IInv
<1>1. /\ pc = "idle" /\ chunk' = c /\ chunks' = chunks \ {c}
      /\ i' = 0 /\ pc' = "free" /\ res' = NoCall
      /\ UNCHANGED <<mem, used, others, directory, flags, virt, phys, count>>
  BY DEF paging_chunk_free
<1>2. PagingTypeOK'
  BY <1>1 DEF PagingTypeOK
<1>3. Sound(mem, c) /\ mem \in Memory
  BY DEF Accounted, PagingTypeOK
<1>4. Busy = {}
  BY <1>1 DEF Busy
<1>5. Busy' = Own(mem, c)
  <2>1. i' .. N - 1 = Index
    BY <1>1 DEF Index
  <2>2. Busy' = ({c, Dir(mem, c)} \cup {mem[Dir(mem, c)][n].frame : n \in Index}) \cap Heap
    BY <1>1, <2>1 DEF Busy, Part
  <2>3. Own(mem, c) = {c, Dir(mem, c)} \cup {mem[Dir(mem, c)][n].frame : n \in Index}
    BY DEF Own, Tab
  <2> QED BY <2>2, <2>3, <1>3, OwnFrames
<1>6. Accounted'
  <2>1. \A d \in chunks' : d \in chunks /\ Own(mem, c) \cap Own(mem, d) = {}
    BY <1>1 DEF Accounted
  <2>2. Chunked(mem, chunks') \cup Own(mem, c) = Chunked(mem, chunks)
    BY <1>1, <1>3, OwnFrames DEF Chunked
  <2>3. Own(mem, c) \cap others = {}
    BY DEF Accounted
  <2>4. used' = others' \cup Chunked(mem', chunks') \cup Busy'
    BY <2>2, <1>1, <1>4, <1>5 DEF Accounted
  <2>5. \A d \in chunks' : /\ Sound(mem', d)
                           /\ Own(mem', d) \cap (others' \cup Busy') = {}
                           /\ \A e \in chunks' : d # e => Own(mem', d) \cap Own(mem', e) = {}
    BY <2>1, <1>1, <1>5 DEF Accounted
  <2> QED BY <2>3, <2>4, <2>5, <1>1, <1>5 DEF Accounted
<1>7. Freeing'
  <2>1. i' \in 0 .. N /\ \A n \in i' .. N - 1 : n \in Index
    BY <1>1, Constants DEF Index
  <2>2. \A n \in Index : mem[Dir(mem, c)][n].frame \notin {c, Dir(mem, c)}
                         /\ \A k \in Index : mem[Dir(mem, c)][k].frame = mem[Dir(mem, c)][n].frame => k = n
    BY <1>3 DEF Sound, Tab
  <2> QED BY <2>1, <2>2, <1>1 DEF Freeing
<1>8. Making' /\ Mapping' /\ Answered'
  BY <1>1, NoAnswerNext DEF Making, Mapping, Answered
<1>9. SpacesStay
  BY <1>1 DEF SpacesStay
<1> QED BY <1>2, <1>6, <1>7, <1>8, <1>9

LEMMA FreeTableInv ==
  ASSUME IInv, FreeTable
  PROVE  IInv' /\ SpacesStay
<1> USE DEF IInv
<1> DEFINE d == Dir(mem, chunk)
           table == mem[d][i].frame
<1>1. /\ pc = "free" /\ i < N /\ used' = used \ {table} /\ i' = i + 1
      /\ UNCHANGED <<mem, others, chunks, pc, directory, chunk, flags, virt, phys, count, res>>
  BY DEF FreeTable, Dir
<1>2. i \in Nat /\ N \in Nat
  BY Constants DEF PagingTypeOK
<1>3. PagingTypeOK'
  BY <1>1, <1>2 DEF PagingTypeOK
<1>4. i .. N - 1 = {i} \cup (i' .. N - 1) /\ i \notin i' .. N - 1 /\ i' \in 0 .. N
  BY <1>1, <1>2
<1>5. table \in Heap =>
        /\ table \notin {chunk, d}
        /\ \A k \in i .. N - 1 : mem[d][k].frame = table => k = i
  BY <1>1, <1>4 DEF Freeing
<1> HIDE DEF d, table
<1>6. Busy' = Busy \ {table}
  <2>1. Busy = ({chunk, d} \cup {mem[d][n].frame : n \in i .. N - 1}) \cap Heap
    BY <1>1 DEF Busy, Part, d
  <2>2. Busy' = ({chunk, d} \cup {mem[d][n].frame : n \in i' .. N - 1}) \cap Heap
    BY <1>1 DEF Busy, Part, d
  <2>3. mem[d][i].frame = table
    BY DEF table
  <2>4. table \in Heap => \A k \in i' .. N - 1 : mem[d][k].frame # table
    BY <1>4, <1>5
  <2> QED BY <1>4, <1>5, <2>1, <2>2, <2>3, <2>4
<1>7. Accounted'
  <2>1. Busy \subseteq used /\ (table \in Heap => table \in Busy)
    <3>1. table \in Heap => table \in Busy
      BY <1>1, <1>4 DEF Busy, Part, d, table
    <3> QED BY <3>1 DEF Accounted
  <2>2. used' = (used \ Busy) \cup Busy' /\ Busy' \cap (used \ Busy) = {}
    BY <2>1, <1>1, <1>6 DEF PagingTypeOK
  <2> QED BY <2>2, <1>1, AccountedKept DEF PagingTypeOK
<1>8. Freeing'
  BY <1>1, <1>4 DEF Freeing
<1>9. Making' /\ Mapping' /\ Answered'
  BY <1>1, NoAnswerNext DEF Making, Mapping, Answered
<1>10. SpacesStay
  BY <1>1 DEF SpacesStay
<1> QED BY <1>3, <1>7, <1>8, <1>9, <1>10

LEMMA FreeChunkInv ==
  ASSUME IInv, FreeChunk
  PROVE  IInv' /\ SpacesStay
<1> USE DEF IInv
<1>1. /\ pc = "free" /\ i = N /\ used' = used \ {Dir(mem, chunk), chunk} /\ pc' = "idle" /\ i' = 0
      /\ UNCHANGED <<mem, others, chunks, directory, chunk, flags, virt, phys, count, res>>
  BY DEF FreeChunk, Dir
<1>2. PagingTypeOK'
  BY <1>1 DEF PagingTypeOK
<1>3. Busy' = {}
  BY <1>1 DEF Busy
<1>4. Busy = {chunk, Dir(mem, chunk)} \cap Heap
  <2>1. i .. N - 1 = {}
    BY <1>1, Constants
  <2> QED BY <2>1, <1>1 DEF Busy, Part
<1>5. used' = used \ Busy
  BY <1>1, <1>4 DEF PagingTypeOK
<1>6. Accounted'
  BY <1>1, <1>3, <1>5, AccountedKept DEF PagingTypeOK
<1>7. Making' /\ Freeing' /\ Mapping' /\ Answered'
  BY <1>1, NoAnswerNext DEF Making, Freeing, Mapping, Answered
<1>8. SpacesStay
  BY <1>1 DEF SpacesStay
<1> QED BY <1>2, <1>6, <1>7, <1>8

(* The words of the struct paging_chunk.                                   *)
LEMMA ChunkWritten ==
  ASSUME IInv, NewChunk
  PROVE  /\ mem' \in Memory /\ mem'[kzalloc][0].frame = directory
         /\ mem'[kzalloc][1].frame = NULL /\ mem'[kzalloc][2].frame = NULL
         /\ \A g \in Frames : g # kzalloc => mem'[g] = mem[g]
         /\ kzalloc = NULL => \A b \in Index : b \notin {0, 1, 2} => mem'[NULL][b] = mem[NULL][b]
<1> DEFINE entry == kzalloc
           clean == Zeroed(entry)
           first == [frame |-> directory, flags |-> {}]
<1>1. mem' = [clean EXCEPT ![entry][0] = first, ![entry][1] = ZeroWord, ![entry][2] = ZeroWord]
  BY DEF NewChunk
<1>2. entry \in Frames /\ first \in Word /\ ZeroWord \in Word /\ {0, 1, 2} \subseteq Index
  BY Granted, Constants DEF IInv, PagingTypeOK, Word, ZeroWord, NULL
<1>3. /\ clean \in [Frames -> [Index -> Word]]
      /\ \A f \in Frames : f # entry => clean[f] = mem[f]
      /\ entry = NULL => clean = mem
  BY Clean DEF IInv, Memory
<1>4. first.frame = directory /\ ZeroWord.frame = NULL
  BY DEF ZeroWord, NULL
<1> HIDE DEF entry, clean, first
<1>5. mem' \in [Frames -> [Index -> Word]]
  BY <1>1, <1>2, <1>3
<1>6. mem'[entry] = [clean[entry] EXCEPT ![0] = first, ![1] = ZeroWord, ![2] = ZeroWord]
  BY <1>1, <1>2, <1>3
<1>7. clean[entry] \in [Index -> Word]
  BY <1>2, <1>3
<1>8. /\ mem'[entry][0] = first /\ mem'[entry][1] = ZeroWord /\ mem'[entry][2] = ZeroWord
      /\ \A b \in Index : b \notin {0, 1, 2} => mem'[entry][b] = clean[entry][b]
  BY <1>2, <1>6, <1>7
<1>9. \A g \in Frames : g # entry => mem'[g] = mem[g]
  BY <1>1, <1>2, <1>3
<1> QED BY <1>3, <1>4, <1>5, <1>8, <1>9 DEF entry, Memory

(* The caller gets a chunk when nothing was refused.                       *)
LEMMA NewChunkDone ==
  ASSUME IInv, NewChunk, kzalloc # NULL
  PROVE  /\ IInv' /\ SpacesStay /\ chunks' = chunks \cup {kzalloc} /\ kzalloc \in Heap \ chunks
         /\ flags \in ChunkFlags
         /\ \A v \in Frames : Entry(mem', kzalloc, v) = [frame |-> v, flags |-> flags]
<1> USE DEF IInv
<1> DEFINE c == kzalloc
<1>1. /\ pc = "table" /\ i = N /\ chunk' = c /\ used' = TakenBy(c)
      /\ pc' = "idle" /\ chunks' = chunks \cup {c} /\ i' = 0
      /\ UNCHANGED <<others, directory, flags, virt, phys, count, res>>
  BY DEF NewChunk
<1>2. c \in Heap /\ c \notin used /\ c \in Frames /\ Free # {}
  BY Granted, Constants DEF Free
<1> HIDE DEF c
<1>3. directory \in Heap /\ directory # NULL /\ flags \in ChunkFlags
  BY <1>1, <1>2 DEF Making, PagingTypeOK
<1>4. i - 1 = N - 1 /\ 0 .. i - 1 = Index
  BY <1>1 DEF Index
<1>5. \A n \in Index :
        /\ mem[directory][n].flags = flags \cup {Writeable}
        /\ mem[directory][n].frame \in Heap \ {directory}
        /\ IsIdentity(mem[mem[directory][n].frame], n, flags)
        /\ \A k \in Index : mem[directory][k].frame = mem[directory][n].frame => k = n
  BY <1>1, <1>2, <1>3, <1>4 DEF Making, Made
<1>6. Busy = {directory} \cup {mem[directory][n].frame : n \in Index}
  <2>1. Busy = ({NULL, directory} \cup {mem[directory][n].frame : n \in Index}) \cap Heap
    BY <1>1, <1>3, <1>4 DEF Busy, Part
  <2> QED BY <2>1, <1>3, <1>5, Constants
<1>7. Busy \subseteq used /\ c \notin Busy /\ c # directory
  BY <1>2, <1>6 DEF Accounted
<1>8. mem' \in Memory /\ Dir(mem', c) = directory /\ \A g \in Frames : g # c => mem'[g] = mem[g]
  BY ChunkWritten DEF c, Dir
<1>9. mem'[directory] = mem[directory]
  BY <1>3, <1>7, <1>8, Constants
<1>10. \A n \in Index : Tab(mem', c, n) = mem[directory][n].frame
  BY <1>8, <1>9 DEF Tab
<1>11. \A n \in Index : mem'[Tab(mem', c, n)] = mem[mem[directory][n].frame]
  <2> SUFFICES ASSUME NEW n \in Index PROVE mem'[mem[directory][n].frame] = mem[mem[directory][n].frame]
    BY <1>10
  <2>1. mem[directory][n].frame \in Frames /\ mem[directory][n].frame \in Busy
    BY <1>5, <1>6, Constants
  <2> QED BY <2>1, <1>7, <1>8
<1>12. \A n \in Index : /\ mem'[Dir(mem', c)][n].flags = flags \cup {Writeable}
                        /\ \A b \in Index : mem'[Tab(mem', c, n)][b] = [frame |-> n * N + b, flags |-> flags]
  BY <1>5, <1>8, <1>9, <1>11 DEF IsIdentity
<1>13. \A v \in Frames : Entry(mem', c, v) = [frame |-> v, flags |-> flags]
  BY <1>3, <1>8, <1>12, NewIsIdentity
<1>14. Sound(mem', c)
  <2>1. c \in Heap /\ Dir(mem', c) \in Heap \ {c}
    BY <1>2, <1>3, <1>7, <1>8
  <2>2. \A n \in Index : Tab(mem', c, n) \in Heap \ {c, Dir(mem', c)}
    <3>1. \A n \in Index : mem[directory][n].frame \in Busy
      BY <1>6
    <3> QED BY <3>1, <1>5, <1>7, <1>8, <1>10
  <2>3. \A k, n \in Index : Tab(mem', c, k) = Tab(mem', c, n) => k = n
    BY <1>5, <1>10
  <2>4. \A n \in Index : \A g \in MapFlags : g \subseteq mem'[Dir(mem', c)][n].flags
    <3>1. \A g \in MapFlags : g \subseteq flags \cup {Writeable}
      BY <1>3, FlagsAssumption DEF Writeable
    <3> QED BY <3>1, <1>12
  <2>5. \A n, b \in Index : /\ mem'[Tab(mem', c, n)][b].flags \in Rights
                            /\ mem'[Tab(mem', c, n)][b].flags \subseteq mem'[Dir(mem', c)][n].flags
    <3> SUFFICES ASSUME NEW n \in Index, NEW b \in Index
                 PROVE  /\ mem'[Tab(mem', c, n)][b].flags \in Rights
                        /\ mem'[Tab(mem', c, n)][b].flags \subseteq mem'[Dir(mem', c)][n].flags
      OBVIOUS
    <3> DEFINE inner == mem'[Tab(mem', c, n)][b]
               outer == mem'[Dir(mem', c)][n].flags
    <3>1. inner = [frame |-> n * N + b, flags |-> flags] /\ outer = flags \cup {Writeable}
      BY <1>12
    <3> HIDE DEF inner, outer
    <3>2. inner.flags = flags
      BY <3>1
    <3>3. inner.flags \in Rights /\ inner.flags \subseteq outer
      BY <3>1, <3>2, <1>3 DEF Rights
    <3> QED BY <3>3 DEF inner, outer
  <2> QED BY <2>1, <2>2, <2>3, <2>4, <2>5 DEF Sound
<1>15. Own(mem', c) = {c} \cup Busy
  BY <1>6, <1>8, <1>10 DEF Own
<1>16. \A g \in used : mem'[g] = mem[g]
  BY <1>2, <1>8, Constants DEF PagingTypeOK
<1>17. \A d \in chunks : /\ Sound(mem', d) /\ Own(mem', d) = Own(mem, d)
                         /\ \A v \in Frames : Entry(mem', d, v) = Entry(mem, d, v)
  BY <1>8, <1>16, KeptChunk
<1>18. \A d \in chunks : Own(mem, d) \subseteq used /\ Own(mem, d) \cap (others \cup Busy) = {} /\ d \in used
  <2> SUFFICES ASSUME NEW d \in chunks
               PROVE  Own(mem, d) \subseteq used /\ Own(mem, d) \cap (others \cup Busy) = {} /\ d \in used
    OBVIOUS
  <2>1. Sound(mem, d) /\ mem \in Memory /\ Own(mem, d) \cap (others \cup Busy) = {}
    BY DEF Accounted, PagingTypeOK
  <2>2. d \in Own(mem, d) /\ Own(mem, d) \subseteq Heap
    BY <2>1, OwnFrames
  <2>3. Own(mem, d) \subseteq Chunked(mem, chunks)
    BY <2>2 DEF Chunked
  <2> QED BY <2>1, <2>2, <2>3 DEF Accounted
<1>19. PagingTypeOK'
  BY <1>1, <1>2, <1>8, Constants DEF PagingTypeOK, TakenBy
<1>20. Accounted'
  <2>1. Busy' = {}
    BY <1>1 DEF Busy
  <2>2. \A d \in chunks : Own(mem', d) \cap Own(mem', c) = {}
    BY <1>2, <1>15, <1>17, <1>18
  <2>3. \A d \in chunks : /\ Own(mem', d) \cap others = {}
                          /\ \A e \in chunks : d # e => Own(mem', d) \cap Own(mem', e) = {}
    BY <1>17 DEF Accounted
  <2>4. Own(mem', c) \cap others = {}
    BY <1>2, <1>15 DEF Accounted
  <2>5. \A d \in chunks' : /\ Sound(mem', d)
                           /\ Own(mem', d) \cap (others' \cup Busy') = {}
                           /\ \A e \in chunks' : d # e => Own(mem', d) \cap Own(mem', e) = {}
    BY <2>1, <2>2, <2>3, <2>4, <1>1, <1>14, <1>17
  <2>6. Chunked(mem', chunks') = Chunked(mem, chunks) \cup {c} \cup Busy
    <3>1. Chunked(mem', chunks') = Chunked(mem', chunks) \cup Own(mem', c)
      BY <1>1, <1>8, <1>14, OwnFrames DEF Chunked
    <3>2. Chunked(mem', chunks) = Chunked(mem, chunks)
      BY <1>17 DEF Chunked
    <3> QED BY <3>1, <3>2, <1>15
  <2>7. used' = others' \cup Chunked(mem', chunks') \cup Busy'
    BY <2>1, <2>6, <1>1, <1>2, Constants DEF Accounted, TakenBy
  <2> QED BY <2>1, <2>5, <2>7 DEF Accounted
<1>21. Making' /\ Freeing' /\ Mapping' /\ Answered'
  BY <1>1, NoAnswerNext DEF Making, Freeing, Mapping, Answered
<1>22. SpacesStay
  BY <1>17 DEF SpacesStay
<1>23. c \notin chunks
  BY <1>2, <1>18
<1> QED BY <1>1, <1>2, <1>3, <1>13, <1>19, <1>20, <1>21, <1>22, <1>23 DEF c

(* Without the chunk the tables are taken apart through the word at NULL.  *)
LEMMA NewChunkFailed ==
  ASSUME IInv, NewChunk, kzalloc = NULL
  PROVE  IInv' /\ SpacesStay /\ UNCHANGED chunks
<1> USE DEF IInv
<1>1. /\ pc = "table" /\ i = N /\ chunk' = NULL /\ used' = used
      /\ pc' = "free" /\ chunks' = chunks /\ i' = 0
      /\ UNCHANGED <<others, directory, flags, virt, phys, count, res>>
  BY DEF NewChunk, TakenBy
<1>2. /\ mem' \in Memory /\ Dir(mem', NULL) = directory
      /\ mem'[NULL][0].frame = directory /\ mem'[NULL][1].frame = NULL /\ mem'[NULL][2].frame = NULL
      /\ \A g \in Frames : g # NULL => mem'[g] = mem[g]
      /\ \A b \in Index : b \notin {0, 1, 2} => mem'[NULL][b] = mem[NULL][b]
  BY ChunkWritten DEF Dir
<1>3. i' .. N - 1 = Index /\ 0 .. i - 1 = Index /\ i' \in 0 .. N
  BY <1>1, Constants DEF Index
<1>4. PagingTypeOK'
  BY <1>1, <1>2 DEF PagingTypeOK
<1>5. Busy' = ({NULL, directory} \cup {mem'[directory][n].frame : n \in Index}) \cap Heap
  <2>1. Busy' = Part(mem', NULL, Dir(mem', NULL), Index)
    <3>1. pc' = "free" /\ chunk' = NULL /\ i' .. N - 1 = Index
      BY <1>1, <1>3
    <3> QED BY <3>1 DEF Busy
  <2>2. Dir(mem', NULL) = directory
    BY <1>2
  <2> QED BY <2>1, <2>2 DEF Part
<1>6. ASSUME directory = NULL PROVE Busy' = Busy /\ Freeing'
  <2>1. \A n \in Index : mem'[NULL][n].frame \notin Heap
    BY <1>1, <1>2, <1>6, Constants DEF Making
  <2>2. Busy' = {} /\ Busy = {}
    BY <2>1, <1>1, <1>5, <1>6, Constants DEF Busy
  <2>3. Freeing'
    BY <2>1, <1>1, <1>2, <1>3, <1>6 DEF Freeing
  <2> QED BY <2>2, <2>3
<1>7. ASSUME directory # NULL PROVE Busy' = Busy /\ Freeing'
  <2>1. directory \in Heap /\ mem'[directory] = mem[directory]
    BY <1>2, <1>7, Constants DEF PagingTypeOK
  <2>2. Busy' = Busy
    <3>1. {mem'[directory][n].frame : n \in Index} = {mem[directory][n].frame : n \in Index}
      BY <2>1
    <3>2. Busy = ({NULL, directory} \cup {mem[directory][n].frame : n \in 0 .. i - 1}) \cap Heap
      BY <1>1, <1>7 DEF Busy, Part
    <3> QED BY <3>1, <3>2, <1>3, <1>5
  <2>3. \A n \in Index : mem[directory][n].frame \in Heap =>
          /\ mem[directory][n].frame \notin {NULL, directory}
          /\ \A k \in Index : mem[directory][k].frame = mem[directory][n].frame => k = n
    BY <1>1, <1>3, <1>7, Constants DEF Making, Made
  <2>4. \A n \in i' .. N - 1 : mem'[directory][n].frame \in Heap =>
          /\ mem'[directory][n].frame \notin {NULL, directory}
          /\ \A k \in i' .. N - 1 : mem'[directory][k].frame = mem'[directory][n].frame => k = n
    BY <2>1, <2>3, <1>3
  <2>5. Freeing'
    BY <2>4, <1>1, <1>2, <1>3 DEF Freeing
  <2> QED BY <2>2, <2>5
<1>8. Busy' = Busy /\ Freeing'
  BY <1>6, <1>7
<1>9. \A g \in used : mem'[g] = mem[g]
  BY <1>2, Constants DEF PagingTypeOK
<1>10. Accounted'
  <2>1. Busy \subseteq used
    BY DEF Accounted
  <2> QED BY <2>1, <1>1, <1>2, <1>8, <1>9, AccountedKept
<1>11. Making' /\ Mapping' /\ Answered'
  BY <1>1, NoAnswerNext DEF Making, Mapping, Answered
<1>12. SpacesStay
  BY <1>2, <1>9, KeptChunk DEF SpacesStay
<1> QED BY <1>1, <1>4, <1>8, <1>10, <1>11, <1>12

-----------------------------------------------------------------------------
LEMMA TranslateIs == \A c, v : Translate(c, v) = Entry(mem, c, v)
BY DEF Translate, DirectoryOf, Entry, Tab, Dir

LEMMA MapCall ==
  ASSUME IInv, NEW c \in chunks, NEW v \in Virts, NEW p \in Physs, NEW phys_end \in PhysEnds,
         NEW f \in MapFlags, NEW aligned \in BOOLEAN,
         paging_map_to(c, v, p, phys_end, f, aligned)
  PROVE  IInv' /\ SpacesStay /\ UNCHANGED <<mem, chunks>>
<1> USE DEF IInv
<1>1. /\ pc = "idle" /\ res' = NoCall
      /\ UNCHANGED <<mem, used, others, chunks>>
      /\ \/ /\ phys_end >= p /\ chunk' = c /\ virt' = v /\ phys' = p /\ count' = phys_end - p
            /\ flags' = f /\ i' = 0 /\ pc' = "map" /\ directory' = directory
         \/ UNCHANGED <<pc, i, directory, chunk, flags, virt, phys, count>>
  BY DEF paging_map_to, locals
<1>2. /\ v \in Frames /\ p \in Frames /\ phys_end \in Frames
      /\ phys_end >= p => phys_end - p \in 0 .. PageCount - 1
  <2>1. v \in 0 .. PageCount - 1 /\ p \in 0 .. PageCount - 1 /\ phys_end \in 0 .. PageCount - 1
    BY PagingAssumption DEF PageCount
  <2> QED BY <2>1, Constants DEF Frames
<1>3. PagingTypeOK'
  BY <1>1, <1>2 DEF PagingTypeOK
<1>4. Busy = {} /\ Busy' = {}
  BY <1>1 DEF Busy
<1>5. Accounted'
  BY <1>1, <1>4, AccountedKept DEF PagingTypeOK
<1>6. Mapping'
  BY <1>1, <1>2 DEF Mapping
<1>7. Making' /\ Freeing' /\ Answered'
  BY <1>1, NoAnswerNext DEF Making, Freeing, Answered
<1>8. SpacesStay
  BY <1>1 DEF SpacesStay
<1> QED BY <1>1, <1>3, <1>5, <1>6, <1>7, <1>8

(* One page of one directory is mapped.                                    *)
LEMMA OneMapped ==
  ASSUME IInv, MapPage
  PROVE  /\ chunk \in chunks /\ UNCHANGED <<chunks, used, others>>
         /\ mem' \in Memory /\ Sound(mem', chunk) /\ Own(mem', chunk) = Own(mem, chunk)
         /\ \A g \in Frames : g \notin Own(mem, chunk) => mem'[g] = mem[g]
         /\ Entry(mem', chunk, virt) = [frame |-> phys, flags |-> flags]
         /\ \A w \in Frames : w # virt => Entry(mem', chunk, w) = Entry(mem, chunk, w)
<1> USE DEF IInv
<1> DEFINE at == virt \div N
           place == virt % N
           table == Tab(mem, chunk, at)
           word == [frame |-> phys, flags |-> flags]
<1>1. /\ pc = "map" /\ UNCHANGED <<used, others, chunks>>
      /\ mem' = [mem EXCEPT ![table][place] = word]
  BY DEF MapPage, paging_set, paging_get_indexes, Tab, Dir
<1>2. /\ chunk \in chunks /\ flags \in MapFlags /\ virt \in Frames /\ phys \in Frames
      /\ mem \in Memory /\ Sound(mem, chunk)
  BY <1>1 DEF Mapping, PagingTypeOK, Accounted
<1>3. at \in Index /\ place \in Index /\ virt = at * N + place
  BY <1>2, Places
<1>4. table \in Frames /\ table \in Own(mem, chunk) /\ table # chunk /\ table # Dir(mem, chunk)
  BY <1>2, <1>3, OwnFrames, Constants DEF Sound
<1>5. word \in Word
  BY <1>2, FlagsAssumption DEF Word, Present, User, Writeable
<1> HIDE DEF at, place, table, word
<1>6. /\ mem' \in Memory /\ mem'[table][place] = word
      /\ \A g \in Frames : g # table => mem'[g] = mem[g]
      /\ \A b \in Index : b # place => mem'[table][b] = mem[table][b]
  BY <1>1, <1>2, <1>3, <1>4, <1>5 DEF Memory
<1>7. mem'[chunk] = mem[chunk] /\ mem'[Dir(mem, chunk)] = mem[Dir(mem, chunk)]
  BY <1>2, <1>4, <1>6, Constants DEF Sound
<1>8. Dir(mem', chunk) = Dir(mem, chunk)
  BY <1>7 DEF Dir
<1>9. \A n : Tab(mem', chunk, n) = Tab(mem, chunk, n)
  BY <1>7, <1>8 DEF Tab
<1>10. Own(mem', chunk) = Own(mem, chunk)
  BY <1>8, <1>9 DEF Own
<1>11. \A n \in Index : Tab(mem, chunk, n) \in Frames /\ (Tab(mem, chunk, n) = table => n = at)
  BY <1>2, <1>3, Constants DEF Sound, table
<1>12. \A n, b \in Index :
          \/ n = at /\ b = place /\ mem'[Tab(mem, chunk, n)][b] = word
          \/ ~ (n = at /\ b = place) /\ mem'[Tab(mem, chunk, n)][b] = mem[Tab(mem, chunk, n)][b]
  <2>1. Tab(mem, chunk, at) = table
    BY DEF table
  <2> QED BY <2>1, <1>6, <1>11
<1>13. word.frame = phys /\ word.flags = flags /\ flags \in Rights
       /\ \A n \in Index : flags \subseteq mem[Dir(mem, chunk)][n].flags
  BY <1>2 DEF word, Rights, Sound
<1>14. Sound(mem', chunk)
  <2>1. \A n, b \in Index : /\ mem'[Tab(mem, chunk, n)][b].flags \in Rights
                            /\ mem'[Tab(mem, chunk, n)][b].flags \subseteq mem[Dir(mem, chunk)][n].flags
    BY <1>2, <1>12, <1>13 DEF Sound
  <2> QED BY <2>1, <1>2, <1>7, <1>8, <1>9 DEF Sound
<1>15. Entry(mem', chunk, virt) = [frame |-> phys, flags |-> flags]
  <2> DEFINE inner == mem'[Tab(mem', chunk, at)][place]
             outer == mem'[Dir(mem', chunk)][at].flags
  <2>1. inner = word /\ outer = mem[Dir(mem, chunk)][at].flags
    BY <1>3, <1>7, <1>8, <1>9, <1>12
  <2>2. Entry(mem', chunk, virt) = [frame |-> inner.frame, flags |-> outer \cap inner.flags]
    BY DEF Entry, at, place
  <2> HIDE DEF inner, outer
  <2>3. inner.frame = phys /\ inner.flags = flags /\ flags \subseteq outer
    BY <2>1, <1>3, <1>13
  <2>4. outer \cap inner.flags = flags
    BY <2>3
  <2> QED BY <2>2, <2>3, <2>4
<1>16. ASSUME NEW w \in Frames, w # virt PROVE Entry(mem', chunk, w) = Entry(mem, chunk, w)
  <2> DEFINE n == w \div N
             b == w % N
  <2>1. n \in Index /\ b \in Index /\ w = n * N + b
    BY Places
  <2>2. Entry(mem', chunk, w) = [frame |-> mem'[Tab(mem', chunk, n)][b].frame,
                                 flags |-> mem'[Dir(mem', chunk)][n].flags \cap mem'[Tab(mem', chunk, n)][b].flags]
    BY DEF Entry
  <2>3. Entry(mem, chunk, w) = [frame |-> mem[Tab(mem, chunk, n)][b].frame,
                                flags |-> mem[Dir(mem, chunk)][n].flags \cap mem[Tab(mem, chunk, n)][b].flags]
    BY DEF Entry
  <2> HIDE DEF n, b
  <2>4. ~ (n = at /\ b = place)
    BY <2>1, <1>3, <1>16
  <2>5. mem'[Tab(mem, chunk, n)][b] = mem[Tab(mem, chunk, n)][b]
    BY <2>1, <2>4, <1>12
  <2> QED BY <2>2, <2>3, <2>5, <1>7, <1>8, <1>9
<1>17. \A g \in Frames : g \notin Own(mem, chunk) => mem'[g] = mem[g]
  BY <1>4, <1>6
<1> QED BY <1>1, <1>2, <1>6, <1>10, <1>14, <1>15, <1>16, <1>17

LEMMA OthersKept ==
  ASSUME IInv, MapPage, NEW c \in chunks, c # chunk
  PROVE  /\ Sound(mem', c) /\ Own(mem', c) = Own(mem, c)
         /\ \A v \in Frames : Entry(mem', c, v) = Entry(mem, c, v)
<1>1. chunk \in chunks /\ mem' \in Memory /\ mem \in Memory
      /\ \A g \in Frames : g \notin Own(mem, chunk) => mem'[g] = mem[g]
  BY OneMapped DEF IInv, PagingTypeOK
<1>2. Sound(mem, c) /\ Own(mem, c) \cap Own(mem, chunk) = {}
  BY <1>1 DEF IInv, Accounted
<1>3. Own(mem, c) \subseteq Frames
  BY <1>1, <1>2, OwnFrames, Constants
<1>4. \A g \in Own(mem, c) : mem'[g] = mem[g]
  BY <1>1, <1>2, <1>3
<1> QED BY <1>1, <1>2, <1>4, Untouched

LEMMA MapPageInv ==
  ASSUME IInv, MapPage
  PROVE  IInv'
<1> USE DEF IInv
<1>1. /\ pc = "map" /\ i < count /\ i' = i + 1
      /\ virt' = (virt + 1) % PageCount /\ phys' = (phys + 1) % PageCount
      /\ UNCHANGED <<used, others, chunks, pc, directory, chunk, flags, count, res>>
  BY DEF MapPage
<1>2. chunk \in chunks /\ flags \in MapFlags /\ i \in 0 .. count /\ count \in 0 .. PageCount - 1
      /\ virt \in Frames /\ phys \in Frames /\ PageCount \in Nat
  BY <1>1, Constants DEF Mapping, PagingTypeOK
<1>3. /\ virt' \in Frames /\ Before(virt', 1) = virt
      /\ \A k \in 1 .. PageCount - 2 : /\ Before(virt', k + 1) = Before(virt, k)
                                       /\ Before(virt, k) # virt /\ Before(virt, k) \in Frames
  BY <1>1, <1>2, RoundTheEnd
<1>4. /\ phys' \in Frames /\ Before(phys', 1) = phys
      /\ \A k \in 1 .. PageCount - 2 : Before(phys', k + 1) = Before(phys, k)
  BY <1>1, <1>2, RoundTheEnd
<1>5. PagingTypeOK'
  BY <1>1, <1>2, <1>3, <1>4, OneMapped DEF PagingTypeOK
<1>6. Busy = {} /\ Busy' = {}
  BY <1>1 DEF Busy
<1>7. \A c \in chunks : Sound(mem', c) /\ Own(mem', c) = Own(mem, c)
  BY OneMapped, OthersKept
<1>8. Accounted'
  <2>1. Chunked(mem', chunks') = Chunked(mem, chunks)
    BY <1>1, <1>7 DEF Chunked
  <2> QED BY <2>1, <1>1, <1>6, <1>7 DEF Accounted
<1>9. Mapping'
  <2>1. ASSUME NEW k \in 1 .. i'
        PROVE  Entry(mem', chunk, Before(virt', k)) = [frame |-> Before(phys', k), flags |-> flags]
    <3>1. CASE k = 1
      BY <3>1, <1>3, <1>4, OneMapped
    <3>2. CASE k # 1
      <4> DEFINE j == k - 1
      <4>1. j \in 1 .. i /\ j \in 1 .. PageCount - 2 /\ k = j + 1
        BY <3>2, <1>1, <1>2
      <4> HIDE DEF j
      <4>2. /\ Before(virt', k) = Before(virt, j) /\ Before(phys', k) = Before(phys, j)
            /\ Before(virt, j) # virt /\ Before(virt, j) \in Frames
        BY <4>1, <1>3, <1>4
      <4>3. Entry(mem, chunk, Before(virt, j)) = [frame |-> Before(phys, j), flags |-> flags]
        BY <4>1, <1>1 DEF Mapping
      <4>4. Entry(mem', chunk, Before(virt, j)) = Entry(mem, chunk, Before(virt, j))
        BY <4>2, OneMapped
      <4> QED BY <4>2, <4>3, <4>4
    <3> QED BY <3>1, <3>2
  <2>2. i' \in 0 .. count
    BY <1>1, <1>2
  <2> QED BY <2>1, <2>2, <1>1, <1>2 DEF Mapping
<1>10. Making' /\ Freeing' /\ Answered'
  BY <1>1, NoAnswerNext DEF Making, Freeing, Answered
<1> QED BY <1>5, <1>8, <1>9, <1>10

(* Counting back a number of pages and forth some of them.                 *)
LEMMA BackAndForth ==
  ASSUME NEW x \in Frames, NEW n \in 0 .. PageCount - 1, NEW k \in 0 .. n - 1
  PROVE  (((x - n) % PageCount) + k) % PageCount = Before(x, n - k) /\ Before(x, n - k) \in Frames
<1> DEFINE P == PageCount
<1>0. P \in Nat /\ P > 0 /\ x \in Nat /\ x < P /\ n \in Nat /\ n < P /\ k \in Nat /\ k < n
  BY Constants DEF Frames
<1> DEFINE from == IF n <= x THEN x - n ELSE x - n + P
<1> HIDE DEF P
<1>1. from \in 0 .. P - 1
  BY <1>0
<1>2. (x - n) % P = from
  <2>1. x - n = from \/ x - n = from - P
    BY <1>0
  <2>2. from % P = from /\ (from - P) % P = from
    BY <1>0, <1>1, ModOf
  <2> HIDE DEF from
  <2> QED BY <2>1, <2>2
<1> DEFINE to == IF from + k < P THEN from + k ELSE from + k - P
<1>3. to \in 0 .. P - 1
  BY <1>0, <1>1
<1>4. (from + k) % P = to
  <2>1. from + k = to \/ from + k = to + P
    BY <1>0, <1>1
  <2>2. to % P = to /\ (to + P) % P = to
    BY <1>0, <1>3, ModOf
  <2> HIDE DEF to, from
  <2> QED BY <2>1, <2>2
<1>5. to = Before(x, n - k)
  BY <1>0 DEF Before, P
<1>6. to \in Frames
  BY <1>3 DEF Frames, P
<1> QED BY <1>2, <1>4, <1>5, <1>6 DEF P

LEMMA MapEndInv ==
  ASSUME IInv, MapEnd
  PROVE  IInv' /\ SpacesStay
<1> USE DEF IInv
<1>1. /\ pc = "map" /\ i = count /\ pc' = "idle"
      /\ res' = [chunk |-> chunk, virt |-> (virt - count) % PageCount,
                 phys |-> (phys - count) % PageCount, count |-> count, flags |-> flags]
      /\ UNCHANGED <<mem, used, others, chunks, i, directory, chunk, flags, virt, phys, count>>
  BY DEF MapEnd, locals
<1>2. PagingTypeOK'
  BY <1>1 DEF PagingTypeOK
<1>3. Busy = {} /\ Busy' = {}
  BY <1>1 DEF Busy
<1>4. Accounted'
  BY <1>1, <1>3, AccountedKept DEF PagingTypeOK
<1>5. MapToMapsAll'
  <2> SUFFICES ASSUME NEW k \in 0 .. res'.count - 1
               PROVE  Entry(mem', res'.chunk, (res'.virt + k) % PageCount) =
                        [frame |-> (res'.phys + k) % PageCount, flags |-> res'.flags]
    BY TranslateIs DEF MapToMapsAll, Translate, DirectoryOf, Entry, Tab, Dir
  <2>1. /\ res'.chunk = chunk /\ res'.count = count /\ res'.flags = flags
        /\ res'.virt = (virt - count) % PageCount /\ res'.phys = (phys - count) % PageCount
    BY <1>1
  <2>2. k \in 0 .. count - 1 /\ count \in 0 .. PageCount - 1 /\ virt \in Frames /\ phys \in Frames
    BY <2>1 DEF PagingTypeOK
  <2>3. /\ (res'.virt + k) % PageCount = Before(virt, count - k)
        /\ (res'.phys + k) % PageCount = Before(phys, count - k)
    BY <2>1, <2>2, BackAndForth
  <2>4. count - k \in 1 .. i
    BY <2>2, <1>1
  <2>5. Entry(mem, chunk, Before(virt, count - k)) = [frame |-> Before(phys, count - k), flags |-> flags]
    BY <2>4, <1>1 DEF Mapping
  <2> QED BY <2>1, <2>3, <2>5, <1>1
<1>6. Making' /\ Freeing' /\ Mapping' /\ Answered'
  BY <1>1, <1>5 DEF Making, Freeing, Mapping, Answered
<1>7. SpacesStay
  BY <1>1 DEF SpacesStay
<1> QED BY <1>2, <1>4, <1>6, <1>7

LEMMA InitInv == Init => IInv
<1> SUFFICES ASSUME Init PROVE IInv
  OBVIOUS
<1>1. /\ pc = "idle" /\ chunks = {} /\ used = others /\ others \in Holdings /\ res = NoCall
      /\ i = 0 /\ directory = NULL /\ chunk = NULL /\ virt = 0 /\ phys = 0 /\ count = 0
      /\ mem = [f \in Frames |-> ZeroFrame]
  BY DEF Init
<1>2. mem \in Memory
  <2>1. ZeroWord \in Word
    BY Constants DEF ZeroWord, Word, NULL
  <2>2. ZeroFrame \in [Index -> Word]
    BY <2>1 DEF ZeroFrame
  <2> QED BY <2>2, <1>1 DEF Memory
<1>3. others \subseteq Heap
  BY <1>1, PagingAssumption
<1>4. PagingTypeOK
  BY <1>1, <1>2, <1>3, Constants DEF PagingTypeOK, NULL
<1>5. Accounted
  BY <1>1 DEF Accounted, Busy, Chunked
<1> QED BY <1>1, <1>4, <1>5, NoAnswer DEF IInv, Making, Freeing, Mapping, Answered

LEMMA NewChunkInv == ASSUME IInv, NewChunk PROVE IInv'
BY NewChunkDone, NewChunkFailed

LEMMA StutterInv == ASSUME IInv, UNCHANGED vars PROVE IInv'
<1> USE DEF IInv
<1>1. UNCHANGED <<mem, used, others, chunks, pc, i, directory, chunk, flags, virt, phys, count, res>>
  BY DEF vars, locals
<1>2. PagingTypeOK'
  BY <1>1 DEF PagingTypeOK
<1>3. Busy' = Busy /\ Free' = Free
  BY <1>1 DEF Busy, Free
<1>4. Accounted'
  BY <1>1, <1>3 DEF Accounted
<1>5. Making'
  BY <1>1, <1>3 DEF Making, Made
<1>6. Freeing' /\ Mapping'
  BY <1>1 DEF Freeing, Mapping
<1>7. Answered'
  BY <1>1 DEF Answered, MapToMapsAll, Translate, DirectoryOf
<1> QED BY <1>2, <1>4, <1>5, <1>6, <1>7

LEMMA NextInv == IInv /\ [Next]_vars => IInv'
<1> SUFFICES ASSUME IInv, [Next]_vars PROVE IInv'
  OBVIOUS
<1>1. CASE Iterate
  BY <1>1, NewTableInv, NewChunkInv, FreeTableInv, FreeChunkInv, MapPageInv, MapEndInv DEF Iterate
<1>2. ASSUME NEW f \in ChunkFlags, paging_chunk_new(f) PROVE IInv'
  BY <1>2, NewCall
<1>3. ASSUME NEW c \in chunks, paging_chunk_free(c) PROVE IInv'
  BY <1>3, FreeCall
<1>4. ASSUME NEW c \in chunks, NEW v \in Virts, NEW p \in Physs, NEW phys_end \in PhysEnds,
             NEW f \in MapFlags, NEW aligned \in BOOLEAN,
             paging_map_to(c, v, p, phys_end, f, aligned)
      PROVE  IInv'
  BY <1>4, MapCall
<1> QED BY <1>1, <1>2, <1>3, <1>4, StutterInv DEF Next

(* Between any two iterations of the loops of paging.c, for tables of any  *)
(* size and whatever allocation fails: what is in use is the rest of the   *)
(* kernel's, a chunk's, or the call's in progress, and of one owner only.  *)
THEOREM PagingInvariance == Spec => []IInv
BY InitInv, NextInv, PTL DEF Spec

(* paging_chunk_free, and paging_chunk_new when it fails at any of its     *)
(* kzallocs, give back each block once and nobody else's (paging.c:43-66). *)
THEOREM PagingFramesAccountedFor == Spec => []FramesAccountedFor
<1>1. IInv => FramesAccountedFor
  <2> SUFFICES ASSUME IInv PROVE FramesAccountedFor
    OBVIOUS
  <2>1. \A c \in chunks : FramesOf(c) = Own(mem, c) /\ Own(mem, c) \subseteq Heap
    <3>1. \A c : FramesOf(c) = Own(mem, c)
      BY DEF FramesOf, DirectoryOf, TableOf, Own, Dir, Tab
    <3> QED BY <3>1, OwnFrames DEF IInv, Accounted, PagingTypeOK
  <2>2. Chunked(mem, chunks) = UNION {FramesOf(c) : c \in chunks}
    BY <2>1 DEF Chunked
  <2>3. others \subseteq used
    BY DEF IInv, Accounted
  <2>4. pc = "idle" => used = others \cup UNION {FramesOf(c) : c \in chunks}
    <3>1. pc = "idle" => Busy = {}
      BY DEF Busy
    <3> QED BY <3>1, <2>2 DEF IInv, Accounted
  <2>5. \A c, d \in chunks : c # d => FramesOf(c) \cap FramesOf(d) = {}
    BY <2>1 DEF IInv, Accounted
  <2>6. \A c \in chunks : FramesOf(c) \cap others = {}
    BY <2>1 DEF IInv, Accounted
  <2> QED BY <2>3, <2>4, <2>5, <2>6 DEF FramesAccountedFor
<1> QED BY <1>1, PagingInvariance, PTL

(* paging_map_range maps the whole range, with the rights asked for, over  *)
(* the ends of tables and of the address space (paging.c:141-150).         *)
THEOREM PagingMapToMapsAll == Spec => []MapToMapsAll
<1>1. IInv => MapToMapsAll
  BY DEF IInv, Answered
<1> QED BY <1>1, PagingInvariance, PTL
-----------------------------------------------------------------------------
(* The address spaces as AddressSpace has them.                            *)
space == [c \in chunks |-> [v \in Frames |-> Translate(c, v)]]

LEMMA SpaceIs ==
  /\ DOMAIN space = chunks
  /\ \A c \in chunks : space[c] = [v \in Frames |-> Entry(mem, c, v)]
  /\ space = [c \in chunks |-> [v \in Frames |-> Entry(mem, c, v)]]
<1>1. \A c, v : Translate(c, v) = Entry(mem, c, v)
  BY TranslateIs
<1> QED BY <1>1 DEF space

LEMMA SpaceIsNext ==
  /\ DOMAIN space' = chunks'
  /\ \A c \in chunks' : space'[c] = [v \in Frames |-> Entry(mem', c, v)]
  /\ space' = [c \in chunks' |-> [v \in Frames |-> Entry(mem', c, v)]]
<1>1. \A c, v : Translate(c, v)' = Entry(mem', c, v)
  BY DEF Translate, DirectoryOf, Entry, Tab, Dir
<1> QED BY <1>1 DEF space

LEMMA SpaceStays ==
  ASSUME SpacesStay, UNCHANGED chunks
  PROVE  UNCHANGED space
<1>1. \A c \in chunks : \A v \in Frames : Entry(mem', c, v) = Entry(mem, c, v)
  BY DEF SpacesStay
<1>2. space' = [c \in chunks |-> [v \in Frames |-> Entry(mem', c, v)]]
  BY SpaceIsNext
<1>3. [c \in chunks |-> [v \in Frames |-> Entry(mem', c, v)]] =
        [c \in chunks |-> [v \in Frames |-> Entry(mem, c, v)]]
  BY <1>1
<1> QED BY <1>2, <1>3, SpaceIs

LEMMA SpaceOfOthers ==
  ASSUME SpacesStay, NEW c \in chunks, c \in chunks'
  PROVE  space'[c] = space[c]
<1>1. \A v \in Frames : Entry(mem', c, v) = Entry(mem, c, v)
  BY DEF SpacesStay
<1>2. [v \in Frames |-> Entry(mem', c, v)] = [v \in Frames |-> Entry(mem, c, v)]
  BY <1>1
<1>3. space'[c] = [v \in Frames |-> Entry(mem', c, v)]
  BY SpaceIsNext
<1>4. space[c] = [v \in Frames |-> Entry(mem, c, v)]
  BY SpaceIs
<1> QED BY <1>2, <1>3, <1>4

LEMMA InitSpace == Init => Space!Init
<1> SUFFICES ASSUME Init PROVE Space!Init
  OBVIOUS
<1>1. chunks = {}
  BY DEF Init
<1>2. space = [c \in {} |-> <<>>]
  BY <1>1 DEF space
<1> QED BY <1>2 DEF Space!Init, space

LEMMA NewChunkSpace ==
  ASSUME IInv, NewChunk, kzalloc # NULL
  PROVE  Space!Create(kzalloc, flags)
<1> DEFINE c == kzalloc
<1>1. /\ SpacesStay /\ chunks' = chunks \cup {c} /\ c \in Heap \ chunks
      /\ \A v \in Frames : Entry(mem', c, v) = [frame |-> v, flags |-> flags]
  BY NewChunkDone
<1> HIDE DEF c
<1>2. c \notin DOMAIN space /\ DOMAIN space' = DOMAIN space \cup {c}
  BY <1>1, SpaceIs, SpaceIsNext
<1>3. space'[c] = Space!Identity(flags)
  <2>1. space'[c] = [v \in Frames |-> Entry(mem', c, v)]
    BY <1>1, SpaceIsNext
  <2>2. [v \in Frames |-> Entry(mem', c, v)] = [v \in Frames |-> [frame |-> v, flags |-> flags]]
    BY <1>1
  <2>3. Space!Identity(flags) = [v \in Frames |-> [frame |-> v, flags |-> flags]]
    BY DEF Space!Identity, Space!Pages, Frames
  <2> QED BY <2>1, <2>2, <2>3
<1>4. \A d \in DOMAIN space : space'[d] = space[d]
  BY <1>1, SpaceIs, SpaceOfOthers
<1> QED BY <1>2, <1>3, <1>4, Zenon DEF Space!Create, space, c

LEMMA FreeSpace ==
  ASSUME IInv, NEW c \in chunks, paging_chunk_free(c)
  PROVE  Space!Delete(c)
<1>1. SpacesStay /\ chunks' = chunks \ {c}
  BY FreeCall DEF paging_chunk_free
<1>2. DOMAIN space' = DOMAIN space \ {c}
  BY <1>1, SpaceIs, SpaceIsNext
<1>3. \A d \in DOMAIN space' : space'[d] = space[d]
  BY <1>1, SpaceIsNext, SpaceOfOthers
<1> QED BY <1>2, <1>3, Zenon DEF Space!Delete, space

LEMMA MapSpace ==
  ASSUME IInv, MapPage
  PROVE  chunk \in chunks /\ virt \in Frames /\ Space!Map(chunk, virt)
<1>1. /\ chunk \in chunks /\ chunks' = chunks /\ mem' \in Memory /\ Sound(mem', chunk)
      /\ \A w \in Frames : w # virt => Entry(mem', chunk, w) = Entry(mem, chunk, w)
      /\ virt \in Frames
  BY OneMapped DEF IInv, PagingTypeOK
<1>2. DOMAIN space' = DOMAIN space
  BY <1>1, SpaceIs, SpaceIsNext
<1>3. \A v \in Frames : space'[chunk][v] = Entry(mem', chunk, v)
  BY <1>1, SpaceIsNext
<1>4. space'[chunk][virt] \in Space!PageEntry
  <2>1. Space!PageEntry = [frame : Frames, flags : Rights]
    BY DEF Space!PageEntry, Space!Pages, Frames, Rights
  <2> QED BY <2>1, <1>1, <1>3, EntryType
<1>5. space' = [space EXCEPT ![chunk][virt] = space'[chunk][virt]]
  <2> DEFINE old == [c \in chunks |-> [v \in Frames |-> Entry(mem, c, v)]]
             new == [c \in chunks |-> [v \in Frames |-> Entry(mem', c, v)]]
             e == Entry(mem', chunk, virt)
  <2>1. space = old /\ space' = new /\ space'[chunk][virt] = e
    BY <1>1, <1>3, SpaceIs, SpaceIsNext
  <2>2. \A c \in chunks : c # chunk => \A v \in Frames : Entry(mem', c, v) = Entry(mem, c, v)
    BY OthersKept
  <2>3. new = [old EXCEPT ![chunk][virt] = e]
    <3>1. \A c \in chunks : c # chunk => new[c] = old[c]
      BY <2>2
    <3>2. new[chunk] = [old[chunk] EXCEPT ![virt] = e]
      BY <1>1
    <3>3. [old EXCEPT ![chunk][virt] = e] = [c \in chunks |-> IF c = chunk THEN [old[chunk] EXCEPT ![virt] = e] ELSE old[c]]
      BY <1>1
    <3>4. new = [c \in chunks |-> new[c]]
      OBVIOUS
    <3> HIDE DEF new, old, e
    <3>5. new = [c \in chunks |-> IF c = chunk THEN [old[chunk] EXCEPT ![virt] = e] ELSE old[c]]
      BY <3>1, <3>2, <3>4
    <3> QED BY <3>3, <3>5
  <2> HIDE DEF new, old, e
  <2> QED BY <2>1, <2>3
<1> QED BY <1>1, <1>2, <1>4, <1>5, Zenon DEF Space!Map, space

(* Every step of paging.c is a step of the address spaces, or changes none.*)
LEMMA StepSpace == IInv /\ [Next]_vars => [Space!Next]_space
<1> SUFFICES ASSUME IInv, [Next]_vars PROVE Space!Next \/ UNCHANGED space
  OBVIOUS
<1>0. DOMAIN space = chunks /\ chunks \subseteq Heap
  BY SpaceIs DEF IInv, PagingTypeOK
<1>1. CASE NewChunk
  <2>1. CASE kzalloc # NULL
    <3>1. Space!Create(kzalloc, flags) /\ kzalloc \in Heap /\ flags \in ChunkFlags \cup MapFlags
      BY <1>1, <2>1, NewChunkSpace, NewChunkDone
    <3> QED BY <3>1 DEF Space!Next
  <2>2. CASE kzalloc = NULL
    BY <1>1, <2>2, NewChunkFailed, SpaceStays
  <2> QED BY <2>1, <2>2
<1>2. CASE NewTable
  BY <1>2, NewTableInv, SpaceStays DEF NewTable
<1>3. CASE FreeTable
  BY <1>3, FreeTableInv, SpaceStays DEF FreeTable
<1>4. CASE FreeChunk
  BY <1>4, FreeChunkInv, SpaceStays DEF FreeChunk
<1>5. CASE MapPage
  <2>1. chunk \in chunks /\ virt \in Frames /\ Space!Map(chunk, virt)
    BY <1>5, MapSpace
  <2>2. chunk \in DOMAIN space /\ virt \in Space!Pages
    BY <2>1, <1>0 DEF Space!Pages, Frames
  <2> QED BY <2>1, <2>2, Zenon DEF Space!Next, space
<1>6. CASE MapEnd
  BY <1>6, MapEndInv, SpaceStays DEF MapEnd
<1>7. ASSUME NEW f \in ChunkFlags, paging_chunk_new(f) PROVE UNCHANGED space
  BY <1>7, NewCall, SpaceStays DEF paging_chunk_new
<1>8. ASSUME NEW c \in chunks, paging_chunk_free(c) PROVE Space!Next
  <2>1. Space!Delete(c) /\ c \in DOMAIN space
    BY <1>8, <1>0, FreeSpace
  <2> QED BY <2>1, Zenon DEF Space!Next, space
<1>9. ASSUME NEW c \in chunks, NEW v \in Virts, NEW p \in Physs, NEW phys_end \in PhysEnds,
             NEW f \in MapFlags, NEW aligned \in BOOLEAN,
             paging_map_to(c, v, p, phys_end, f, aligned)
      PROVE  UNCHANGED space
  BY <1>9, MapCall, SpaceStays
<1>10. CASE UNCHANGED vars
  <2>1. SpacesStay /\ UNCHANGED chunks
    BY <1>10 DEF vars, SpacesStay
  <2> QED BY <2>1, SpaceStays
<1> QED BY <1>1, <1>2, <1>3, <1>4, <1>5, <1>6, <1>7, <1>8, <1>9, <1>10 DEF Next, Iterate

(* Directories and tables are address spaces: a chunk that a caller gets   *)
(* is complete and maps every page to itself, a mapping changes one page   *)
(* of one of them, and freeing one leaves the others alone.                *)
THEOREM PagingImplementsAddressSpace == Spec => ImplementsAddressSpace
<1>1. Init => Space!Init
  BY InitSpace
<1>2. IInv /\ [Next]_vars => [Space!Next]_space
  BY StepSpace
<1> QED BY <1>1, <1>2, PagingInvariance, PTL DEF Spec, ImplementsAddressSpace, Space!Spec, space
-----------------------------------------------------------------------------
(* The list of tasks, whose members have the directories above.            *)
(*                                                                         *)
(* Its three properties hold each other up: a removal relinks through      *)
(* prev, finds the new tail there, and takes the next task from next.      *)
(* Exact adds that no task is in the list twice, and that only the first   *)
(* task is ever the current one, so that a current task is freed last.     *)
Links(ord, nxt, prv) ==
  \A k \in 1 .. Len(ord) :
    /\ nxt[ord[k]] = IF k = Len(ord) THEN NoTask ELSE ord[k + 1]
    /\ prv[ord[k]] = IF k = 1 THEN NoTask ELSE ord[k - 1]

Ends(ord, head, tail) ==
  /\ ord = <<>> => head = NoTask /\ tail = NoTask
  /\ ord # <<>> => head = ord[1] /\ tail = ord[Len(ord)]

Distinct(ord) == \A j, k \in 1 .. Len(ord) : ord[j] = ord[k] => j = k

Exact ==
  /\ Links(order, next, prev)
  /\ Ends(order, task_head, task_tail)
  /\ Distinct(order)
  /\ current_task \in {NoTask, task_head}

ListInv == TypeOK /\ (~ headFreed => Exact)
-----------------------------------------------------------------------------
(* What is left of a sequence when its k-th member is taken out.           *)
LEMMA WithoutOne ==
  ASSUME NEW S, NEW s \in Seq(S), NEW k \in 1 .. Len(s)
  PROVE  /\ Without(s, k) \in Seq(S)
         /\ Len(Without(s, k)) = Len(s) - 1
         /\ \A j \in 1 .. Len(s) - 1 : Without(s, k)[j] = IF j < k THEN s[j] ELSE s[j + 1]
<1> DEFINE n == Len(s) - 1
           w == [j \in 1 .. n |-> IF j < k THEN s[j] ELSE s[j + 1]]
<1>1. n \in Nat /\ Len(s) \in Nat
  BY LenProperties
<1>2. \A j \in 1 .. n : j \in 1 .. Len(s) /\ j + 1 \in 1 .. Len(s)
  BY <1>1
<1>3. \A j \in 1 .. Len(s) : s[j] \in S
  BY ElementOfSeq
<1>4. w \in [1 .. n -> S]
  BY <1>2, <1>3
<1>5. w \in Seq(S)
  BY <1>1, <1>4
<1>6. Len(w) = n
  BY <1>1, <1>5, LenProperties
<1> QED BY <1>5, <1>6 DEF Without

LEMMA InitList == TaskInit => ListInv
<1> SUFFICES ASSUME TaskInit PROVE ListInv
  OBVIOUS
<1>1. order = <<>> /\ order \in Seq(Tasks) /\ Len(order) = 0
  BY EmptySeq DEF TaskInit
<1>2. TypeOK
  BY <1>1 DEF TaskInit, TypeOK, Address
<1> QED BY <1>1, <1>2 DEF TaskInit, ListInv, Exact, Links, Ends, Distinct

(* The new task is linked behind the last one.                             *)
LEMMA NewTask ==
  ASSUME ListInv, NEW t \in Tasks, task_new(t)
  PROVE  ListInv'
<1> DEFINE n == Len(order)
<1>1. /\ n \in Nat /\ order \in Seq(Tasks)
      /\ order' \in Seq(Tasks) /\ Len(order') = n + 1
      /\ order'[n + 1] = t
      /\ \A k \in 1 .. n : order'[k] = order[k]
  BY AppendProperties, LenProperties DEF task_new, ListInv, TypeOK
<1>2. \A k \in 1 .. n : order[k] \in Tasks /\ order[k] # t
  BY <1>1, ElementOfSeq DEF task_new, Live
<1>3. TypeOK'
  BY <1>1 DEF ListInv, TypeOK, task_new, First, AtEnd, Address
<1>4. ASSUME ~ headFreed' PROVE Exact'
  <2>1. Exact /\ UNCHANGED current_task
    BY <1>4 DEF ListInv, task_new
  <2>2. CASE First(t)
    <3>1. n = 0 /\ order = <<>> /\ current_task = NoTask
      BY <2>1, <2>2, <1>1, <1>2, TasksAssumption, EmptySeq DEF Exact, Ends, First
    <3>2. \A k \in 1 .. Len(order') : k = 1 /\ order'[k] = t
      BY <3>1, <1>1
    <3>3. next'[t] = NoTask /\ prev'[t] = NoTask
      BY <2>2 DEF First, ListInv, TypeOK, Address
    <3>4. order' # <<>>
      BY <1>1, EmptySeq
    <3> QED BY <2>1, <2>2, <3>1, <3>2, <3>3, <3>4, <1>1 DEF First, Exact, Links, Ends, Distinct
  <2>3. CASE AtEnd(t)
    <3>1. n > 0 /\ order # <<>> /\ task_tail = order[n] /\ task_head = order[1]
      BY <2>1, <2>3, <1>1, EmptySeq DEF Exact, Ends, AtEnd
    <3>2. n \in 1 .. n /\ task_tail \in Tasks /\ task_tail # t
      BY <3>1, <1>1, <1>2
    <3>3. /\ next'[t] = NoTask /\ next'[task_tail] = t
          /\ prev'[t] = task_tail
          /\ \A a \in Tasks : a # t => /\ prev'[a] = prev[a]
                                       /\ a # task_tail => next'[a] = next[a]
      BY <2>3, <3>2 DEF AtEnd, ListInv, TypeOK, Address
    <3>4. \A k \in 1 .. n : order[k] = task_tail => k = n
      BY <2>1, <3>1, <3>2 DEF Exact, Distinct
    <3>5. Links(order', next', prev')
      <4> SUFFICES ASSUME NEW k \in 1 .. Len(order')
                   PROVE  /\ next'[order'[k]] = IF k = Len(order') THEN NoTask ELSE order'[k + 1]
                          /\ prev'[order'[k]] = IF k = 1 THEN NoTask ELSE order'[k - 1]
        BY DEF Links
      <4>1. CASE k = n + 1
        BY <4>1, <3>1, <3>2, <3>3, <1>1
      <4>2. CASE k \in 1 .. n - 1
        <5>1. /\ k \in 1 .. n /\ k + 1 \in 1 .. n /\ k # n /\ k # n + 1
              /\ k # 1 => k - 1 \in 1 .. n
          BY <4>2, <1>1
        <5>2. /\ next[order[k]] = order[k + 1]
              /\ prev[order[k]] = IF k = 1 THEN NoTask ELSE order[k - 1]
          BY <5>1, <2>1 DEF Exact, Links
        <5> QED BY <5>1, <5>2, <3>3, <3>4, <1>1, <1>2
      <4>3. CASE k = n
        <5>1. k \in 1 .. n /\ k # n + 1 /\ (k # 1 => k - 1 \in 1 .. n)
          BY <4>3, <3>1, <1>1
        <5>2. prev[order[k]] = IF k = 1 THEN NoTask ELSE order[k - 1]
          BY <5>1, <2>1 DEF Exact, Links
        <5> QED BY <4>3, <5>1, <5>2, <3>1, <3>2, <3>3, <1>1
      <4> QED BY <4>1, <4>2, <4>3, <1>1
    <3>6. Distinct(order')
      BY <2>1, <1>1, <1>2 DEF Exact, Distinct
    <3>7. order' # <<>> /\ order'[1] = order[1]
      BY <1>1, <3>1, EmptySeq
    <3> QED BY <2>1, <2>3, <3>1, <3>5, <3>6, <3>7, <1>1 DEF AtEnd, Exact, Ends
  <2> QED BY <2>2, <2>3 DEF task_new
<1> QED BY <1>3, <1>4 DEF ListInv

(* Its neighbours are linked with each other.                              *)
LEMMA Freed ==
  ASSUME ListInv, task_free
  PROVE  ListInv'
<1> DEFINE n == Len(order)
<1>1. PICK k \in 1 .. n : /\ task_list_remove(order[k])
                          /\ order' = Without(order, k)
                          /\ headFreed' = (headFreed \/ (k = 1 /\ Len(order) > 1))
  BY DEF task_free
<1> DEFINE t == order[k]
<1>2. /\ n \in Nat /\ order \in Seq(Tasks)
      /\ \A j \in 1 .. n : order[j] \in Tasks
  BY LenProperties, ElementOfSeq DEF ListInv, TypeOK
<1>3. /\ order' \in Seq(Tasks) /\ Len(order') = n - 1
      /\ \A j \in 1 .. n - 1 : order'[j] = IF j < k THEN order[j] ELSE order[j + 1]
  BY <1>1, <1>2, WithoutOne
<1>4. t \in Tasks /\ t # NoTask
  BY <1>2, TasksAssumption
<1>5. next' \in [Address -> Address] /\ prev' \in [Address -> Address]
  BY <1>1, <1>4 DEF task_list_remove, Unlink, ListInv, TypeOK, Address
<1>6. TypeOK'
  BY <1>1, <1>3, <1>4, <1>5 DEF task_list_remove, task_get_next, ListInv, TypeOK, Address
<1>7. ASSUME ~ headFreed' PROVE Exact'
  <2>1. Exact /\ (k = 1 => n = 1)
    <3>1. k = 1 => ~ (n > 1)
      BY <1>1, <1>7, Zenon
    <3>2. Exact
      BY <1>1, <1>7, Zenon DEF ListInv
    <3>3. k = 1 => n = 1
      <4>1. n \in Nat /\ k \in 1 .. n
        BY <1>2
      <4> HIDE DEF n
      <4> QED BY <3>1, <4>1
    <3> QED BY <3>2, <3>3
  <2>2. CASE n = 1
    <3>1. k = 1 /\ order # <<>> /\ task_head = t /\ task_tail = t
      <4>1. k = 1 /\ order # <<>>
        BY <2>2, EmptySeq
      <4> QED BY <2>1, <2>2, <4>1 DEF Exact, Ends
    <3>2. next[t] = NoTask /\ prev[t] = NoTask
      BY <2>1, <2>2, <3>1 DEF Exact, Links
    <3>3. next' = next /\ prev' = prev
      BY <1>1, <3>2 DEF task_list_remove, Unlink
    <3>4. task_head' = NoTask /\ task_tail' = NoTask /\ current_task' = NoTask
      BY <1>1, <2>1, <3>1, <3>2, <3>3, <1>4 DEF task_list_remove, task_get_next, Exact
    <3>5. order' = <<>> /\ Len(order') = 0
      BY <1>3, <2>2, EmptySeq
    <3> QED BY <3>4, <3>5 DEF Exact, Links, Ends, Distinct
  <2>3. CASE n # 1
    <3>1. k > 1 /\ n > 1 /\ order # <<>> /\ k - 1 \in 1 .. n /\ 1 \in 1 .. n /\ n \in 1 .. n
      BY <2>1, <2>3, <1>2, EmptySeq
    <3> DEFINE before == order[k - 1]
               after == IF k = n THEN NoTask ELSE order[k + 1]
    <3>2. next[t] = after /\ prev[t] = before
      BY <2>1, <3>1 DEF Exact, Links
    <3>3. before \in Tasks /\ before # NoTask /\ after \in Address
      BY <1>2, <3>1, TasksAssumption DEF Address
    <3>4. /\ next' = [next EXCEPT ![before] = after]
          /\ prev' = [prev EXCEPT ![after] = before]
      BY <1>1, <3>2, <3>3 DEF task_list_remove, Unlink
    <3>5. /\ next'[before] = after /\ prev'[after] = before
          /\ \A a \in Address : a # before => next'[a] = next[a]
          /\ \A a \in Address : a # after => prev'[a] = prev[a]
      BY <3>3, <3>4 DEF ListInv, TypeOK, Address
    <3>6. /\ \A h, j \in 1 .. n : order[h] = order[j] => h = j
          /\ \A j \in 1 .. n : order[j] \in Address /\ order[j] # NoTask
      BY <2>1, <1>2, TasksAssumption DEF Exact, Distinct, Address
    <3>7. \A j \in 1 .. n : /\ next[order[j]] = IF j = n THEN NoTask ELSE order[j + 1]
                            /\ prev[order[j]] = IF j = 1 THEN NoTask ELSE order[j - 1]
      BY <2>1 DEF Exact, Links
    <3>8. /\ \A j \in 1 .. n : j # k - 1 => next'[order[j]] = next[order[j]]
          /\ \A j \in 1 .. n : j # k + 1 => prev'[order[j]] = prev[order[j]]
      <4>1. \A j \in 1 .. n : j # k - 1 => order[j] # before
        BY <3>1, <3>6
      <4>2. \A j \in 1 .. n : j # k + 1 => order[j] # after
        <5>1. CASE k = n
          BY <5>1, <3>6
        <5>2. CASE k # n
          <6>1. k + 1 \in 1 .. n /\ after = order[k + 1]
            BY <5>2, <1>2
          <6> QED BY <6>1, <3>6
        <5> QED BY <5>1, <5>2
      <4> QED BY <4>1, <4>2, <3>5, <3>6
    <3>9. task_head = order[1] /\ task_tail = order[n]
      BY <2>1, <3>1 DEF Exact, Ends
    <3>10. Links(order', next', prev')
      <4> SUFFICES ASSUME NEW j \in 1 .. n - 1
                   PROVE  /\ next'[order'[j]] = IF j = n - 1 THEN NoTask ELSE order'[j + 1]
                          /\ prev'[order'[j]] = IF j = 1 THEN NoTask ELSE order'[j - 1]
        BY <1>3 DEF Links
      <4>1. /\ j \in 1 .. n /\ j + 1 \in 1 .. n
            /\ j # n - 1 => j + 1 \in 1 .. n - 1 /\ j + 2 \in 1 .. n
            /\ j # 1 => j - 1 \in 1 .. n - 1 /\ j - 1 \in 1 .. n
        BY <1>2
      <4>2. CASE j < k - 1
        <5>1. j # n - 1 /\ j < k /\ j + 1 < k /\ j - 1 < k /\ j # k + 1 /\ j # n
          BY <4>2, <1>2
        <5> QED BY <4>1, <4>2, <5>1, <3>7, <3>8, <1>3
      <4>3. CASE j = k - 1
        <5>1. order'[j] = before /\ j < k /\ j - 1 < k /\ j # k + 1 /\ ~ (j + 1 < k)
          BY <4>1, <4>3, <1>2, <1>3
        <5>2. next'[order'[j]] = IF j = n - 1 THEN NoTask ELSE order'[j + 1]
          <6>1. j = n - 1 <=> k = n
            BY <4>3, <1>2
          <6>2. j # n - 1 => order'[j + 1] = order[j + 2] /\ j + 2 = k + 1
            BY <4>1, <5>1, <4>3, <1>2, <1>3
          <6> QED BY <5>1, <6>1, <6>2, <3>5
        <5> QED BY <4>1, <4>3, <5>1, <5>2, <3>7, <3>8, <1>3
      <4>4. CASE j = k
        <5>1. /\ k # n /\ order'[j] = order[k + 1] /\ order[k + 1] = after
              /\ j - 1 = k - 1 /\ j # 1 /\ order'[j - 1] = before
              /\ k + 1 # k - 1
          BY <4>1, <4>4, <3>1, <1>2, <1>3
        <5>2. prev'[order'[j]] = IF j = 1 THEN NoTask ELSE order'[j - 1]
          BY <5>1, <3>5
        <5>3. next'[order'[j]] = IF k + 1 = n THEN NoTask ELSE order[k + 2]
          BY <4>1, <4>4, <5>1, <3>7, <3>8, <1>2
        <5>4. j # n - 1 => order'[j + 1] = order[k + 2]
          BY <4>1, <4>4, <1>2, <1>3
        <5>5. j = n - 1 <=> k + 1 = n
          BY <4>4, <1>2
        <5> QED BY <5>2, <5>3, <5>4, <5>5
      <4>5. CASE j > k
        <5>1. /\ order'[j] = order[j + 1] /\ j + 1 # k - 1 /\ j + 1 # k + 1
              /\ j # 1 /\ order'[j - 1] = order[j] /\ j + 1 # 1
              /\ j = n - 1 <=> j + 1 = n
              /\ j # n - 1 => order'[j + 1] = order[j + 2]
          <6>1. j # 1 /\ ~ (j < k) /\ ~ (j - 1 < k) /\ ~ (j + 1 < k)
            BY <4>5, <1>2
          <6> QED BY <4>1, <4>5, <6>1, <1>2, <1>3
        <5>2. /\ next'[order[j + 1]] = IF j + 1 = n THEN NoTask ELSE order[j + 2]
              /\ prev'[order[j + 1]] = order[j]
          BY <4>1, <5>1, <3>7, <3>8, <1>2
        <5> QED BY <5>1, <5>2
      <4> QED BY <4>2, <4>3, <4>4, <4>5, <1>2
    <3>11. Distinct(order')
      <4> SUFFICES ASSUME NEW h \in 1 .. n - 1, NEW j \in 1 .. n - 1, order'[h] = order'[j]
                   PROVE  h = j
        BY <1>3 DEF Distinct
      <4> DEFINE was(m) == IF m < k THEN m ELSE m + 1
      <4>1. was(h) \in 1 .. n /\ was(j) \in 1 .. n
        BY <1>2
      <4>2. order'[h] = order[was(h)] /\ order'[j] = order[was(j)]
        BY <1>3
      <4>3. was(h) = was(j)
        BY <4>1, <4>2, <3>6
      <4> QED BY <4>3, <1>2
    <3>12. task_head' = task_head /\ task_head = order'[1] /\ order' # <<>>
      <4>1. t # task_head
        BY <3>1, <3>6, <3>9
      <4>2. 1 \in 1 .. n - 1 /\ 1 < k
        BY <3>1, <1>2
      <4> QED BY <4>1, <4>2, <3>9, <1>1, <1>3, EmptySeq DEF task_list_remove
    <3>13. task_tail' = order'[n - 1]
      <4>1. t = task_tail <=> k = n
        BY <3>1, <3>6, <3>9
      <4>2. n - 1 \in 1 .. n - 1
        BY <3>1, <1>2
      <4>3. CASE k = n
        <5>1. task_tail' = prev'[t]
          BY <4>1, <4>3, <1>1 DEF task_list_remove
        <5>2. prev'[t] = before
          BY <3>2, <3>8, <1>2
        <5>3. order'[n - 1] = before
          BY <4>2, <4>3, <1>2, <1>3
        <5> QED BY <5>1, <5>2, <5>3
      <4>4. CASE k # n
        <5>1. task_tail' = task_tail
          BY <4>1, <4>4, <1>1 DEF task_list_remove
        <5>2. order'[n - 1] = order[n]
          BY <4>2, <4>4, <1>2, <1>3
        <5> QED BY <5>1, <5>2, <3>9
      <4> QED BY <4>3, <4>4
    <3>14. current_task' = current_task
      <4>1. t # current_task
        BY <2>1, <3>1, <3>6, <3>9 DEF Exact
      <4> QED BY <4>1, <1>1 DEF task_list_remove
    <3> QED BY <2>1, <3>10, <3>11, <3>12, <3>13, <3>14, <1>3 DEF Exact, Ends
  <2> QED BY <2>2, <2>3
<1> QED BY <1>6, <1>7 DEF ListInv

LEMMA NextList == ListInv /\ [TaskNext]_taskVars => ListInv'
<1> SUFFICES ASSUME ListInv, [TaskNext]_taskVars PROVE ListInv'
  OBVIOUS
<1>1. CASE Create
  BY <1>1, NewTask DEF Create
<1>2. CASE Start
  BY <1>2 DEF Start, task_run_as_task0, ListInv, TypeOK, Exact
<1>3. CASE task_free
  BY <1>3, Freed
<1>4. CASE UNCHANGED taskVars
  BY <1>4 DEF taskVars, ListInv, TypeOK, Exact
<1> QED BY <1>1, <1>2, <1>3, <1>4 DEF TaskNext

LEMMA AlwaysListInv == TaskSpec => []ListInv
BY InitList, NextList, PTL DEF TaskSpec

(* Pointers, whatever was freed in whatever order, are NULL or tasks.      *)
THEOREM TaskTypeOK == TaskSpec => []TypeOK
<1>1. ListInv => TypeOK
  BY DEF ListInv
<1> QED BY <1>1, AlwaysListInv, PTL

(* task_new and task_free keep the list exact from head to tail.           *)
THEOREM TaskListIsLive == TaskSpec => []ListIsLive
<1>1. ListInv => ListIsLive
  BY DEF ListInv, Exact, Links, Ends, ListIsLive
<1> QED BY <1>1, AlwaysListInv, PTL

(* And from tail to head.                                                  *)
THEOREM TaskPrevIsPrevious == TaskSpec => []PrevIsPrevious
<1>1. ListInv => PrevIsPrevious
  BY DEF ListInv, Exact, Links, PrevIsPrevious
<1> QED BY <1>1, AlwaysListInv, PTL

(* task_list_remove never leaves a freed task to be resumed.               *)
THEOREM TaskCurrentIsLive == TaskSpec => []CurrentIsLive
<1>1. ListInv => CurrentIsLive
  <2> SUFFICES ASSUME ListInv, ~ headFreed PROVE current_task \in Live \cup {NoTask}
    BY DEF CurrentIsLive
  <2>1. Exact /\ order \in Seq(Tasks)
    BY DEF ListInv, TypeOK
  <2>2. CASE order = <<>>
    BY <2>1, <2>2 DEF Exact, Ends
  <2>3. CASE order # <<>>
    <3>1. 1 \in 1 .. Len(order)
      BY <2>1, <2>3, EmptySeq, LenProperties
    <3> QED BY <2>1, <2>3, <3>1 DEF Exact, Ends, Live
  <2> QED BY <2>2, <2>3
<1> QED BY <1>1, AlwaysListInv, PTL

(* The iterations still to come, at most: a directory that cannot be       *)
(* completed is freed before the call returns.                             *)
ToDo ==
  CASE pc = "table" -> (N - i) + N + 2
    [] pc = "free" -> (N - i) + 1
    [] pc = "map" -> (count - i) + 1
    [] pc = "idle" -> 0

(* A loop in progress is inside its range or at its end.                   *)
Guarded ==
  /\ pc \in {"table", "free"} => i < N \/ i = N
  /\ pc = "map" => i < count \/ i = count

(* The count is one, and each index is in its range.                       *)
LEMMA ToDoIs ==
  ASSUME IInv
  PROVE  /\ ToDo \in Nat /\ Guarded
         /\ pc \in {"table", "free"} => i \in 0 .. N
         /\ pc = "map" => i \in 0 .. count /\ count \in Nat
<1>1. N \in Nat /\ PageCount \in Nat
  BY PagingAssumption DEF PageCount
<1>2. /\ pc \in {"table", "free"} => i \in 0 .. N
      /\ pc = "map" => i \in 0 .. count /\ count \in Nat
  BY <1>1 DEF IInv, PagingTypeOK, Making, Freeing, Mapping
<1>3. pc \in {"idle", "table", "free", "map"}
  BY DEF IInv, PagingTypeOK
<1> QED BY <1>1, <1>2, <1>3 DEF ToDo, Guarded

(* Every iteration does some of it.                                        *)
LEMMA LessToDo ==
  ASSUME IInv, Iterate
  PROVE  ToDo' < ToDo
<1>1. N \in Nat
  BY PagingAssumption
<1>2. /\ pc \in {"table", "free"} => i \in 0 .. N
      /\ pc = "map" => i \in 0 .. count /\ count \in Nat
  BY ToDoIs
<1>3. CASE NewTable
  BY <1>1, <1>2, <1>3 DEF NewTable, ToDo
<1>4. CASE NewChunk
  BY <1>1, <1>2, <1>4 DEF NewChunk, ToDo
<1>5. CASE FreeTable
  BY <1>1, <1>2, <1>5 DEF FreeTable, ToDo
<1>6. CASE FreeChunk
  BY <1>1, <1>2, <1>6 DEF FreeChunk, ToDo
<1>7. CASE MapPage
  BY <1>1, <1>2, <1>7 DEF MapPage, ToDo
<1>8. CASE MapEnd
  BY <1>1, <1>2, <1>8 DEF MapEnd, ToDo
<1> QED BY <1>3, <1>4, <1>5, <1>6, <1>7, <1>8 DEF Iterate

(* paging_init_directory, paging_free_directory and the mapping of a range *)
(* get on: each iteration leaves less to do, the failed directory that is  *)
(* freed again included, and no index passes the end of its loop.          *)
THEOREM PagingCallsGetOn ==
  Spec => [](ToDo \in Nat /\ Guarded) /\ [][Iterate => ToDo' < ToDo]_vars
<1>1. IInv => ToDo \in Nat /\ Guarded
  BY ToDoIs
<1>2. IInv /\ [Next]_vars => [Iterate => ToDo' < ToDo]_vars
  BY LessToDo
<1> QED BY <1>1, <1>2, PagingInvariance, PTL DEF Spec
=============================================================================
