------------------------------- MODULE Paging -------------------------------
(***************************************************************************)
(* Page directories and page tables (src/memory/paging/paging.c), one loop *)
(* iteration per step.                                                     *)
(*                                                                         *)
(* Memory is counted in 4 KB frames.  A directory, a table and a           *)
(* struct paging_chunk each take one heap block, which is one frame, and   *)
(* mem holds the words of every frame: an entry is a frame number and      *)
(* flags.  PAGING_TOTAL_DIR_ENTRIES and PAGING_TOTAL_ENTRIES_PER_TABLE are *)
(* both 1024; here they are N.  Word 0 of a chunk is directory_entry; its  *)
(* two counts have no frame number (1024 & 0xFFFFF000 is 0).               *)
(*                                                                         *)
(* No result of kzalloc is checked in paging.c.  NULL is frame 0, which is *)
(* memory like any other, so a table that was refused is written there.    *)
(* The caller is task.c: when it gets no chunk it frees the NULL it got    *)
(* (task_init, task_new, task_free) and gives up.                          *)
(***************************************************************************)
EXTENDS Integers

CONSTANTS
  N,          \* entries of a directory and of a table
  Heap,       \* frames of the kernel heap
  Holdings,   \* sets of frames the rest of the kernel may hold
  Virts, Physs, PhysEnds,   \* arguments of paging_map_to
  ChunkFlags, MapFlags    \* flags task.c and process.c pass

ASSUME PagingAssumption ==
  /\ N \in Nat /\ N > 2
  /\ Heap \subseteq 1 .. N * (N - 1) - 1   \* it ends at 528 MB, below the last table
  /\ \A holding \in Holdings : holding \subseteq Heap
  /\ Virts \cup Physs \cup PhysEnds \subseteq 0 .. N * N - 1

(* task.c and kernel.c ask for directories, process.c for mappings; what   *)
(* process.c asks for, the directory's own entries, made writeable, grant. *)
ASSUME FlagsAssumption ==
  /\ ChunkFlags \cup MapFlags \subseteq SUBSET {"P", "U", "W"}
  /\ \A f \in ChunkFlags, g \in MapFlags : g \subseteq f \cup {"W"}

VARIABLES
  mem,        \* the words of every frame
  used,       \* heap frames in use
  others,     \* those that the rest of the kernel holds
  chunks,     \* the chunks callers hold
  pc,         \* the loop in progress, or "idle"
  i,          \* loop index
  directory, chunk,   \* locals of paging_chunk_new and paging_chunk_free
  flags,      \* argument of the call in progress
  virt, phys, count,  \* arguments of paging_map_range
  res         \* result of the last mapping, with history of what it was to map

locals == <<i, directory, chunk, flags, virt, phys, count>>
vars == <<mem, used, others, chunks, pc, locals, res>>

NULL == 0
PageCount == N * N
Frames == 0 .. PageCount - 1
Index == 0 .. N - 1
Present == "P"
User == "U"
Writeable == "W"
Word == [frame : Frames, flags : SUBSET {Present, User, Writeable}]
ZeroWord == [frame |-> 0, flags |-> {}]
ZeroFrame == [w \in Index |-> ZeroWord]
NoCall == [chunk |-> NULL, virt |-> 0, phys |-> 0, count |-> 0, flags |-> {}]

(* kzalloc of one block: the first free one, or NULL.                      *)
Free == Heap \ used
kzalloc ==
  IF Free = {} THEN NULL ELSE CHOOSE f \in Free : \A g \in Free : f <= g

(* Memory and the heap after kzalloc has returned f.                       *)
Zeroed(f) == IF f = NULL THEN mem ELSE [mem EXCEPT ![f] = ZeroFrame]
TakenBy(f) == used \cup ({f} \ {NULL})

Init ==
  /\ mem = [f \in Frames |-> ZeroFrame]
  /\ others \in Holdings /\ used = others
  /\ chunks = {}
  /\ pc = "idle"
  /\ i = 0 /\ directory = NULL /\ chunk = NULL /\ flags = {}
  /\ virt = 0 /\ phys = 0 /\ count = 0
  /\ res = NoCall
-----------------------------------------------------------------------------
(* paging_chunk_new, up to its loop.                                       *)
paging_chunk_new(f) ==
  /\ pc = "idle"
  /\ directory' = kzalloc
  /\ mem' = Zeroed(kzalloc)
  /\ used' = TakenBy(kzalloc)
  /\ flags' = f /\ i' = 0 /\ pc' = "table" /\ res' = NoCall
  /\ UNCHANGED <<others, chunks, chunk, virt, phys, count>>

(* Does not make the directory entry writeable.                            *)
Mut_NewTable ==
  /\ pc = "table" /\ i < N
  /\ LET entry == kzalloc
         filled == [Zeroed(entry) EXCEPT ![entry] =
                      [b \in Index |-> [frame |-> i * N + b, flags |-> flags]]]
     IN  /\ mem' = [filled EXCEPT ![directory][i] =
                      [frame |-> entry, flags |-> flags]]
         /\ used' = TakenBy(entry)
  /\ i' = i + 1
  /\ UNCHANGED <<others, chunks, pc, directory, chunk, flags, virt, phys, count, res>>

(* Does not move the offset to the next table's pages.                     *)
Mut_SameOffset ==
  /\ pc = "table" /\ i < N
  /\ LET entry == kzalloc
         filled == [Zeroed(entry) EXCEPT ![entry] =
                      [b \in Index |-> [frame |-> b, flags |-> flags]]]
     IN  /\ mem' = [filled EXCEPT ![directory][i] =
                      [frame |-> entry, flags |-> flags \cup {Writeable}]]
         /\ used' = TakenBy(entry)
  /\ i' = i + 1
  /\ UNCHANGED <<others, chunks, pc, directory, chunk, flags, virt, phys, count, res>>

(* One table: page b of it is the frame at the same address.               *)
NewTable ==
  /\ pc = "table" /\ i < N
  /\ LET entry == kzalloc
         filled == [Zeroed(entry) EXCEPT ![entry] =
                      [b \in Index |-> [frame |-> i * N + b, flags |-> flags]]]
     IN  /\ mem' = [filled EXCEPT ![directory][i] =
                      [frame |-> entry, flags |-> flags \cup {Writeable}]]
         /\ used' = TakenBy(entry)
  /\ i' = i + 1
  /\ UNCHANGED <<others, chunks, pc, directory, chunk, flags, virt, phys, count, res>>

(* The chunk itself; the caller frees it at once if it is NULL.            *)
NewChunk ==
  /\ pc = "table" /\ i = N
  /\ chunk' = kzalloc
  /\ mem' = [Zeroed(kzalloc) EXCEPT
               ![kzalloc][0] = [frame |-> directory, flags |-> {}],
               ![kzalloc][1] = ZeroWord, ![kzalloc][2] = ZeroWord]
  /\ used' = TakenBy(kzalloc)
  /\ IF kzalloc = NULL THEN pc' = "free" /\ UNCHANGED chunks
                       ELSE pc' = "idle" /\ chunks' = chunks \cup {kzalloc}
  /\ i' = 0
  /\ UNCHANGED <<others, directory, flags, virt, phys, count, res>>
-----------------------------------------------------------------------------
(* paging_chunk_free of a chunk its caller holds.                          *)
paging_chunk_free(c) ==
  /\ pc = "idle"
  /\ chunk' = c /\ chunks' = chunks \ {c}
  /\ i' = 0 /\ pc' = "free" /\ res' = NoCall
  /\ UNCHANGED <<mem, used, others, directory, flags, virt, phys, count>>

(* kfree: an address that is not in use, or outside the heap, changes no   *)
(* block that is (KHeap says what else it may clear).                      *)
FreeTable ==
  /\ pc = "free" /\ i < N
  /\ used' = used \ {mem[mem[chunk][0].frame][i].frame}
  /\ i' = i + 1
  /\ UNCHANGED <<mem, others, chunks, pc, directory, chunk, flags, virt, phys, count, res>>

(* Frees the chunk only.                                                   *)
Mut_FreeChunk ==
  /\ pc = "free" /\ i = N
  /\ used' = used \ {chunk}
  /\ pc' = "idle" /\ i' = 0
  /\ UNCHANGED <<mem, others, chunks, directory, chunk, flags, virt, phys, count, res>>

FreeChunk ==
  /\ pc = "free" /\ i = N
  /\ used' = used \ {mem[chunk][0].frame, chunk}
  /\ pc' = "idle" /\ i' = 0
  /\ UNCHANGED <<mem, others, chunks, directory, chunk, flags, virt, phys, count, res>>
-----------------------------------------------------------------------------
(* paging_map_to(chunk's directory, v, p, phys_end, f); aligned says that  *)
(* all three addresses are on a page boundary.  A refused call changes     *)
(* nothing.                                                                *)
paging_map_to(c, v, p, phys_end, f, aligned) ==
  /\ pc = "idle"
  /\ IF aligned /\ phys_end >= p
     THEN /\ chunk' = c /\ virt' = v /\ phys' = p /\ count' = phys_end - p
          /\ flags' = f /\ i' = 0 /\ pc' = "map"
          /\ UNCHANGED directory
     ELSE UNCHANGED <<pc, locals>>
  /\ res' = NoCall
  /\ UNCHANGED <<mem, used, others, chunks>>

paging_get_indexes(v) == <<v \div N, v % N>>

paging_set(dir, v, entry) ==
  LET at == paging_get_indexes(v)
      table == mem[dir][at[1]].frame
  IN  mem' = [mem EXCEPT ![table][at[2]] = entry]

(* Does not count the pages.                                               *)
Mut_MapPage ==
  /\ pc = "map" /\ i < count
  /\ paging_set(mem[chunk][0].frame, virt, [frame |-> phys, flags |-> flags])
  /\ virt' = (virt + 1) % PageCount /\ phys' = (phys + 1) % PageCount
  /\ UNCHANGED <<used, others, chunks, pc, i, directory, chunk, flags, count, res>>

(* An iteration of paging_map_range: paging_map of one page.               *)
MapPage ==
  /\ pc = "map" /\ i < count
  /\ paging_set(mem[chunk][0].frame, virt, [frame |-> phys, flags |-> flags])
  /\ virt' = (virt + 1) % PageCount /\ phys' = (phys + 1) % PageCount
  /\ i' = i + 1
  /\ UNCHANGED <<used, others, chunks, pc, directory, chunk, flags, count, res>>

MapEnd ==
  /\ pc = "map" /\ i = count
  /\ pc' = "idle"
  /\ res' = [chunk |-> chunk, virt |-> (virt - count) % PageCount,
             phys |-> (phys - count) % PageCount, count |-> count, flags |-> flags]
  /\ UNCHANGED <<mem, used, others, chunks, locals>>
-----------------------------------------------------------------------------
Iterate ==
  \/ NewTable \/ NewChunk \/ FreeTable \/ FreeChunk \/ MapPage \/ MapEnd

Next ==
  \/ Iterate
  \/ \E f \in ChunkFlags : paging_chunk_new(f)
  \/ \E c \in chunks : paging_chunk_free(c)
  \/ \E c \in chunks, v \in Virts, p \in Physs, phys_end \in PhysEnds,
        f \in MapFlags, aligned \in BOOLEAN :
       paging_map_to(c, v, p, phys_end, f, aligned)

(* The kernel's loops keep the CPU.                                        *)
Spec == Init /\ [][Next]_vars /\ WF_vars(Iterate)
-----------------------------------------------------------------------------
DirectoryOf(c) == mem[c][0].frame
TableOf(c, n) == mem[DirectoryOf(c)][n].frame
FramesOf(c) == {c, DirectoryOf(c)} \cup {TableOf(c, n) : n \in Index}

(* What the processor makes of page v: both levels must grant a right.     *)
Translate(c, v) ==
  LET outer == mem[DirectoryOf(c)][v \div N]
      inner == mem[outer.frame][v % N]
  IN  [frame |-> inner.frame, flags |-> outer.flags \cap inner.flags]

(* The two-level tables are address spaces: a chunk that the caller gets   *)
(* is complete, although no allocation in between is checked, a mapping    *)
(* changes one page of one space, and none shares a table with another.    *)
Space == INSTANCE AddressSpace WITH
  Ids <- Heap,
  Rights <- ChunkFlags \cup MapFlags,
  space <- [c \in chunks |-> [v \in Frames |-> Translate(c, v)]]

ImplementsAddressSpace == Space!Spec

(* A mapping that succeeded maps every page of its range, in order, across *)
(* tables and where the virtual address wraps, with the rights asked for.  *)
MapToMapsAll ==
  \A k \in 0 .. res.count - 1 :
    Translate(res.chunk, (res.virt + k) % PageCount) =
      [frame |-> (res.phys + k) % PageCount, flags |-> res.flags]

(* Between calls the heap frames in use are those of the chunks in         *)
(* existence, each with its own, and those that others held all along: a   *)
(* chunk that could not be completed is taken apart through the fields     *)
(* that were written at NULL, and nobody else's block is freed with it.    *)
FramesAccountedFor ==
  /\ others \subseteq used
  /\ pc = "idle" => used = others \cup UNION {FramesOf(c) : c \in chunks}
  /\ \A c, d \in chunks : c # d => FramesOf(c) \cap FramesOf(d) = {}
  /\ \A c \in chunks : FramesOf(c) \cap others = {}

(* Every call returns.                                                     *)
CallsReturn == pc # "idle" ~> pc = "idle"
=============================================================================
