------------------------------ MODULE Process -------------------------------
(***************************************************************************)
(* Loading a program: process_load with all it calls in                    *)
(* src/task/process.c, on top of the kernel heap (KHeap) and of the        *)
(* address spaces of paging.c (AddressSpace).  One step per call that      *)
(* allocates, opens or maps; nothing unloads a process.                    *)
(*                                                                         *)
(* The heap's chunks are pages, as in the code, and its addresses are      *)
(* frames.  A struct process, and a struct task together with its page     *)
(* tables, are one page each here; Paging has the loops behind the second  *)
(* one.  The file is a size: that its bytes arrive is Fat16Read's matter.  *)
(* The first dword of memory, where fd->index is read when fopen refuses,  *)
(* is taken not to be the number of an open file.                          *)
(***************************************************************************)
EXTENDS Integers

CONSTANTS
  Max,          \* NUTSOS_MAX_PROCESSES
  Files,        \* sizes in bytes of the programs on the disk
  HeapPages,    \* kernel heap: its number of pages, ...
  HeapStart,    \* ... and its first frame
  PageSize,     \* PAGING_PAGE_SIZE and NUTSOS_HEAP_BLOCK_SIZE
  PageCount,    \* pages of the address space
  Word,         \* 2^32
  ProgramPage,  \* page of NUTSOS_PROGRAM_VIRTUAL_ADDRESS
  StackPage,    \* page of NUTSOS_PROGRAM_VIRTUAL_STACK_ADDRESS_END
  StackSize,    \* NUTSOS_USER_PROGRAM_STACK_SIZE in bytes
  KernelPages   \* pages of the kernel's code, data and stack

VARIABLES
  entries, stray, live, ret,  \* the heap, as in KHeap
  space,      \* the address space of every task
  processes,  \* the table: a process or NULL in each slot
  pc,         \* where process_load_for_slot stands, or "idle"
  slot, process, size,        \* its locals; size is stat.filesize
  fd          \* whether process_load_binary holds an open file

heap == <<entries, stray, live, ret>>
vars == <<heap, space, processes, pc, slot, process, size, fd>>

Sizes == Files \cup {PageSize, StackSize}

Heap == INSTANCE KHeap WITH
  Total <- HeapPages, SAddr <- HeapStart, BlockSize <- PageSize

PageFlags == SUBSET {"P", "U", "W"}
Space == INSTANCE AddressSpace WITH Ids <- Int, Rights <- PageFlags

(* Numbers that do not wrap when they are rounded up to pages, and the     *)
(* layout of config.h: the program's stack ends where programs begin, away *)
(* from the kernel's pages.  A program is of any size: it may reach over   *)
(* the kernel's stack and the heap above it, only not over the end of the  *)
(* address space (FAT16 has files of 2 GB at most).                        *)
ASSUME ProcessAssumption ==
  /\ Max \in Nat /\ HeapPages \in Nat \ {0} /\ HeapStart \in Nat \ {0}
  /\ PageSize \in Nat \ {0} /\ Word \in Nat /\ Word % PageSize = 0
  /\ StackSize \in Nat \ {0} /\ Files \subseteq Nat
  /\ \A bytes \in Sizes : bytes + PageSize <= Word

ASSUME LayoutAssumption ==
  LET Stack == StackPage .. StackPage + Heap!total_blocks(StackSize) - 1
  IN  /\ ProgramPage \in Nat /\ StackPage \in Nat /\ PageCount \in Nat
      /\ KernelPages \subseteq Nat
      /\ StackPage + Heap!total_blocks(StackSize) <= ProgramPage
      /\ ProgramPage <= HeapStart /\ HeapStart + HeapPages <= PageCount
      /\ \A v \in KernelPages : v < PageCount /\ v \notin Stack
      /\ \A bytes \in Files : ProgramPage + Heap!total_blocks(bytes) <= PageCount

NULL == 0
TaskFlags == {"P", "U"}
OwnFlags == {"P", "U", "W"}
Slots == 0 .. Max - 1
NoProcess == [addr |-> NULL, ptr |-> NULL, size |-> 0, stack |-> NULL, task |-> NULL]

Init ==
  /\ Heap!Init
  /\ space = [t \in {} |-> <<>>]
  /\ processes = [s \in Slots |-> NoProcess]
  /\ pc = "idle" /\ slot = 0 /\ process = NoProcess /\ size = 0 /\ fd = FALSE

(* An error: "out:" frees a task if there is one, and there is none yet.   *)
Fail == pc' = "idle" /\ process' = NoProcess
-----------------------------------------------------------------------------
(* process_load: the first empty slot, if any, and the process structure.  *)
process_load ==
  /\ pc = "idle"
  /\ \E s \in Slots :
       /\ processes[s] = NoProcess /\ \A r \in 0 .. s - 1 : processes[r] # NoProcess
       /\ slot' = s
  /\ Heap!heap_malloc(PageSize)
  /\ \/ ret' = NULL /\ Fail
     \/ ret' # NULL /\ pc' = "open" /\ process' = [NoProcess EXCEPT !.addr = ret']
  /\ UNCHANGED <<space, processes, size, fd>>

(* fopen and fstat.                                                        *)
OpenFile ==
  /\ pc = "open"
  /\ fd' = TRUE /\ pc' = "image"
  /\ size' \in Files
  /\ UNCHANGED <<heap, space, processes, slot, process>>

(* fopen finds no such file and returns a descriptor all the same          *)
(* (FileTable), whose private data is an error code: fstat follows it.     *)
NoSuchFile ==
  /\ pc = "open"
  /\ fd' = TRUE /\ pc' = "undefined"
  /\ UNCHANGED <<heap, space, processes, slot, process, size>>

(* fopen refuses: it cannot parse the path, or there is no file system.    *)
CannotOpen ==
  /\ pc = "open"
  /\ Fail
  /\ UNCHANGED <<heap, space, processes, slot, size, fd>>

(* The image: memory for it, then the file's bytes.  fread refuses to read *)
(* nothing, and may fail.                                                  *)
LoadImage ==
  /\ pc = "image"
  /\ Heap!heap_malloc(size)
  /\ \/ /\ ret' # NULL /\ size > 0
        /\ process' = [process EXCEPT !.ptr = ret', !.size = size]
        /\ pc' = "stack"
     \/ Fail
  /\ fd' = FALSE
  /\ UNCHANGED <<space, processes, slot, size>>

MakeStack ==
  /\ pc = "stack"
  /\ Heap!heap_malloc(StackSize)
  /\ \/ ret' = NULL /\ Fail
     \/ ret' # NULL /\ pc' = "task" /\ process' = [process EXCEPT !.stack = ret']
  /\ UNCHANGED <<space, processes, slot, size, fd>>

(* task_new: the task's pages show every frame at its own address.         *)
MakeTask ==
  /\ pc = "task"
  /\ Heap!heap_malloc(PageSize)
  /\ ret' # NULL
  /\ pc' = "map"
  /\ process' = [process EXCEPT !.task = ret']
  /\ space' = [t \in DOMAIN space \cup {ret'} |->
                 IF t = ret' THEN Space!Identity(TaskFlags) ELSE space[t]]
  /\ UNCHANGED <<processes, slot, size, fd>>

(* task_new reports an error by a pointer, which ISERR does not see: the   *)
(* code goes on to use it as a task, and reads its page directory at the   *)
(* very top of memory.  What follows is not defined.                       *)
NoTask ==
  /\ pc = "task"
  /\ Heap!heap_malloc(PageSize)
  /\ ret' = NULL
  /\ pc' = "undefined"
  /\ UNCHANGED <<space, processes, slot, process, size, fd>>

(* Adds a page to an address that is aligned.                              *)
Mut_paging_align_address(a) == a - (a % PageSize) + PageSize

paging_align_address(a) ==
  IF a % PageSize = 0 THEN a ELSE a - (a % PageSize) + PageSize

(* Counts bytes instead of pages.                                          *)
Mut_Mapped(pages, v, ptr, bytes) ==
  LET count == bytes
  IN  [p \in Space!Pages |->
         IF p \in v .. v + count - 1
         THEN [frame |-> ptr + (p - v), flags |-> OwnFlags]
         ELSE pages[p]]

(* paging_map_to(directory, page v, frame ptr, align(ptr + bytes)): Paging *)
(* says that it maps all of the range.                                     *)
Mapped(pages, v, ptr, bytes) ==
  LET count == paging_align_address(ptr * PageSize + bytes) \div PageSize - ptr
  IN  [p \in Space!Pages |->
         IF p \in v .. v + count - 1
         THEN [frame |-> ptr + (p - v), flags |-> OwnFlags]
         ELSE pages[p]]

process_map_binary(pages) == Mapped(pages, ProgramPage, process.ptr, process.size)

(* Takes the top of the stack for its end.                                 *)
Mut_process_map_memory(pages) ==
  Mapped(process_map_binary(pages), StackPage + 1, process.stack, StackSize)

process_map_memory(pages) ==
  Mapped(process_map_binary(pages), StackPage, process.stack, StackSize)

(* Addresses from the heap are aligned and do not wrap, so the mapping     *)
(* cannot fail, and the task_free at "out:" is never reached.              *)
Publish ==
  /\ pc = "map"
  /\ space' = [space EXCEPT ![process.task] = process_map_memory(@)]
  /\ processes' = [processes EXCEPT ![slot] = process]
  /\ pc' = "idle" /\ process' = NoProcess
  /\ UNCHANGED <<heap, slot, size, fd>>

Next ==
  \/ process_load \/ OpenFile \/ NoSuchFile \/ CannotOpen \/ LoadImage \/ MakeStack
  \/ MakeTask \/ NoTask \/ Publish

Spec == Init /\ [][Next]_vars
-----------------------------------------------------------------------------
Loaded == {s \in Slots : processes[s] # NoProcess}

Bytes(page, n) == page * PageSize .. page * PageSize + n - 1
ImagePages(p) == ProgramPage .. ProgramPage + Heap!total_blocks(p.size) - 1
InImage(p, a) == a \in Bytes(ProgramPage, p.size)
InStack(p, a) == a \in Bytes(StackPage, StackSize)

(* Accepts the address after the image.                                    *)
Mut_process_validate_pointer(p, a) ==
  \/ /\ a >= ProgramPage * PageSize
     /\ a <= ProgramPage * PageSize + p.size
  \/ a >= StackPage * PageSize /\ a < StackPage * PageSize + StackSize

process_validate_pointer(p, a) ==
  \/ /\ a >= ProgramPage * PageSize
     /\ a < ProgramPage * PageSize + p.size
  \/ a >= StackPage * PageSize /\ a < StackPage * PageSize + StackSize

(* The heap blocks that were allocated at an address.                      *)
ChunkAt(address) == UNION {Heap!Owned(c) : c \in {d \in live : d.start = Heap!heap_address_to_block(address)}}
FramesAt(address) == {Heap!heap_block_to_address(b) : b \in ChunkAt(address)}

(* Every byte of a loaded process, image and stack, is where its memory    *)
(* is: the page that holds it is mapped, writeable, to the frame that      *)
(* holds it.                                                               *)
ImageAndStackMapped ==
  \A s \in Loaded :
    LET p == processes[s]
        pages == space[p.task]
    IN  /\ \A k \in 0 .. p.size - 1 :
             pages[ProgramPage + k \div PageSize] =
               [frame |-> p.ptr + k \div PageSize, flags |-> OwnFlags]
        /\ \A k \in 0 .. StackSize - 1 :
             pages[StackPage + k \div PageSize] =
               [frame |-> p.stack + k \div PageSize, flags |-> OwnFlags]

(* What a program can write to is its own image and stack: no frame of     *)
(* another process, of a page table or of any other kernel allocation,     *)
(* whichever loads failed and left memory allocated in between.            *)
WritesOnlyItsOwn ==
  LET Own(s) == FramesAt(processes[s].ptr) \cup FramesAt(processes[s].stack)
      Writeable(pages) == {v \in Space!Pages : "W" \in pages[v].flags}
  IN  /\ \A s \in Loaded :
           LET pages == space[processes[s].task]
           IN  {pages[v].frame : v \in Writeable(pages)} = Own(s)
      /\ \A s, r \in Loaded : s # r => Own(s) \cap Own(r) = {}

(* An address that process_validate_pointer accepts is one the program     *)
(* could use itself (process.c:183).                                       *)
ValidPointersAreOwn ==
  \A s \in Loaded : \A a \in 0 .. PageCount * PageSize - 1 :
    process_validate_pointer(processes[s], a) =>
      /\ InImage(processes[s], a) \/ InStack(processes[s], a)
      /\ "W" \in space[processes[s].task][a \div PageSize].flags

(* System calls run on the task's page directory: under it the kernel's    *)
(* own pages, and the heap with the directory itself, are where the kernel *)
(* put them, but for those that an image is long enough to reach.  Over    *)
(* these the image has been mapped: nothing compares its size with where   *)
(* the kernel's stack and the heap are (process.c:49-81).                  *)
KernelSeesItsOwn ==
  \A s \in Loaded :
    LET p == processes[s]
    IN  \A v \in KernelPages \cup (HeapStart .. HeapStart + HeapPages - 1) :
          space[p.task][v].frame =
            IF v \in ImagePages(p) THEN p.ptr + (v - ProgramPage) ELSE v
=============================================================================
