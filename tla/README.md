# NutsOS in TLA+

NutsOS is a small single-CPU kernel for the 32-bit PC, in C and assembly (`src/` of
the repository): it boots from a FAT16 disk, sets up a heap, paging and interrupts, loads one
program into a ring 3 process, and serves system calls. This directory holds a TLA+ model of
its parts, the TLC runs that check them and proofs of the results that matter most.
Paths below are relative to the repository's `src/`.

The kernel has no documentation besides its comments, and no tests. What a part is
*meant* to do is taken from comments, names and callers; what it *does*, which is what the
modules say, from the code.

## 1. Inventory

Everything in the kernel runs with interrupts disabled (`cli` in `boot/boot.asm`, interrupt gates in
`idt/idt.c`; only `task_return` turns them on, for ring 3). So no two calls into
the kernel overlap. The hard behaviours are others: allocations that fail at any of
a dozen places, errors that are not recognised, state that earlier calls have left behind,
arithmetic at boundaries, loops, hand-kept layouts, and devices that interrupt the
program at any instruction.

| Component | State it keeps | Operations | Uses | What makes it correct |
|---|---|---|---|---|
| Kernel heap `memory/heap/` | one table byte per 4 KB block (TAKEN, IS_FIRST, HAS_NEXT) | `kmalloc`, `kzalloc`, `kfree` | - | no block has two owners; the flag bits describe the chunks in use; a chunk covers the request and lies in the heap; refuses only when nothing fits |
| Paging `memory/paging/` | page directories and tables in heap blocks; CR3 | chunk new/free, `paging_map_to`, `paging_switch` | heap | a directory is complete or is not handed out; a mapping changes its pages and no others; every block is given back once |
| Tasks `task/task.c` | doubly linked list, `current_task` | new, free, next, run as first | heap, paging | the list is exactly the live tasks; the current task is live; round robin |
| Processes `task/process.c` | table of processes | `process_load`, pointer validation | files, heap, tasks, paging | a program can write its own image and stack and nothing else; failures are reported and leave nothing |
| File table `fs/file.c` | descriptor pointers, and a position behind each | `fopen`, `fclose`, `fread`, `fseek`, `fstat` | path parser, FAT16, heap | an open descriptor leads to its own file and position; what was refused opens nothing |
| Path parser `fs/path_parser.c` | - | `pathparser_parse` | heap | the list of names says what the path says |
| FAT16 directories `fs/fat/fat16.c` | private data of the volume: three streams, header, root directory | mount (`fat16_resolve`), open, close | stream, heap | finds what the path names; frees each directory once; a disk that is not mounted leaves no file system |
| FAT16 contents `fs/fat/fat16.c` | position in the file | read, seek | stream | the bytes of the file, in order, never another file's |
| Disk stream `disk/stream.c` | position on the disk | seek, read | driver | bytes in order across sectors |
| Disk driver `disk/disk.c`, `boot/boot.asm` | the drive's registers | `disk_read_sector`, `ata_lba_read` | drive | what is stored is what the drive has at that address; ends if the drive delivers |
| Interrupts and system calls `idt/`, `isr80h/`, `task/task.asm` | IDT, saved registers, `tmp_res`, PICs | stubs, handlers, commands, `task_return` | tasks, terminal | the program gets its registers back; the saved state resumes it; each interrupt is acknowledged at the master PIC |
| GDT and TSS `gdt/`, `task/tss.asm` | the table loaded by `lgdt`, the TSS | `encode_gdt_entry`, `tss_load` | - | the CPU sees the segments of `kernel.c` |
| Terminal `terminal/` | cursor | `terminal_writechar`, `print`, `kprint` | - | each character in its place, none over another |
| Strings `stdutil/`, `memory/memory.c` | - | copy, compare, convert | - | names match in any case |
| Boot and `kmain` `boot/`, `kernel.c`, `kernel.asm` | order of initialisation | load the kernel, `kmain`, `panic` | all of the above | every start ends unless the drive fails; a program runs only with everything set up |
| User programs (`empty`) | - | one program | system calls | not part of the kernel |

How they interact: `kmain` initialises heap, file system, disk, IDT, TSS and paging in this
order and calls `process_load`, which calls `fopen`/`fstat`/`fread`/`fclose`, the
heap, `task_new` (which calls `paging_chunk_new`) and `paging_map_to`; then
`task_run_as_task0` leaves for ring 3, and the kernel is entered only through
the IDT again. All calls are direct; the shared state is the heap and, with it, all of
memory: address 0 is mapped, so a store through NULL does not fault.

The hazards of each part, at their lines, are in `PROJECT.json`.

## 2. Modules

| Module | Models | State | Actions |
|---|---|---|---|
| `BlockAllocator` | *abstract*: what a heap promises | sets of blocks in use | Alloc, Refuse, Release |
| `KHeap` | `heap.c`, `kheap.c`, whole calls | `entries` (flags of each block), `stray` (writes below or above the table), `live` (history: chunks handed out), `ret` | `heap_malloc`, `heap_free`, `heap_free_null` |
| `KHeapLoops` | the same, one loop iteration per step | plus loop indices and `pc` | ScanTaken, ScanFree, MarkOne, ClearOne, ... |
| `AddressSpace` | *abstract*: what page tables promise | page -> frame and rights, per space | Create, Map, Delete |
| `Paging` | `paging.c`, one loop iteration per step | `mem`: the words of every frame; the heap frames in use; locals | NewTable, NewChunk, FreeTable, FreeChunk, MapPage, ... |
| `TaskList` | `task.c` | `next`, `prev` of every address (NULL is `NoTask` here), head, tail, current; `headFreed` (history) | `task_new`, `task_free`, `task_run_as_task0` |
| `Process` | `process.c`, composed of `KHeap` and `AddressSpace` | the heap, the spaces, the process table, locals | one per allocating, opening or mapping call |
| `FileTable` | `file.c` with the lifetime of FAT descriptors and their positions | table, memory behind the addresses, positions | `fopen`, `fseek`, `fread`, `fstat`, `fclose` |
| `PathParser` | `path_parser.c`, one character per step | the string, the list, buffers in use | NextPart, Copy, Empty, Linked, Lost |
| `FatLookup` | path walk, directory loading and comparison of names in `fat16.c` | volume, item found last, objects allocated | `fat16_open`, Found, NotFound, NoMemory, `fat16_close`, ... |
| `Fopen` | `fopen` from string to answer, composed of `PathParser` and `FatLookup` | theirs, some under other names | ParsePath, Parse, OpenPath, Walk |
| `Fat16Read` | `fat16_read`, `fat16_seek`, cluster walk | volume, position, locals, bytes delivered | Item, Walk, Continue, ItemRead, ... |
| `DiskStream` | `stream.c` | position, call in progress, bytes delivered | `diskstream_seek`, `diskstream_read`, ReadSector |
| `AtaDisk` | `disk.c` and the drive | the drive's registers and state, loop variables, buffer | `disk_read_sector`, Poll, CopyWord, DriveReady, DriveFails, ... |
| `DiskRead` | the stream on the driver, and the loading of the kernel; composed of `DiskStream` and `AtaDisk` | theirs, `booted` | `ata_lba_read`, `load32`, `disk_read_block`, BlockRead, ... |
| `Terminal` | `terminal.c` | cursor; last cell and lines (history) | `terminal_writechar` |
| `Gdt` | `gdt.c` and the CPU's reading of a descriptor | - | - (`encode_gdt_entry`, `Decoded`) |
| `Kmain` | `kernel.c`, mounting, `paging_switch`; composed of `Terminal`, `Gdt`, `KHeap`, `AddressSpace` and `Process` | theirs, the stage reached, the disk and whether its drive has failed, CR3 and what the MMU remembers | one per line of `kmain`, per allocation of mounting and per character printed; DriveFails, Polls |
| `Interrupts` | `idt.asm`, `idt.c`, `isr80h/`, `task.asm` | registers, kernel stack, saved registers, PICs | one per instruction or handler |

`MC*` modules give the constants their small values. `KHeapCalls` puts `KHeapLoops` under `KHeap`: while a
call is in progress its callers see the table as it was before. The proofs (section 5) are in

| Module | Proves about |
|---|---|
| `KHeapProofs` | `KHeap`, that it implements `BlockAllocator`, and that `KHeapLoops` implements it |
| `TaskProofs` | `Paging`, that it implements `AddressSpace`, and `TaskList`: what `task_new` makes a task of |
| `ProcessProofs` | `Process` |
| `FileTableProofs` | `FileTable`, and `Fopen` with `PathParser` and `FatLookup` in it |
| `Fat16ReadProofs` | `Fat16Read` |
| `DiskReadProofs` | `DiskStream`, `DiskRead`, and that the second implements the first |
| `InterruptsProofs` | `Interrupts` |
| `KmainProofs` | `Kmain`, `Terminal` and `Gdt` |

A proof module extends the modules it is about; `ProcessProofs` and `KmainProofs` also take `KHeapProofs` (and
`KmainProofs` takes `ProcessProofs`) as instances, on the heap of the kernel and with no loop under way, since `Process` and `Kmain` are made of whole calls. Modules that are extended together have different names for
their specifications (`TaskSpec`, `CallSpec`, `ReadSpec`, `BootSpec`). `PROJECT.json` maps every definition to its lines.

Four refinements connect the levels: `KHeapLoops` implements `KHeap` (the heap's scan,
mark and clear loops do what the whole calls say), `KHeap` implements
`BlockAllocator`, `Paging` implements `AddressSpace`, and `DiskRead` implements `DiskStream` (the one
step that reads a sector is the port protocol, whatever the drive's pace). `Process` uses the
upper levels, so what it shows of the loading of programs rests on the code of all of them, and `Kmain` runs
`Process` on the heap and the kernel directory it has set up itself.
`Fopen` runs the parser and the walk one after the other, on the parser's own list of names;
`FileTable` takes over where it ends, with files that open and paths that are refused.
`Fat16Read` relies on `BytesInOrder` of `DiskStream`, and `FatLookup` on the order of
clusters `Fat16Read` shows (its `ClusterRead` has the same 0, 1, 3, 6, ... steps).

Conventions. Definitions have the names of the C functions where they stand for a whole one.
History variables, which the code does not have, are marked in the declarations. `Mut_...` operators are
variants with a plausible mistake; no specification uses them. They are there to show
that each property can fail: put in place of the definition that follows, the property is violated.

What is abstracted:

* Sizes. Blocks, pages, sectors and clusters have two to four bytes, words 16 to 128 values.
  Where the code's 32-bit arithmetic can wrap (`heap_align_value_to_upper`, offsets
  in `fat16_read` and `fat16_seek`, virtual addresses in `paging_map_range`), the model wraps.
* Contents. A byte read from the disk is named by where it comes from, a register by its name and the run of
  the program that computed it. Names are opaque, except in `PathParser` and `FatLookup`, which see
  their characters, extensions and case. Of the text `kmain` prints, `Kmain` has the lengths and the ends of lines.
* Memory at start. `Kmain` gives the heap room for everything that is allocated before the program is loaded (the kernel has 512 MB);
  from there on allocations fail as in `Process`.
* The TLB. The MMU may remember all of a directory from the moment it is loaded; only loading flushes it.
* NULL. Frame 0 is memory: `Paging` writes tables there, `TaskList` stores
  through `next[NULL]`. Where the code follows an error code as a pointer and what
  follows depends on whatever lies at the top of memory, the state is `"undefined"`
  (`Process`, `FatLookup`) and the behaviour ends; these runs do not check for deadlock for that reason.
* `KHeap` counts writes outside the table in `stray`; what lies there is not modelled.
* Register values. Each is a name and the run of the program that computed it, the flags among them; `task_return` runs the program with
  the kernel's own flags, which are a value no program computes (`KernelFlags`).
* The PICs. `kernel.asm` begins the master's initialisation and does not end it: `ICW1` = 0x11 (line 31) announces `ICW3` and `ICW4`, and what follows the base
  is one word, 0x01, meant as the mode, which the PIC takes for `ICW3`: a slave on line 0, the timer's. `Interrupts` takes the PICs as the emulator of
  the Makefile has them, which delivers the base and the lines whatever else was sent, and leaves open which line of the master the slave is on (`SlaveLines`:
  2 as the board has it, 0 as `ICW3` says). A PIC that waits for its `ICW4` and delivers nothing is not modelled.
* The FAT. A chain may end in any mark FAT16 has. The table has no entry for a mark, so that where the code follows one as a cluster number
  what is read next lies behind the table: anything (`beyond` in `Fat16Read`). In `FatLookup` cluster 0 is the place that the code's formula makes of it,
  slots in the FAT or the root directory, which hold what each volume says (`fat`).

## 3. Runs

Every property of a passing run has a mutant that violates it (`PROJECT.json`).

| Run | Bounds | What it shows |
|---|---|---|
| `kheap` | 5 blocks; requests of 1-3 blocks, exact and one byte over; loops one iteration per step | `ChunksDisjoint`, `TableMatchesChunks`; the loops implement `KHeap`, which implements `BlockAllocator`; every call returns |
| `paging` | 5x5 pages, heap of 19 frames, 9 ways in which others occupy it | complete or nothing, ranges across tables and across the end of the address space, no frame lost; implements `AddressSpace`; calls return |
| `process` | 2 slots, images of 0, 1, 3 and 7 bytes (pages of 2; the last reaches over the kernel's stack into the heap), heap of 11 pages | own image and stack mapped, nothing else writeable, frames disjoint, validated pointers usable, the kernel's pages where they were but for those an image reaches |
| `task_list` | 4 tasks, freed in any order | list exact both ways and current task live, until a first task is freed before others |
| `file_table` | 4 descriptors, 5 addresses that are reused, a file of 2 bytes that is open several times, a directory | each descriptor but the last of the table its file, and its position, which seeks on others do not move; no FAT descriptor leaks until the table is full |
| `fopen` | all strings up to 3 characters over `0 x : /` and, behind the drive, up to 5 over `d x /`, names with extensions and paths through `..`; longest path 11; 8 volumes (tidy, deletions, scattered and long directories, three kinds of slots where cluster 0 is taken to be); every allocation may fail | the list is what the path spells, only shorter when memory runs out; bad paths refused; nothing leaks besides the list or is freed twice, but what `kzalloc(0)` returned for an empty directory; on tidy volumes the file opened is the one the string names, unless the path goes on through cluster 0; every call returns |
| `fat16_read` | files of 0-4 clusters of 2 bytes, sound and broken chains, end marks the code knows and two it does not | never another file's bytes where it knows the mark, never past the end, right within a cluster or the first two |
| `disk_stream` | 30 sectors of 2 words, registers of 3 values, so that addresses take all four; reads over 1-4 sectors, a kernel of 2; a drive of any speed that may fail at each sector | bytes in order, no sector too many, every sector the one asked for; the kernel is loaded and reads return unless the drive fails |
| `interrupts` | timer, keyboard and a slave line, the slave on line 0 or 2; 4 commands, 2 runs | registers given back, saved state resumes but for the flags, entries return, the master acknowledged |
| `kmain` | disks with and without the FAT16 signature, a drive that may fail at any read; programs of 0, 1, 3 and 7 bytes or none (pages of 2), 15 pages of heap; the real screen width and messages, output down to row 26 | every start ends, waiting for a drive that failed being an end; text in order; descriptors decode; mounting keeps what it should; without a volume no program; a program has its pages, and its interrupts all they need |

The bounds are small but not too small for the cases to happen: heaps fill up, fragment and refuse; the scan's
short run at the end occurs; chunk creation fails at every one of its allocations; loads fail at each step with
earlier ones loaded; addresses are reused while stale table entries point at them; reads cross
two boundaries and more; a path exceeds the maximum; an interrupt comes before and after
every system call, and requests arrive during any instruction; the drive fails while the kernel is loaded,
while `kmain` mounts the volume and while a file is read; an image reaches the kernel's pages; a chain ends in a mark that the code follows; the program's text goes past the last row of the screen.
Symmetry is used in `file_table` and `task_list` only, which have no temporal property. A run states
no type invariant where a property would fail on a wrong type anyway; those of `KHeap`, `DiskStream`, `FileTable`, `TaskList` and `Paging` are
proved (section 5).

Deadlock is not checked where the system may stop: `process` and `fopen` end in `"undefined"`
or after one call, and in `interrupts` an exception may send the CPU where the kernel has no code.

### What the code does not do as it says

Two runs end in a violation. Each states what a comment says; the finding in
`PROJECT.json` quotes it.

| Run | Property | In short |
|---|---|---|
| `fat16_read_chain` | `ReadsFileBytes` | a read beyond the first two clusters continues in the wrong one |
| `file_table_refused` | `InvalidPathOpensNothing` | a missing file "opens": its descriptor is an error code |

Other defects are in the models, and the properties are stated around them:

* a free run at the end of the heap's table is granted even when it is too short (`KHeap`, `BlockAllocator`);
  a size within 4 KB of 2^32 rounds up to 0 (outside the sizes of run `kheap`); freeing NULL clears bytes below the table (only counted, `stray`);
* entries behind a deleted one are not found, and directories of three clusters or more, or of two that are apart, are not read in order
  (`FatLookup`; `OpensTheFileNamed` speaks of tidy volumes: directories of one or two neighbouring clusters, nothing deleted);
* the `..` of a directory in the root has cluster 0, which is read as a directory although the FAT is there (`FatLookup`; `OpensTheFileNamed`
  excepts the paths that go on through it, `NothingElseAllocated` does not);
* a directory without entries gets the address of a block that `kzalloc(0)` has not taken, which is freed with it
  (`FatLookup`; `NothingElseAllocated` admits this and no other free of what is not allocated);
* of the marks that end a chain the code knows 0xFFF8 and 0xFFFF: at 0xFFF9 to 0xFFFE it goes on into other files' clusters
  (`Fat16Read`; `StaysInFile` speaks of marks it knows);
* the successor of a first task that is freed keeps pointing back at it (`TaskList`, `headFreed`);
* the last descriptor can be neither used nor closed (`FileTable`; `EachFdItsFile` excepts it, and it leaks in a full table only);
* `struct file_descriptor` and its slot are never given back, nor the parsed path (`FileTable`'s table, `PathParser`'s list; `NothingLeaksUntilFull` is about
  the FAT descriptors behind them);
* an image as long as to reach the kernel's stack or heap is mapped over them (`Process`; `KernelSeesItsOwn` says over which pages,
  `RunsOnItsPages` excepts it);
* the saved flags are never restored: a resumed program gets the kernel's (`Interrupts`; `SavedStateResumes` says which registers come back);
* a failed load frees nothing, and neither a missing program nor a task that cannot be made is noticed
  (`Process`: the leak stays in its heap, and the behaviour ends as `"undefined"`; `Kmain` gets there when the program is not
  on the disk, where `kmain` meant to panic);
* a disk that is not FAT16 is refused, and the three streams made for it are lost: what mounting gives back there is the stream of the boot sector
  and the private data only (`Kmain`, `MountKeepsItsOwn` says exactly this);
* `fat16_read` does not move the position: two reads in a row give the same bytes (`FileTable`, `Fat16Read`);
* a file without an extension is found under its name with a dot at the end only (`FatLookup`,
  `OpensTheFileNamed` speaks of the others);
* a limit of exactly 2^20 is encoded as 0 (`Gdt`, `GdtDecodes` and `EncodedDecodes` leave it out);
* the terminal does not scroll: from row 25 text is out of sight, and from row 1843 on it is written over the
  kernel at 1 MB (`Terminal`; `TextInOrder` says where each character goes);
* a drive that reports an error is polled for ever (`AtaDisk`, `Kmain`; `ReadReturns` excepts it, `BootEnds` counts it as an end).

They affect each other little today: one program of less than two clusters is loaded from a
directory without deletions, into an empty heap of 512 MB.

## 4. Fairness

* `KHeapCalls` (the loops), `Paging`, `Fopen`: weak fairness of the
  call in progress. The kernel runs with interrupts off, so nothing takes the CPU away; callers
  are under no obligation to call.
* `Kmain`: weak fairness of the next line of `kmain`, for the same reason. The reads of mounting and loading wait for the drive (`disk.c:25`): one that
  reports an error holds `kmain` up for ever (`DriveFails`, possible at each of them), one that does not is taken to have its data in time, as
  `DiskRead` has it in detail. The program that runs at the end need not print.
* `Interrupts`: weak fairness of the kernel's next instruction, for the same reason. The devices and the program are not fair: they may
  raise no line and make no call, and nothing is assumed or claimed about when the CPU takes a line.
* `DiskRead`: weak fairness of the kernel, and of the drive answering a command it has accepted, with data *or* with an error.
  Nothing is assumed about how long it takes or that it ever delivers.

## 5. Proofs

Every property of a passing run is proved for all values of the constants, except those of section 6. Each
theorem follows from an inductive invariant, named below, by one lemma per action; TLC has checked each invariant on the run of its
module first. A theorem assumes what the `ASSUME` of its module says, which TLC evaluates on the constants of every run, and no more unless it is
said here.

### Heap (`KHeapProofs`; `HeapAssumption`: positive sizes, a word that is a multiple of the block size)

* `HeapTypeOK`, `HeapChunksDisjoint`, `HeapTableMatchesChunks`: the invariants of run `kheap`.
* `HeapImplementsAllocator`: `Spec => ImplementsAllocator`, the refinement of run `kheap`.
* `HeapLoopsImplementCalls`: `LoopSpec => ImplementsKHeap`, every iteration of the scan, mark and clear loops is a step of the whole calls or none;
  `HeapLoopsAllocate`: so the loops implement the allocator.

The first three, `HeapImplementsAllocator` and `HeapLoopsAllocate` assume `NonzeroRequests`: no request rounds to zero blocks. The code does hand out a
block it does not mark for `kmalloc(0)` and for sizes that wrap; the next call gets the same
block, so nothing of this holds without the assumption.
Note that *short runs are included*: the theorems hold although a chunk
may reach past the table, because `TableMatchesChunks` speaks of the part inside and
`ChunksDisjoint` of what was marked.

`IInv` is the conjunction of types, "no chunk is empty",
`ChunksDisjoint` and `TableMatchesChunks`. None of them is inductive alone: a free walks
the HAS_NEXT bits, and clears exactly its chunk only if the table describes that chunk and no
other chunk lies in it; a malloc keeps chunks disjoint only if the table covers every live
chunk. `SearchResult` states what the search returns for any table (that there is a least free block of a
sufficiently long run goes back to `LeastExists`), and `FreeClearsChunk` what freeing clears; both
are used for the invariant and the refinement.

`LoopInv` says how far each loop has come from the table the call found (`before`). For the scan (`Scanned`): the run in hand is free and
begins as far back as it can, and no run that ended earlier is long enough; that is why the first that is becomes the least of all, and why at the end
of the table the run in hand is the short one that is granted (`FoundRun`, `FoundEnd`). For marking, `entry` is
already what the next block gets; for clearing, every block before `i` had HAS_NEXT. Requests of no blocks are included.

* `HeapCallsGetOn`: no loop gets to an index where none of its guards holds, and each iteration leaves less `ToDo`, a number. It is what
  `CallsReturn` rests on besides fairness: a call that is scheduled returns, for a table of any size.

### Paging and tasks (`TaskProofs`)

Paging, for tables of any number of entries, any heap below the last table, any pages and any flags the callers pass
(`PagingAssumption`, `FlagsAssumption`: a directory's flags allow what is mapped in it):

* `PagingInvariance`; `PagingFramesAccountedFor`: frames in use are those of others and of the live directories, and none has two uses;
* `PagingMapToMapsAll`: when `paging_map_to` reports success, every page of the range leads where it was asked to, also round the end of the address space;
* `PagingImplementsAddressSpace`: each iteration is a step of the abstract spaces or none at all;
* `PagingCallsGetOn`: each iteration leaves less to do, the cleanup of a directory that could not be completed included, and no index passes the end of its loop.

`IInv` describes memory in the middle of each loop. `Accounted` has the directories that are complete and, while one is
made or freed, its part (`Busy`). `Making` is the delicate one: an allocation that is refused leaves NULL in the directory, or
makes NULL the directory, and the loop goes on writing tables to address 0; that this spoils nothing but frame 0 rests on there being no
free frame any more once one allocation was refused, and the final cleanup frees every frame once because no table appears in two entries.
`Mapping` counts the pages mapped so far.

Tasks, for any set of tasks (`TasksAssumption`: NULL is not one of them): `TaskTypeOK`, `TaskListIsLive`, `TaskPrevIsPrevious`, `TaskCurrentIsLive`.
The invariant is `Exact` as long as `headFreed` is false: links in both directions, both ends, no task twice, and a
current task that is the first. The three properties are not inductive one by one: a removal
relinks through `prev`, takes the new tail from it, and takes the next task from `next`.

### Processes (`ProcessProofs`; `ProcessAssumption`, `LayoutAssumption`)

* `ProcessInvariance`; `ProcessImageAndStackMapped`; `ProcessWritesOnlyItsOwn`; `ProcessValidPointersAreOwn`; `ProcessKernelSeesItsOwn`: the
  invariants of run `process`, for any number of processes, images and pages of any size.

`IInv` says which chunks of the heap `process_load` has gathered at each line (`LoadingInv`), that a loaded process holds
its image, its stack and its page tables and that its address space is the one `process_map_memory` makes (`LoadedInv`), and that the heap's own
invariant holds (`Covered`, from `KHeapProofs`). Two processes cannot write each other's memory because their chunks are
disjoint, and cannot write the kernel's because what is mapped writeable is as long as the chunk (`PagesForBytes`: the heap and
`process_map_binary` round up to the same page). `LayoutAssumption` is how the addresses in `config.h` lie to each other: the stack below the image and off the kernel's pages,
programs beginning below the heap, and nothing past the end of the address space. It says nothing of how long an image is: one may reach
the kernel's stack and the heap, and `ProcessKernelSeesItsOwn` says that then exactly the pages it reaches are the program's.
`ProcessAssumption` keeps sizes from rounding up past the word.

### Files (`FileTableProofs`, `Fat16ReadProofs`)

The descriptor table, for every table size and any sets of paths and addresses (`TableAssumption`):

* `FileTypeOK`; `FileEachFdItsFile`: through `file_get_descriptor`, an open fd leads to its own file, and no other open fd to the same descriptor; the last
  fd of the table, which `file.c:76` refuses, is excepted;
* `FileNothingLeaksUntilFull`: while a slot is free, the FAT descriptors in memory are those that the open fds lead to;
* `FileReadsFromItsPosition`: a read starts where the seeks on that very fd have taken it, whatever was done to others.

`IInv` adds `HandedOut` (slots are never emptied, so no fd is handed out twice, and an error code stands
behind refused paths only) and `FilledInOrder` (slots fill from the first on, so the last fd, which
`fclose` cannot reach, exists only in a full table).

One call of `fopen` and the close after it, for every longest path, any strings and volumes, and any allocation refused
(`FopenAssumption`: a slash is no digit, and paths do not contain the marks the model uses for the end and for NULL):

* `FopenInvariance`; `FopenListIsPath`: the parser makes the list the string spells, or its beginning when memory runs out, and refuses the strings it should;
* `FopenNothingElseAllocated`: each directory on the way is freed once, and what stays is the list, the descriptor and the item found; freed without being
  allocated is only what `kzalloc(0)` returned for an empty directory.

The reference definition takes a string apart at its slashes all at once, the parser works character by character; `CallInv` connects them by counting: the parser stands
behind a slash whose *rank* among the slashes is one more than the names it has linked (`Behind`), so that the name in its buffer is the
field of that rank. For the walk it says that items found earlier belong to earlier parts of the path, so none is freed twice.

* `FopenGetsOn`: parsing, opening, walking and closing follow each other (`Stage`), and each step of the parser and the walk leaves less `ToDo`: a
  character is passed or a name linked, a part of the path is looked for once. Chains that are circles are included.

* `FopenOpensTheFileNamed`: on a tidy volume, what is opened is what the string names, and nothing is opened only when nothing but files without an
  extension have that name. Tidy is a volume on which no entry is marked as deleted and every directory, indeed every chain, is one cluster or two that are neighbours:
  `fat16_read_internal` does not read three in order, nor does the counting agree with the chain of two that are apart. Paths that go on behind the `..`
  of a directory in the root are excepted: what they find is whatever the FAT looks like.

The last one has two more assumptions, on the volumes. They are what FAT16 prescribes and what a formatted disk has, and `MCFopen`'s volumes satisfy them,
the untidy ones too. `VolumesAssumption`: clusters are numbered from 2 on without a gap, a chain stays among them (it may be short, long, broken or a
circle), the FAT is as long as two clusters, so that cluster 0 is a place on the disk, the root directory has an end entry, and the last entry of the disk is
one, so that a count ends. `SlotsAssumption`: an entry in use has a name, a directory's
entry has no extension and leads to a cluster or, for the parent of a first-level directory, to cluster 0, also where the FAT is taken for slots; and no two live entries of a directory have the same name in
any case. Without the last, "the entry found" would not be "the one the path names": the walk never looks back at a second entry.

Two things have to be shown. First, that what is loaded of a directory is what is in it, although it is counted along the disk and read along its chain, with steps
0, 1, 3, ...: on a tidy volume a chain is one cluster or two neighbours (`TidyChain`), so that the count stops at the first end marker
of the disk from the directory's start on (`CountIs`), and as far as it goes the three ways to find the k-th slot - along the chain (`ChainSlots`), as it is read
(`SlotsRead`) and as it lies on the disk (`SlotAt`) - lead to the same one, or the directory cannot be loaded (`Extent`, `DirectoryLoaded`). Second, that the walk
does not go astray: `PathWalked` says that the directory in memory is the one that the parts so far name, and that besides the item held they name nothing
but files, behind which no path goes on (`NothingBehind`). `Reached`, the reference, follows *all* entries of a name along the path at once; the walk takes
the first.

`Follow` and `Reached` are recursive functions, about which the provers know nothing before it is shown that a function as the recursion describes exists. The induction theorems
of the library take an operator as a parameter and cannot be used; `RecursionExists` shows it with sets and functions
as parameters instead, by the least number up to which there is none. What holds of the values follows then from
the equations (`FollowIs`, `ReachedIs`).

Contents, for every size of clusters, chains, seeks and requests (`Fat16Assumption`: a chain has no cluster twice and ends in any mark FAT16 has, and what lies
behind the table may be anything; `fread` refuses items of size 0):

* `ReadInvariance`; `ReadStaysInFile`: no byte of a cluster outside the file's chain, on sound and broken chains, if the chain ends in one of the marks of
  `fat16.c:18-22` (`EndKnown`); at 0xFFF9 to 0xFFFE this is false, as the walk goes on;
* `ReadNeverPastEnd`: no more bytes than the file has left;
* `ReadShortReadsRight`: reads within a cluster, or from the first into the second, give the bytes of the file, if they lie before an end that the code
  does not know.

`WalkInv` ties the offset in the file, what is left of the item and what has been delivered to each other; `ShortInv` says where the walk is for
the reads that come out right. It cannot be said of others: the walk for a later chunk starts at the cluster the last one ended in, and
counts from the beginning of the file (finding `fat16_read_chain`).

### Disk (`DiskReadProofs`)

For every sector size, positions and lengths (`StreamAssumption`):

* `StreamBytesInOrder`: the bytes delivered are those from the position on, in order.
* `StreamNoExtraSector`: no sector is read that the request does not need.

`IInv` there is the types, `BytesInOrder` and `InStep`, which ties the position, the
count of bytes still to be read and those delivered to each other at every iteration; without it a
step from a state in which they disagree would break the order. The arithmetic of
div and mod (`DivModUnique`, `SameSector`, `ChunkBounds`) is stated separately.

For every number of register values and drive that is not larger than an address can
say (`DiskReadAssumption`):

* `ReadImplementsStream`: the stream on the driver is the stream of `DiskStream`;
* `ReadBytesInOrder`: what follows for its bytes from `StreamBytesInOrder`;
* `ReadSectorsAreTheDrives`: when the driver returns, its buffer is the sectors it was asked for.

The invariant of the last one ties the drive's place and its outstanding sectors to the loop's `b` and `i`, and
says that words are taken only while DRQ is set. `AddressArrives` shows that the address put together from its
pieces is the one taken apart.

* `ReadGetsOn`: the driver never polls a drive from which nothing more is to come (`NotInVain`), takes each word once, and each sector that is read
  lessens what the caller waits for. So only a drive that fails or is never ready keeps a read from returning; with a loop that is one sector too long
  this would be false after the last word.

### Interrupts (`InterruptsProofs`; `LinesAssumption`: the lines are those of two PICs, 0 to 15, and the slave is on one of the master's)

For any lines, commands and runs of the program:

* `EntryInvariance`; `EntryReturnsToCaller`: the program goes on with the registers it had, and with the answer in `eax` after a system call;
* `EntrySavedStateResumes`: what a system call has saved are the registers the program was interrupted with, and `task_return` would give it back each from its
  own field, the flags excepted, which it takes from the kernel.

`IInv` gives the whole kernel stack at every instruction of an entry (`StackInv`: `Entered`, `Frame`, `Arguments`), where the program's registers are when they
are not in the CPU (`RegsInv`), and which stub runs for which cause (`StubInv`). An exception with an error code
leaves the stack one word longer, so that its `iret` goes astray and never back to the program: that is part of `StackInv`.

* `EntryNeverLost`: an entry by a system call or a device never ends in a panic or astray;
* `EntryMasterAcknowledged`: whenever the program runs, no line of the master is in service, so none is held back by an interrupt before. The first end of
  interrupt is enough, on whichever line the slave is: at most one line of the master is in service at a time (`MasterInv`). Nothing is said of
  the slave's own lines, which are never acknowledged there and served once.

### Start (`KmainProofs`)

* `TerminalTextInOrder` and `KmainTextInOrder`, for every width and number of rows (`TerminalAssumption`): each character goes behind the one
  before it, or to the start of its line, as long as the row has not counted round.
* `EncodedDecodes` and `KmainGdtDecodes`, for every split of the fields (`GdtAssumption`): the CPU reads out of a descriptor
  the base and the limit that were put in, for every limit `encode_gdt_entry` accepts but one.
* `KmainInvariance`, `KmainNoVolumeNoProgram`, `KmainMountKeepsItsOwn`, `KmainRunsOnItsPages` (`KmainAssumption`: those of `Process`, and a root directory, a TSS and an
  `esp` page as the kernel has them): no program without a volume; the three streams, the private data and the root directory that mounting leaves, or the three streams alone, which are lost, where the disk is refused; the MMU
  translates by the running program's directory as it is, with everything its interrupts need set up and the kernel's stack in place unless the image
  reaches it.

`BootInv` lists, for each line of `kmain`, what has been set up (`SetupInv`), what is mounted, which is all the heap holds
(`MountInv`), the directory in CR3 and what the MMU remembers of it (`PagesInv`), and which invariant the heap and the processes have from there on (`HeapInv`:
that of `KHeapProofs` while mounting, that of `ProcessProofs` once the program is being loaded). The proof takes the step lemmas of those
modules as they are. That the MMU is never stale rests on the process being loaded into a directory which is not the one in use.

## 6. Only model-checked

* Liveness (`CallsReturn`, `FopenReturns`, `ReadReturns`, `EntriesReturn`, `BootEnds`): it needs fairness and ENABLED, which the prover at hand does not have.
  What is proved of it is the part that is safety (`HeapCallsGetOn`, `PagingCallsGetOn`, `FopenGetsOn`, `ReadGetsOn`, `EntryNeverLost`): steps lead on
  and never into a state from which nothing does. That fair steps are then taken, and all of `BootEnds`, rests on TLC.
* The two findings, which are counterexamples.

## 7. Not modelled, and limits

* String helpers that nothing calls (`printf`, `trim`, `ltrim`, `rtrim`, `strnlent`) or that only a panic calls (`sprintf`).
  `strncpy` writes one byte more than its size when the source is longer; its one call has a short constant name.
  The others are single loops over a string or a buffer; what they return is part of the operations that call them.
* `pathparser_free` has no caller. The panics of `gdt.c` cannot be reached with the table of `kernel.c`.
* The switch to protected mode and A20 are single writes to hardware; the initial state of `Kmain` is what they leave.
* The master PIC's initialisation (`kernel.asm:31-38`) is not carried out in a model and does not end in the state its comments name: the last word of it is taken as
  `ICW3`, and `ICW4` never comes. The initial state of `Interrupts` is a choice of what a PIC can make of that, as far as it goes on delivering
  interrupts (section 2); one that waits for `ICW4`, is in 8080 mode or ends interrupts by itself is left out.
* That 100 sectors hold the kernel and that `.bss` is zero depends on the build.
* Error codes of the disk while mounting (the driver never returns one: it waits for ever, `DriveFails`), a full directory without an end entry (the count then
  runs on into what follows), directories with an extension, and volume labels or long-name entries, which the code takes for files.
* Directories whose chain ends in a mark that the code does not know: the chains of `FatLookup` end where it knows they do. For files `Fat16Read` has both.
* `fread` of a directory reads behind its structure; `FileTable` gives no such call, nor a second `fclose` of an fd, which no caller makes and which would
  free what has got the memory since.
* Who has the block that `kzalloc(0)` returned for an empty directory, and loses it when the directory is freed: `FatLookup` records the free and goes on.
* Freeing or changing the directory that is loaded: nothing does. `Kmain`'s `RunsOnItsPages` would fail if something did.
* How far `print` reads from a validated address. Wording of messages.
* Exceptions end in `"astray"` when they have an error code or are divide errors; `Interrupts` follows them no further.
* User programs: `Interrupts` has any sequence of system calls and `Kmain` any output; what they compute is theirs.

## 8. What could come next

1. State and prove what connects components and is only argued so far: that the short reads of `Fat16Read` are all that `Process` does to load
   an image that fits two clusters.
2. Compose `FileTable` and `Fat16Read` behind one abstract "open, read, close" of a file store, and `Process` on top of it.
3. Weaken "tidy": say of volumes with deletions, with scattered or with long directories which entries are still found, once the code counts and reads them the same way.
