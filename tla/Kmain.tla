------------------------------- MODULE Kmain -------------------------------
(***************************************************************************)
(* kmain (src/kernel.c): the kernel from its first line to the first       *)
(* program.  It sets up the descriptors (Gdt), the heap (KHeap), the file  *)
(* system (fs_init, disk_search_and_init and fat16_resolve), interrupts,   *)
(* the TSS, paging (AddressSpace) and the system calls, loads a program    *)
(* (Process) and runs it, and prints what it does (Terminal), character by *)
(* character, since nothing else happens meanwhile: interrupts are off     *)
(* until the program runs.                                                 *)
(*                                                                         *)
(* What may differ from one start to the next is the disk: whether it is a *)
(* FAT16 volume, whether the program is on it and how long it is, and      *)
(* whether the drive reports an error when it is read. RAM is large enough *)
(* for everything kmain allocates before it loads the program. A structure *)
(* and a page directory with its tables are one page each, as in Process.  *)
(* The MMU may remember every page of a directory from the moment it is    *)
(* loaded (tlb); nothing in the code flushes it other than by loading a    *)
(* directory.                                                              *)
(***************************************************************************)
EXTENDS Terminal, Gdt, Sequences, FiniteSets

CONSTANTS
  Max, Files, HeapPages, HeapStart, PageSize, PageCount, Word, ProgramPage,
  StackPage, StackSize, KernelPages,  \* as in Process
  RootSize,   \* bytes of the root directory
  TssBase, TssSize,  \* &tss and sizeof(tss)
  EspPage,    \* page below tss.esp0 = 0x00600000
  MaxRow      \* bound: the row at which programs stop printing here

VARIABLES
  entries, stray, live, ret, space, processes, pc, slot, process, size, fd,  \* of Process
  stage,       \* the line of kmain reached, "ring3", "panic" or "undefined"
  todo,        \* characters being printed
  hung,        \* the drive reports an error, and disk.c:25 goes on polling it
  gdt_raw,     \* the descriptors loaded by lgdt
  signature,   \* whether the disk's boot sector has the FAT16 signature
  filesystem,  \* disk.filesystem is the FAT16 driver, not NULL
  mounted,     \* what fat16_resolve allocated and has not freed
  setup,       \* what has been set up: of "fs", "idt", "tss", "commands"
  kernel_chunk, cr3,  \* the kernel's page directory; the one in CR3
  tlb,         \* the pages of the loaded directory when it was loaded
  current      \* current_task

disk == <<signature, filesystem, mounted>>
pages == <<space, kernel_chunk, cr3, tlb>>

Load == INSTANCE Process
Heap == INSTANCE KHeap WITH
  Total <- HeapPages, SAddr <- HeapStart, BlockSize <- PageSize,
  Sizes <- Load!Sizes \cup {RootSize}

heap == <<entries, stray, live, ret>>
loading == <<processes, pc, slot, process, size, fd>>
console == <<row, col, last, lines>>
bootvars == <<heap, pages, loading, disk, console, stage, todo, hung, gdt_raw, setup, current>>

(* Programs are loaded as Process says; the task state segment has a size  *)
(* that fits a descriptor; the page under esp0 is of the kernel's stack.   *)
ASSUME KmainAssumption ==
  /\ Load!ProcessAssumption /\ Load!LayoutAssumption
  /\ Max > 0 /\ EspPage \in KernelPages
  /\ RootSize \in Nat \ {0} /\ RootSize + PageSize <= Word
  /\ TssBase \in Bases /\ TssSize \in 2 .. GDT_MAX_LIMIT_FOR_BYTE_MODE

NULL == 0

(* print and kprint, by the length of their text; " done\n".               *)
print(n) == [k \in 1 .. n |-> Visible]
kprint(n) == print(4 + n)
Done == kprint(5) \o <<NewLine>>

(* The table gdt of kernel.c: 0xffffffff is the largest limit there is.    *)
Segments ==
  LET all(type) == [base |-> 0, limit |-> LimitLow * LimitHigh * Unit - 1, type |-> type]
  IN  << [base |-> 0, limit |-> 0, type |-> "null"],
         all("kernel code"), all("kernel data"), all("user code"), all("user data"),
         [base |-> TssBase, limit |-> TssSize - 1, type |-> "tss"] >>
-----------------------------------------------------------------------------
(* After terminal_initialize.  The table of the heap holds anything yet.   *)
BootInit ==
  /\ Init
  /\ entries = [b \in Heap!Blocks |-> [taken |-> TRUE, first |-> FALSE, next |-> TRUE]]
  /\ stray = {} /\ live = {} /\ ret = NULL
  /\ space = [t \in {} |-> <<>>]
  /\ processes = [s \in Load!Slots |-> Load!NoProcess]
  /\ pc = "idle" /\ slot = 0 /\ process = Load!NoProcess /\ size = 0 /\ fd = FALSE
  /\ stage = "gdt" /\ todo = kprint(21) \o <<NewLine>> /\ hung = FALSE
  /\ gdt_raw = <<>>
  /\ signature \in BOOLEAN
  /\ filesystem = FALSE /\ mounted = {} /\ setup = {}
  /\ kernel_chunk = NULL /\ cr3 = NULL /\ tlb = <<>> /\ current = NULL

(* The next character of what is being printed.                            *)
PrintChar ==
  /\ todo # <<>>
  /\ terminal_writechar(Head(todo))
  /\ todo' = Tail(todo)
  /\ UNCHANGED <<heap, pages, loading, disk, stage, hung, gdt_raw, setup, current>>

(* kmain goes from one line to another, and text is printed.               *)
Goto(from, to, text) ==
  /\ stage = from /\ todo = <<>> /\ ~ hung
  /\ stage' = to /\ todo' = text
  /\ UNCHANGED <<console, hung>>

(* panic: its text, and a loop for ever.                                   *)
panic(from, n) == Goto(from, "panic", print(7) \o print(n))

PanicLoop == stage = "panic" /\ todo = <<>> /\ UNCHANGED bootvars

(* get_raw_gdt_struct and gdt_load.  encode_gdt_entry would panic on a     *)
(* limit it does not accept; kmain has none.                               *)
get_raw_gdt_struct ==
  /\ Goto("gdt", "heap", kprint(17) \o Done)
  /\ \A k \in DOMAIN Segments : Accepted(Segments[k].limit)
  /\ gdt_raw' = [k \in DOMAIN Segments |-> encode_gdt_entry(Segments[k])]
  /\ UNCHANGED <<heap, pages, loading, disk, setup, current>>

kheap_init ==
  /\ Goto("heap", "fs", kprint(27) \o Done)
  /\ entries' = [b \in Heap!Blocks |-> Heap!FreeEntry]
  /\ UNCHANGED <<stray, live, ret, pages, loading, disk, gdt_raw, setup, current>>

(* fs_init: the driver's table has FAT16 as its only entry.                *)
fs_init ==
  /\ Goto("fs", "private", kprint(28) \o Done)
  /\ setup' = setup \cup {"fs"}
  /\ UNCHANGED <<heap, pages, loading, disk, gdt_raw, current>>
-----------------------------------------------------------------------------
(* disk_search_and_init: fs_resolve asks the driver, fat16_resolve.  Each  *)
(* of its allocations in turn; the driver is entered in the disk before    *)
(* the volume has been looked at.                                          *)
After == [private |-> "cluster", cluster |-> "fat", fat |-> "directory",
          directory |-> "stream", stream |-> "header"]

Allocate(bytes, kind) ==
  /\ Heap!heap_malloc(bytes)
  /\ ret' # NULL
  /\ mounted' = mounted \cup {[kind |-> kind, at |-> ret']}

Release(kinds) ==
  /\ \E m \in mounted, c \in live :
       /\ m.kind \in kinds /\ m.at = Heap!heap_block_to_address(c.start)
       /\ Heap!heap_free(c)
       /\ mounted' = mounted \ {m}

fat16_init_private ==
  \E kind \in DOMAIN After :
    /\ Goto(kind, After[kind], <<>>)
    /\ Allocate(PageSize, kind)
    /\ filesystem' = (filesystem \/ kind = "directory")
    /\ UNCHANGED <<pages, loading, signature, gdt_raw, setup, current>>

(* The boot sector is read; a volume with the signature gets its root      *)
(* directory loaded.                                                       *)
fat16_get_root_directory ==
  /\ signature
  /\ Goto("header", "close", <<>>)
  /\ Allocate(RootSize, "root")
  /\ UNCHANGED <<pages, loading, signature, filesystem, gdt_raw, setup, current>>

NotFat16 ==
  /\ ~ signature
  /\ Goto("header", "close", <<>>)
  /\ UNCHANGED <<heap, pages, loading, disk, gdt_raw, setup, current>>

(* Closes the stream only when the volume is good.                         *)
Mut_diskstream_close ==
  /\ \/ signature /\ Goto("close", "idt", kprint(22) \o Done) /\ Release({"stream"})
     \/ ~ signature /\ Goto("close", "refused", <<>>) /\ UNCHANGED <<heap, mounted>>
  /\ UNCHANGED <<pages, loading, signature, filesystem, gdt_raw, setup, current>>

diskstream_close ==
  /\ \/ signature /\ Goto("close", "idt", kprint(22) \o Done)
     \/ ~ signature /\ Goto("close", "refused", <<>>)
  /\ Release({"stream"})
  /\ UNCHANGED <<pages, loading, signature, filesystem, gdt_raw, setup, current>>

(* Leaves the driver that fat16_resolve entered in the disk.               *)
Mut_fs_resolve ==
  /\ Goto("refused", "idt", kprint(22) \o Done)
  /\ Release({"private"})
  /\ UNCHANGED <<pages, loading, signature, filesystem, gdt_raw, setup, current>>

(* The volume is refused: the private data is freed, its streams are not,  *)
(* and fs_resolve returns NULL, which replaces the driver in the disk.     *)
fs_resolve ==
  /\ Goto("refused", "idt", kprint(22) \o Done)
  /\ Release({"private"})
  /\ filesystem' = FALSE
  /\ UNCHANGED <<pages, loading, signature, gdt_raw, setup, current>>

Mount ==
  \/ fat16_init_private \/ fat16_get_root_directory \/ NotFat16
  \/ diskstream_close \/ fs_resolve
-----------------------------------------------------------------------------
idt_init ==
  /\ Goto("idt", "tss", kprint(26) \o Done)
  /\ setup' = setup \cup {"idt"}
  /\ UNCHANGED <<heap, pages, loading, disk, gdt_raw, current>>

(* memset, ss0 and esp0, and the task register.                            *)
tss_load ==
  /\ Goto("tss", "paging", kprint(19) \o Done)
  /\ setup' = setup \cup {"tss"}
  /\ UNCHANGED <<heap, pages, loading, disk, gdt_raw, current>>

(* paging_load_directory: the MMU knows the directory as it is now.        *)
paging_switch(directory) ==
  /\ cr3' = directory
  /\ tlb' = space'[directory]

(* paging_chunk_new, paging_switch and enable_paging.                      *)
enable_paging ==
  /\ Goto("paging", "commands", kprint(20) \o Done)
  /\ Heap!heap_malloc(PageSize)
  /\ ret' # NULL
  /\ kernel_chunk' = ret'
  /\ space' = [t \in DOMAIN space \cup {ret'} |->
                 IF t = ret' THEN Load!Space!Identity(Load!OwnFlags) ELSE space[t]]
  /\ paging_switch(ret')
  /\ UNCHANGED <<loading, disk, gdt_raw, setup, current>>

(* A command that is registered already would make it panic.               *)
isr80h_register_commands ==
  /\ Goto("commands", "load", kprint(37) \o Done \o kprint(25) \o <<NewLine, NewLine>>)
  /\ "commands" \notin setup
  /\ setup' = setup \cup {"commands"}
  /\ UNCHANGED <<heap, pages, loading, disk, gdt_raw, current>>
-----------------------------------------------------------------------------
(* process_load("0:/bin/empty.bin").  Without a file system fopen refuses; *)
(* with one it does not, since the path is sound.                          *)
LoadStep ==
  /\ \/ Goto("load", "loading", <<>>) /\ Load!process_load
     \/ /\ Goto("loading", "loading", <<>>)
        /\ pc \notin {"idle", "undefined"}
        /\ Load!Next
        /\ pc = "open" => (fd' <=> filesystem)
  /\ UNCHANGED <<kernel_chunk, cr3, tlb, disk, gdt_raw, setup, current>>

LoadUndefined ==
  /\ pc = "undefined"
  /\ Goto("loading", "undefined", <<>>)
  /\ UNCHANGED <<heap, pages, loading, disk, gdt_raw, setup, current>>

Lost == stage = "undefined" /\ UNCHANGED bootvars

(* Loads the program again.                                                *)
Mut_LoadFails ==
  /\ pc = "idle" /\ processes[0] = Load!NoProcess
  /\ Goto("loading", "load", <<>>)
  /\ UNCHANGED <<heap, pages, loading, disk, gdt_raw, setup, current>>

LoadFails ==
  /\ pc = "idle" /\ processes[0] = Load!NoProcess
  /\ panic("loading", 26)
  /\ UNCHANGED <<heap, pages, loading, disk, gdt_raw, setup, current>>

(* Switches to the kernel's own directory.                                 *)
Mut_task_run_as_task0 ==
  /\ pc = "idle" /\ processes[0] # Load!NoProcess
  /\ Goto("loading", "ring3", <<>>)
  /\ current' = processes[0].task
  /\ space' = space
  /\ paging_switch(kernel_chunk)
  /\ UNCHANGED <<heap, kernel_chunk, loading, disk, gdt_raw, setup>>

(* task_run_as_task0: task_switch and the return to ring 3.  The task is   *)
(* the head of the list, being the only one.                               *)
task_run_as_task0 ==
  /\ pc = "idle" /\ processes[0] # Load!NoProcess
  /\ Goto("loading", "ring3", <<>>)
  /\ current' = processes[0].task
  /\ space' = space
  /\ paging_switch(current')
  /\ UNCHANGED <<heap, kernel_chunk, loading, disk, gdt_raw, setup>>

(* The drive reports an error when it is read: the boot sector and the     *)
(* root directory, what fopen looks up, the program.  It will have no data *)
(* and kmain waits for that for ever; what the call had allocated by then  *)
(* is left out, as nothing runs that could use it.                         *)
DriveFails ==
  /\ todo = <<>> /\ ~ hung
  /\ \/ stage = "header"
     \/ stage = "loading" /\ pc = "open" /\ filesystem
     \/ stage = "loading" /\ pc = "image" /\ size > 0
  /\ hung' = TRUE
  /\ UNCHANGED <<heap, pages, loading, disk, console, stage, todo, gdt_raw, setup, current>>

Polls == hung /\ UNCHANGED bootvars

(* The program prints (isr80h_command_print).                              *)
UserPrints ==
  /\ row <= MaxRow
  /\ \E c \in Chars : Goto("ring3", "ring3", <<c>>)
  /\ UNCHANGED <<heap, pages, loading, disk, gdt_raw, setup, current>>

(* The program does something else.                                        *)
UserRuns == stage = "ring3" /\ todo = <<>> /\ UNCHANGED bootvars

Boot ==
  \/ PrintChar \/ get_raw_gdt_struct \/ kheap_init \/ fs_init \/ Mount
  \/ idt_init \/ tss_load \/ enable_paging \/ isr80h_register_commands
  \/ LoadStep \/ LoadUndefined \/ LoadFails \/ task_run_as_task0

BootNext == Boot \/ DriveFails \/ Polls \/ UserPrints \/ UserRuns \/ PanicLoop \/ Lost

(* kmain runs on one CPU with interrupts off: only a drive can hold it up, *)
(* and one that reports no error has the data in time.                     *)
BootSpec == BootInit /\ [][BootNext]_bootvars /\ WF_bootvars(Boot)
-----------------------------------------------------------------------------
(* The CPU sees the segments of kernel.c:38-46 in the table it is given,   *)
(* and would see any other segment that encode_gdt_entry accepts, save for *)
(* the one limit that its bound is off by (gdt.c:14).                      *)
GdtDecodes ==
  /\ \A k \in DOMAIN gdt_raw : Decoded(gdt_raw[k]) = Segments[k]
  /\ \A limit \in Limits \ {GDT_MAX_LIMIT_FOR_BYTE_MODE} :
       Accepted(limit) => CpuLimit(encode_gdt_entry([base |-> 0, limit |-> limit, type |-> "tss"])) = limit

(* What is left on the heap of what mounting allocated: on a FAT16 volume  *)
(* the private data with its three streams and the root directory, and on  *)
(* another disk the three streams alone, which nothing refers to any more  *)
(* (fat16.c:612-621 frees the private data and not what it points to). The *)
(* stream of the boot sector is given back either way; there is nothing    *)
(* else.                                                                   *)
MountKeepsItsOwn ==
  LET streams == {"cluster", "fat", "directory"}
      kinds == {m.kind : m \in mounted}
      addresses == {m.at : m \in mounted} \cup ({kernel_chunk} \ {NULL})
  IN  /\ stage \in {"idt", "tss", "paging", "commands", "load"} =>
           /\ addresses = {Heap!heap_block_to_address(c.start) : c \in live}
           /\ Cardinality(mounted) = Cardinality(kinds)
           /\ kinds = streams \cup (IF filesystem THEN {"private", "root"} ELSE {})

(* A disk that is not FAT16 ends in the panic of kernel.c:114: no program  *)
(* runs, and nothing follows a pointer of a file system that is not there. *)
NoVolumeNoProgram ==
  stage \in {"ring3", "undefined"} => signature /\ \E m \in mounted : m.kind = "root"

(* While paging is on, the MMU's idea of the loaded directory is what is   *)
(* in memory (paging.c:165).  A program runs on the directory of the       *)
(* current task, which has its image and its stack in it and, unless the   *)
(* image is as long as to reach it, the page under esp0 where the kernel   *)
(* means it, when everything that an interrupt from ring 3 needs has been  *)
(* set up.                                                                 *)
RunsOnItsPages ==
  /\ cr3 # NULL => cr3 \in DOMAIN space /\ tlb = space[cr3]
  /\ stage = "ring3" =>
       /\ \E s \in Load!Loaded : processes[s].task = current
       /\ cr3 = current
       /\ \A s \in Load!Loaded : processes[s].task = current =>
            /\ tlb[ProgramPage] = [frame |-> processes[s].ptr, flags |-> Load!OwnFlags]
            /\ tlb[StackPage] = [frame |-> processes[s].stack, flags |-> Load!OwnFlags]
            /\ EspPage \notin Load!ImagePages(processes[s]) =>
                 tlb[EspPage].frame = EspPage /\ "W" \notin tlb[EspPage].flags
       /\ setup = {"fs", "idt", "tss", "commands"}

(* Every start ends: in the program, in a panic, in the undefined end of a *)
(* load that fails in a way process_load does not see (process.c:156), or  *)
(* waiting for a drive that has reported an error (disk.c:25).             *)
BootEnds == <>(stage \in {"ring3", "panic", "undefined"} \/ hung)
=============================================================================
