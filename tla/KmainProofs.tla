---------------------------- MODULE KmainProofs -----------------------------
(***************************************************************************)
(* Proofs about the start of the kernel: the descriptors of Gdt, for every *)
(* width of the fields, the text of Terminal, for every width of the       *)
(* screen, and kmain, which uses both.                                     *)
(***************************************************************************)
EXTENDS Kmain, TLAPS, FiniteSetTheorems

-----------------------------------------------------------------------------
(* A quotient and a remainder exist and are unique.                        *)
LEMMA Split ==
  ASSUME NEW d \in Nat \ {0}, NEW n \in Nat
  PROVE  /\ n \div d \in Nat /\ n % d \in 0 .. d - 1
         /\ n = (n \div d) * d + (n % d)
OBVIOUS

LEMMA SplitUnique ==
  ASSUME NEW d \in Nat \ {0}, NEW q \in Nat, NEW r \in 0 .. d - 1
  PROVE  (q * d + r) \div d = q
OBVIOUS

(* A number below a product splits into a digit of each factor.            *)
LEMMA Digit ==
  ASSUME NEW d \in Nat \ {0}, NEW e \in Nat \ {0}, NEW n \in 0 .. d * e - 1
  PROVE  (n \div d) \in 0 .. e - 1
<1>1. PICK q \in Nat, r \in 0 .. d - 1 : n \div d = q /\ n = q * d + r
  BY Split
<1>2. ASSUME q >= e PROVE FALSE
  <2>1. q * d >= e * d
    BY <1>2
  <2>2. e * d = d * e /\ q * d \in Nat /\ d * e \in Nat
    OBVIOUS
  <2> QED BY <1>1, <2>1, <2>2
<1> QED BY <1>1, <1>2

(* The two fields of a limit hold any number they are wide enough for.     *)
LEMMA LimitFields ==
  ASSUME NEW n \in 0 .. LimitLow * LimitHigh - 1
  PROVE  n = (n % LimitLow) + LimitLow * ((n \div LimitLow) % LimitHigh)
<1>1. LimitLow \in Nat \ {0} /\ LimitHigh \in Nat \ {0}
  BY GdtAssumption
<1>2. PICK q \in Nat, r \in 0 .. LimitLow - 1 :
        n \div LimitLow = q /\ n % LimitLow = r /\ n = q * LimitLow + r
  BY <1>1, Split
<1>3. q \in 0 .. LimitHigh - 1
  BY <1>1, <1>2, Digit
<1>4. q % LimitHigh = q
  BY <1>1, <1>3
<1> QED BY <1>1, <1>2, <1>3, <1>4

(* The three fields of a base hold any base.                               *)
LEMMA BaseFields ==
  ASSUME NEW s, s.base \in Bases
  PROVE  CpuBase(encode_gdt_entry(s)) = s.base
<1> DEFINE n == s.base
<1>1. BaseLow \in Nat \ {0} /\ BaseMid \in Nat \ {0} /\ BaseHigh \in Nat \ {0}
      /\ BaseLow * BaseMid \in Nat \ {0}
  BY GdtAssumption
<1>2. n \in Nat /\ n \in 0 .. BaseLow * BaseMid * BaseHigh - 1
  BY <1>1 DEF Bases
<1> HIDE DEF n
<1>3. PICK q1 \in Nat, r1 \in 0 .. BaseLow - 1 :
        n \div BaseLow = q1 /\ n % BaseLow = r1 /\ n = q1 * BaseLow + r1
  BY <1>1, <1>2, Split
<1>4. PICK q2 \in Nat, r2 \in 0 .. BaseMid - 1 :
        q1 \div BaseMid = q2 /\ q1 % BaseMid = r2 /\ q1 = q2 * BaseMid + r2
  <2>1. BaseMid \in Nat \ {0} /\ q1 \in Nat
    BY <1>1
  <2>2. /\ q1 \div BaseMid \in Nat /\ q1 % BaseMid \in 0 .. BaseMid - 1
        /\ q1 = (q1 \div BaseMid) * BaseMid + (q1 % BaseMid)
    BY <2>1, Split
  <2>3. q1 % BaseMid \in Nat
    BY <2>1, <2>2
  <2> QED BY <2>2, <2>3
<1>5. n \div (BaseLow * BaseMid) = q2
  <2>1. n = q2 * (BaseLow * BaseMid) + (r2 * BaseLow + r1)
    BY <1>1, <1>3, <1>4
  <2>2. r2 * BaseLow + r1 \in 0 .. BaseLow * BaseMid - 1
    <3>1. (r2 + 1) * BaseLow <= BaseMid * BaseLow
      BY <1>1, <1>4
    <3>2. (r2 + 1) * BaseLow = r2 * BaseLow + BaseLow /\ r2 * BaseLow \in Nat
      BY <1>1, <1>4
    <3> QED BY <1>1, <1>3, <1>4, <3>1, <3>2
  <2> QED BY <1>1, <1>4, <2>1, <2>2, SplitUnique
<1>6. q2 \in 0 .. BaseHigh - 1
  BY <1>1, <1>2, <1>5, Digit
<1>7. q2 % BaseHigh = q2
  BY <1>1, <1>6
<1>8. CpuBase(encode_gdt_entry(s)) = r1 + BaseLow * (r2 + BaseMid * q2)
  BY <1>3, <1>4, <1>5, <1>7 DEF CpuBase, encode_gdt_entry, n
<1> QED BY <1>1, <1>3, <1>4, <1>8 DEF n

(* For every width of the fields, the CPU sees the segment that was asked  *)
(* for, whichever limit encode_gdt_entry accepts, except one: the limit    *)
(* that GDT_MAX_LIMIT_FOR_BYTE_MODE lets through as bytes is cut to 0.     *)
THEOREM EncodedDecodes ==
  ASSUME NEW s, s.base \in Bases, s.limit \in Limits,
         Accepted(s.limit), s.limit # GDT_MAX_LIMIT_FOR_BYTE_MODE
  PROVE  Decoded(encode_gdt_entry(s)) = [base |-> s.base, limit |-> s.limit, type |-> s.type]
<1> DEFINE n == s.limit
           top == LimitLow * LimitHigh
           raw == encode_gdt_entry(s)
<1>1. LimitLow \in Nat \ {0} /\ LimitHigh \in Nat \ {0} /\ Unit \in Nat \ {0}
      /\ top \in Nat \ {0}
  BY GdtAssumption
<1>2. n \in 0 .. top * Unit - 1 /\ n \in Nat
  BY <1>1 DEF Limits
<1>3. raw.access = s.type /\ raw.units = (n > top)
      /\ Fields(raw) = (Scaled(n) % LimitLow) + LimitLow * ((Scaled(n) \div LimitLow) % LimitHigh)
  BY DEF encode_gdt_entry, Fields, InUnits, GDT_MAX_LIMIT_FOR_BYTE_MODE
<1>4. n # top /\ (n > top => n % Unit = Unit - 1)
  BY DEF Accepted, GDT_MAX_LIMIT_FOR_BYTE_MODE
<1> HIDE DEF n, raw
<1>5. CpuLimit(raw) = n
  <2>1. CASE n > top
    <3>1. Scaled(n) = n \div Unit
      BY <2>1 DEF Scaled, InUnits, GDT_MAX_LIMIT_FOR_BYTE_MODE
    <3>2. Scaled(n) \in 0 .. top - 1
      <4> HIDE DEF top
      <4>1. n \in 0 .. Unit * top - 1
        BY <1>1, <1>2
      <4> QED BY <1>1, <3>1, <4>1, Digit
    <3>3. Fields(raw) = Scaled(n)
      BY <1>3, <3>2, LimitFields
    <3>4. n = (n \div Unit) * Unit + (Unit - 1)
      BY <1>1, <1>2, <1>4, <2>1, Split
    <3> QED BY <1>3, <2>1, <3>1, <3>3, <3>4 DEF CpuLimit
  <2>2. CASE ~ (n > top)
    <3>1. Scaled(n) = n /\ n \in 0 .. top - 1
      <4>1. n \in 0 .. top - 1
        <5> HIDE DEF top
        <5> QED BY <1>1, <1>2, <1>4, <2>2
      <4>2. Scaled(n) = n
        BY <2>2 DEF Scaled, InUnits, GDT_MAX_LIMIT_FOR_BYTE_MODE
      <4> QED BY <4>1, <4>2
    <3>2. Fields(raw) = n
      BY <1>3, <3>1, LimitFields
    <3> QED BY <1>3, <2>2, <3>2 DEF CpuLimit
  <2> QED BY <2>1, <2>2
<1>6. CpuBase(raw) = s.base
  BY BaseFields DEF raw
<1> QED BY <1>3, <1>5, <1>6 DEF Decoded, n, raw
-----------------------------------------------------------------------------
(* TextInOrder with the types it needs, and the row whatever was printed.  *)
Cursor ==
  /\ row \in 0 .. Rows - 1 /\ lines \in Nat
  /\ col \in 0 .. Width - 1
  /\ last \in Int
  /\ lines < Rows => row = lines /\ last < Cell(col, row)

(* Ending a line moves the cursor past all of it.                          *)
LEMMA NextLineIsBehind ==
  ASSUME NEW x \in 0 .. Width - 1, NEW y \in Nat
  PROVE  /\ Cell(x, y) \in Nat /\ Cell(0, y + 1) \in Nat
         /\ Cell(x, y) < Cell(0, y + 1)
<1>1. Width \in Nat \ {0}
  BY TerminalAssumption
<1>2. Cell(0, y + 1) = y * Width + Width /\ y * Width \in Nat
  BY <1>1 DEF Cell
<1> QED BY <1>1, <1>2 DEF Cell

(* An end of line keeps the cursor behind the text, wherever it comes.     *)
LEMMA EndLineCursor ==
  ASSUME Cursor, EndLine, last' = last \/ last' = Cell(col, row)
  PROVE  Cursor'
<1>0. Width \in Nat \ {0} /\ Rows \in Nat \ {0}
  BY TerminalAssumption
<1>1. /\ row' = (row + 1) % Rows /\ col' = 0 /\ lines' = lines + 1
      /\ row \in Nat /\ row < Rows /\ lines \in Nat /\ last \in Int /\ col \in 0 .. Width - 1
  BY <1>0 DEF EndLine, Cursor
<1>2. /\ Cell(col, row) \in Nat /\ Cell(0, row + 1) \in Nat
      /\ Cell(col, row) < Cell(0, row + 1)
  BY <1>1, NextLineIsBehind
<1>3. row' \in 0 .. Rows - 1 /\ lines' \in Nat /\ col' \in 0 .. Width - 1 /\ last' \in Int
  BY <1>0, <1>1, <1>2
<1>4. ASSUME lines' < Rows
      PROVE  row' = lines' /\ last' < Cell(col', row')
  <2>1. lines < Rows /\ row = lines /\ last < Cell(col, row)
    BY <1>0, <1>1, <1>4 DEF Cursor
  <2>2. row' = row + 1 /\ row' = lines'
    BY <1>0, <1>1, <1>4, <2>1
  <2>3. last' < Cell(0, row + 1)
    BY <1>1, <1>2, <2>1
  <2> QED BY <1>1, <2>2, <2>3
<1> QED BY <1>3, <1>4 DEF Cursor

(* A character in the middle of a line moves the cursor by one cell.       *)
LEMMA MiddleCursor ==
  ASSUME Cursor, last' = Cell(col, row), col + 1 < Width, col' = col + 1,
         UNCHANGED <<row, lines>>
  PROVE  Cursor'
<1>1. /\ row' = row /\ lines' = lines /\ row \in Nat
      /\ col \in 0 .. Width - 1 /\ Width \in Nat \ {0} /\ Rows \in Nat \ {0}
  BY TerminalAssumption DEF Cursor
<1>2. col + 1 \in 0 .. Width - 1
  BY <1>1
<1>3. row * Width \in Nat
  BY <1>1
<1>4. Cell(col, row) \in Int /\ Cell(col, row) < Cell(col + 1, row)
  BY <1>1, <1>3 DEF Cell
<1> QED BY <1>1, <1>2, <1>4 DEF Cursor

(* A step of any spec that prints through terminal_writechar.              *)
LEMMA CharCursor ==
  ASSUME Cursor, NEW c, terminal_writechar(c)
  PROVE  Cursor'
<1>1. CASE c = NewLine
  BY <1>1, EndLineCursor DEF terminal_writechar
<1>2. CASE c # NewLine
  BY <1>2, EndLineCursor, MiddleCursor DEF terminal_writechar, WriteVisible
<1> QED BY <1>1, <1>2

(* The screen is empty at first.                                           *)
LEMMA InitCursor == Init => Cursor
<1>1. 0 * Width = 0
  BY TerminalAssumption
<1> QED BY <1>1, TerminalAssumption DEF Init, Cursor, Cell

(* Text never overwrites text: for every width of the screen and whatever  *)
(* is printed, until 65536 lines have ended.                               *)
THEOREM TerminalTextInOrder == Spec => []TextInOrder
<1>1. Init => Cursor
  BY InitCursor
<1>2. Cursor /\ [Next]_vars => Cursor'
  BY CharCursor DEF Next, vars, Cursor, Cell
<1>3. Cursor => TextInOrder
  BY DEF Cursor, TextInOrder
<1> QED BY <1>1, <1>2, <1>3, PTL DEF Spec
-----------------------------------------------------------------------------
(* What kmain itself prints, and what the program does, is Terminal's.     *)
LEMMA OnlyPrintChar ==
  ASSUME [BootNext]_bootvars, ~ PrintChar
  PROVE  UNCHANGED console
BY DEF BootNext, Boot, bootvars, Goto, get_raw_gdt_struct, kheap_init, fs_init, Mount,
       fat16_init_private, fat16_get_root_directory, NotFat16, diskstream_close,
       fs_resolve, idt_init, tss_load, enable_paging, isr80h_register_commands, LoadStep,
       LoadUndefined, Lost, LoadFails, DriveFails, Polls, panic, PanicLoop, task_run_as_task0, UserPrints,
       UserRuns

(* From the first line of kmain to the last character of the program, text *)
(* never overwrites text.                                                  *)
THEOREM KmainTextInOrder == BootSpec => []TextInOrder
<1>1. BootInit => Cursor
  BY InitCursor DEF BootInit
<1>2. Cursor /\ [BootNext]_bootvars => Cursor'
  <2> SUFFICES ASSUME Cursor, [BootNext]_bootvars PROVE Cursor'
    OBVIOUS
  <2>1. CASE PrintChar
    BY <2>1, CharCursor DEF PrintChar
  <2>2. CASE ~ PrintChar
    BY <2>2, OnlyPrintChar DEF console, Cursor, Cell
  <2> QED BY <2>1, <2>2
<1>3. Cursor => TextInOrder
  BY DEF Cursor, TextInOrder
<1> QED BY <1>1, <1>2, <1>3, PTL DEF BootSpec
-----------------------------------------------------------------------------
(* The table has six entries.                                              *)
LEMMA SixEntries ==
  ASSUME NEW a, NEW b, NEW c, NEW d, NEW e, NEW f
  PROVE  DOMAIN <<a, b, c, d, e, f>> = 1 .. 6
OBVIOUS

(* kmain asks for none of the limits that encode_gdt_entry gets wrong.     *)
LEMMA SegmentsAreSound ==
  \A k \in DOMAIN Segments :
    /\ Segments[k] = [base |-> Segments[k].base, limit |-> Segments[k].limit,
                      type |-> Segments[k].type]
    /\ Segments[k].base \in Bases /\ Segments[k].limit \in Limits
    /\ Segments[k].limit # GDT_MAX_LIMIT_FOR_BYTE_MODE
<1> DEFINE top == LimitLow * LimitHigh
           all == top * Unit - 1
<1>1. top \in Nat \ {0} /\ Unit \in Nat \ {0} /\ top * Unit \in Nat \ {0}
      /\ BaseLow * BaseMid * BaseHigh \in Nat \ {0}
  <2>1. LimitLow \in Nat \ {0} /\ LimitHigh \in Nat \ {0} /\ Unit \in Nat \ {0}
        /\ BaseLow \in Nat \ {0} /\ BaseMid \in Nat \ {0} /\ BaseHigh \in Nat \ {0}
    BY GdtAssumption
  <2>2. top \in Nat \ {0} /\ BaseLow * BaseMid \in Nat \ {0}
    BY <2>1
  <2> QED BY <2>1, <2>2
<1>2. TssBase \in Bases /\ 0 \in Bases
  BY <1>1, KmainAssumption DEF Bases
<1>3. TssSize \in 2 .. top
  BY KmainAssumption DEF GDT_MAX_LIMIT_FOR_BYTE_MODE
<1> HIDE DEF top
<1>4. top * Unit >= top
  BY <1>1
<1>5. all \in Nat /\ all # top
  <2>1. CASE Unit = 1
    BY <1>1, <2>1
  <2>2. CASE Unit # 1
    <3>1. top * Unit >= top * 2
      BY <1>1, <2>2
    <3>2. top * Unit \in Nat /\ top >= 2
      BY <1>1, <1>3
    <3> QED BY <1>1, <3>1, <3>2
  <2> QED BY <2>1, <2>2
<1>6. 0 \in 0 .. all /\ all \in 0 .. all /\ TssSize - 1 \in 0 .. all
      /\ 0 # top /\ TssSize - 1 # top
  <2> DEFINE u == top * Unit
  <2>1. u \in Nat /\ u >= top
    BY <1>1, <1>4
  <2> HIDE DEF u
  <2> QED BY <1>1, <1>3, <1>5, <2>1 DEF u
<1>7. Limits = 0 .. all /\ GDT_MAX_LIMIT_FOR_BYTE_MODE = top
  BY DEF Limits, GDT_MAX_LIMIT_FOR_BYTE_MODE, top
<1>8. /\ Segments = << [base |-> 0, limit |-> 0, type |-> "null"],
                       [base |-> 0, limit |-> all, type |-> "kernel code"],
                       [base |-> 0, limit |-> all, type |-> "kernel data"],
                       [base |-> 0, limit |-> all, type |-> "user code"],
                       [base |-> 0, limit |-> all, type |-> "user data"],
                       [base |-> TssBase, limit |-> TssSize - 1, type |-> "tss"] >>
  BY DEF Segments, top
<1> HIDE DEF all
<1>9. ASSUME NEW k \in DOMAIN Segments
      PROVE  /\ Segments[k] = [base |-> Segments[k].base, limit |-> Segments[k].limit,
                               type |-> Segments[k].type]
             /\ Segments[k].base \in {0, TssBase}
             /\ Segments[k].limit \in {0, all, TssSize - 1}
  <2>1. DOMAIN Segments = 1 .. 6
    BY <1>8, SixEntries
  <2>2. k \in Int /\ 1 <= k /\ k <= 6
    BY <2>1
  <2>3. k = 1 \/ k = 2 \/ k = 3 \/ k = 4 \/ k = 5 \/ k = 6
    BY <2>2
  <2>4. Segments[k] \in [base : {0, TssBase}, limit : {0, all, TssSize - 1},
                         type : {Segments[k].type}]
    <3>1. CASE k = 1
      BY <1>8, <3>1
    <3>2. CASE k = 2
      BY <1>8, <3>2
    <3>3. CASE k = 3
      BY <1>8, <3>3
    <3>4. CASE k = 4
      BY <1>8, <3>4
    <3>5. CASE k = 5
      BY <1>8, <3>5
    <3>6. CASE k = 6
      BY <1>8, <3>6
    <3> QED BY <2>3, <3>1, <3>2, <3>3, <3>4, <3>5, <3>6
  <2> QED BY <2>4
<1> QED BY <1>2, <1>5, <1>6, <1>7, <1>9

(* The CPU sees the descriptors that kmain asked for.                      *)
THEOREM KmainGdtDecodes == BootSpec => []GdtDecodes
<1> DEFINE Loaded == \A k \in DOMAIN gdt_raw : Decoded(gdt_raw[k]) = Segments[k]
<1>1. BootInit => Loaded
  BY DEF BootInit
<1>2. Loaded /\ [BootNext]_bootvars => Loaded'
  <2> SUFFICES ASSUME Loaded, [BootNext]_bootvars PROVE Loaded'
    OBVIOUS
  <2>1. CASE get_raw_gdt_struct
    <3>1. /\ DOMAIN gdt_raw' = DOMAIN Segments
          /\ \A k \in DOMAIN Segments :
               /\ gdt_raw'[k] = encode_gdt_entry(Segments[k])
               /\ Accepted(Segments[k].limit)
      BY <2>1 DEF get_raw_gdt_struct
    <3>2. \A k \in DOMAIN Segments : Decoded(encode_gdt_entry(Segments[k])) = Segments[k]
      BY <3>1, SegmentsAreSound, EncodedDecodes, Zenon
    <3> QED BY <3>1, <3>2
  <2>2. CASE ~ get_raw_gdt_struct
    <3>1. UNCHANGED gdt_raw
      BY <2>2
         DEF BootNext, Boot, bootvars, PrintChar, kheap_init, fs_init, Mount,
             fat16_init_private, fat16_get_root_directory, NotFat16, diskstream_close,
             fs_resolve, idt_init, tss_load, enable_paging, isr80h_register_commands,
             LoadStep, LoadUndefined, Lost, LoadFails, DriveFails, Polls, PanicLoop, task_run_as_task0,
             UserPrints, UserRuns
    <3> QED BY <3>1
  <2> QED BY <2>1, <2>2
<1>3. Loaded => GdtDecodes
  <2>1. ASSUME NEW limit \in Limits \ {GDT_MAX_LIMIT_FOR_BYTE_MODE}, Accepted(limit)
        PROVE  CpuLimit(encode_gdt_entry([base |-> 0, limit |-> limit, type |-> "tss"])) = limit
    <3> DEFINE s == [base |-> 0, limit |-> limit, type |-> "tss"]
    <3>1. 0 \in Bases
      <4>1. 1 \in DOMAIN Segments /\ Segments[1].base = 0
        BY DEF Segments
      <4> QED BY <4>1, SegmentsAreSound
    <3>2. s.base = 0 /\ s.limit = limit
      OBVIOUS
    <3> HIDE DEF s
    <3>3. Decoded(encode_gdt_entry(s)).limit = limit
      BY <2>1, <3>1, <3>2, EncodedDecodes
    <3> QED BY <3>3 DEF Decoded, s
  <2> QED BY <2>1 DEF GdtDecodes
<1> QED BY <1>1, <1>2, <1>3, PTL DEF BootSpec
-----------------------------------------------------------------------------
(* The heap while kmain mounts the disk, and what Process is proved to do  *)
(* afterwards.                                                             *)
BootHeap == INSTANCE KHeapProofs WITH
  Total <- HeapPages, SAddr <- HeapStart, BlockSize <- PageSize,
  Sizes <- {PageSize, RootSize},
  \* whole calls: no loop is under way
  table <- entries, writes <- stray, pc <- "idle", i <- 0, bc <- 0, bs <- -1,
  need <- 0, req <- 0, entry <- Heap!FreeEntry, freeing <- {},
  before <- [entries |-> <<>>, stray |-> {}]

Loading == INSTANCE ProcessProofs

Mounting == DOMAIN After \cup {"header", "close", "refused"}
Ended == {"ring3", "panic", "undefined"}
Starting == {"gdt", "heap", "fs"} \cup Mounting \cup {"idt", "tss", "paging", "commands", "load"}

(* Nothing has been loaded, not even opened.                               *)
NoProgram ==
  /\ pc \in {"idle", "open"} /\ ~ fd
  /\ processes = [s \in Load!Slots |-> Load!NoProcess]

(* The volume, as far as it is known, and that no process is there before  *)
(* there is a file system to load it from.                                 *)
VolumeInv ==
  /\ stage \in Starting \cup {"loading"} \cup Ended
  /\ stage \in {"stream", "header", "close", "refused"} => filesystem
  /\ stage = "refused" => ~ signature
  /\ stage \notin {"gdt", "heap", "fs"} \cup Mounting => (filesystem <=> signature)
  /\ stage \in Starting \/ (stage = "loading" /\ ~ filesystem) => NoProgram
  /\ stage \in Starting => pc = "idle" /\ process = Load!NoProcess
  /\ stage \in {"ring3", "undefined"} => filesystem

(* The kinds of what is mounted, line by line.                             *)
Streams == {"cluster", "fat", "directory"}

MountedKinds ==
  CASE stage \in {"gdt", "heap", "fs", "private"} -> {}
    [] stage = "cluster" -> {"private"}
    [] stage = "fat" -> {"private", "cluster"}
    [] stage = "directory" -> {"private", "cluster", "fat"}
    [] stage = "stream" -> {"private"} \cup Streams
    [] stage = "header" -> {"private", "stream"} \cup Streams
    [] stage = "close" -> {"private", "stream"} \cup Streams \cup (IF signature THEN {"root"} ELSE {})
    [] stage = "refused" -> {"private"} \cup Streams
    [] OTHER -> Streams \cup (IF signature THEN {"private", "root"} ELSE {})

Addresses(chunks) == {Heap!heap_block_to_address(c.start) : c \in chunks}

(* Every chunk of the heap is accounted for, until a program is loaded.    *)
MountInv ==
  /\ {m.kind : m \in mounted} = MountedKinds
  /\ \A m, n \in mounted : m.kind = n.kind \/ m.at = n.at => m = n
  /\ stage \in Starting =>
       Addresses(live) = {m.at : m \in mounted} \cup ({kernel_chunk} \ {NULL})

HeapInv ==
  /\ stage \in {"gdt", "heap"} => stray = {} /\ live = {} /\ ret = NULL
  /\ stage \in Starting \ {"gdt", "heap"} => BootHeap!IInv
  /\ stage \notin Starting => Loading!IInv

(* The directory that is loaded, and what interrupts need.                 *)
PagesInv ==
  /\ stage \in Starting \ {"commands", "load"} =>
       cr3 = NULL /\ kernel_chunk = NULL /\ DOMAIN space = {}
  /\ stage \in {"commands", "load"} =>
       DOMAIN space = {cr3} /\ kernel_chunk = cr3 /\ Loading!Held(cr3, PageSize)
  /\ stage \notin Starting \ {"commands", "load"} =>
       cr3 # NULL /\ cr3 \in DOMAIN space /\ tlb = space[cr3]
  /\ stage = "loading" => cr3 \notin Loading!Gathered
  /\ stage = "ring3" => processes[0] # Load!NoProcess /\ current = processes[0].task /\ cr3 = current

SetupInv ==
  setup = CASE stage \in {"gdt", "heap", "fs"} -> {}
            [] stage \in Mounting \cup {"idt"} -> {"fs"}
            [] stage = "tss" -> {"fs", "idt"}
            [] stage \in {"paging", "commands"} -> {"fs", "idt", "tss"}
            [] OTHER -> {"fs", "idt", "tss", "commands"}

BootInv == VolumeInv /\ MountInv /\ HeapInv /\ PagesInv /\ SetupInv
-----------------------------------------------------------------------------
LEMMA AfterIs ==
  /\ DOMAIN After = {"private", "cluster", "fat", "directory", "stream"}
  /\ After["private"] = "cluster" /\ After["cluster"] = "fat" /\ After["fat"] = "directory"
  /\ After["directory"] = "stream" /\ After["stream"] = "header"
BY DEF After

(* The steps of kmain by what they change.  Some only print or run on.     *)
Idle ==
  \/ PrintChar \/ PanicLoop \/ Lost \/ DriveFails \/ Polls \/ UserPrints \/ UserRuns
  \/ UNCHANGED bootvars

SetsUp ==
  \/ get_raw_gdt_struct \/ fs_init \/ idt_init \/ tss_load \/ isr80h_register_commands

LEMMA Idles ==
  ASSUME Idle
  PROVE  /\ UNCHANGED <<entries, stray, live, ret>>
         /\ UNCHANGED <<space, kernel_chunk, cr3, tlb>>
         /\ UNCHANGED <<processes, pc, slot, process, size, fd>>
         /\ UNCHANGED <<signature, filesystem, mounted>>
         /\ UNCHANGED <<stage, setup, current>>
BY DEF Idle, PrintChar, PanicLoop, Lost, DriveFails, Polls, UserPrints, UserRuns, bootvars, Goto, heap, pages,
       loading, disk

(* These go to another line and set something up.                          *)
LEMMA SettingUp ==
  ASSUME SetsUp
  PROVE  /\ UNCHANGED <<entries, stray, live, ret>>
         /\ UNCHANGED <<space, kernel_chunk, cr3, tlb>>
         /\ UNCHANGED <<processes, pc, slot, process, size, fd>>
         /\ UNCHANGED <<signature, filesystem, mounted>>
         /\ UNCHANGED current
         /\ \/ stage = "gdt" /\ stage' = "heap" /\ setup' = setup
            \/ stage = "fs" /\ stage' = "private" /\ setup' = setup \cup {"fs"}
            \/ stage = "idt" /\ stage' = "tss" /\ setup' = setup \cup {"idt"}
            \/ stage = "tss" /\ stage' = "paging" /\ setup' = setup \cup {"tss"}
            \/ stage = "commands" /\ stage' = "load" /\ setup' = setup \cup {"commands"}
BY DEF SetsUp, get_raw_gdt_struct, fs_init, idt_init, tss_load, isr80h_register_commands,
       Goto, heap, pages, loading, disk

(* The end of a load: the table and the address spaces stay.               *)
LoadEnds == LoadUndefined \/ LoadFails \/ task_run_as_task0

LEMMA LoadEnding ==
  ASSUME LoadEnds
  PROVE  /\ UNCHANGED <<entries, stray, live, ret>>
         /\ UNCHANGED <<space, kernel_chunk>>
         /\ UNCHANGED <<processes, pc, slot, process, size, fd>>
         /\ UNCHANGED <<signature, filesystem, mounted>>
         /\ UNCHANGED setup
         /\ stage = "loading"
         /\ \/ stage' = "undefined" /\ pc = "undefined" /\ UNCHANGED <<cr3, tlb, current>>
            \/ stage' = "panic" /\ UNCHANGED <<cr3, tlb, current>>
            \/ /\ stage' = "ring3" /\ processes[0] # Load!NoProcess
               /\ current' = processes[0].task /\ cr3' = current' /\ tlb' = space'[current']
BY DEF LoadEnds, LoadUndefined, LoadFails, panic, task_run_as_task0, paging_switch, Goto,
       heap, pages, loading, disk

(* A step of process_load.                                                 *)
LEMMA LoadStepping ==
  ASSUME LoadStep
  PROVE  /\ UNCHANGED <<kernel_chunk, cr3, tlb>>
         /\ UNCHANGED <<signature, filesystem, mounted>>
         /\ UNCHANGED <<setup, current>>
         /\ stage' = "loading"
         /\ \/ stage = "load" /\ Load!process_load
            \/ /\ stage = "loading" /\ Load!Next /\ pc # "idle"
               /\ pc = "open" => (fd' <=> filesystem)
BY DEF LoadStep, Goto, disk

LEMMA BootSteps ==
  ASSUME [BootNext]_bootvars
  PROVE  \/ Idle \/ SetsUp \/ kheap_init \/ fat16_init_private \/ fat16_get_root_directory
         \/ NotFat16 \/ diskstream_close \/ fs_resolve \/ enable_paging \/ LoadStep \/ LoadEnds
BY DEF BootNext, Boot, Mount, Idle, SetsUp, LoadEnds

(* fat16_init_private and fat16_get_root_directory allocate, each step one *)
(* thing that is entered in mounted.                                       *)
Mounts == fat16_init_private \/ fat16_get_root_directory

LEMMA MountingMore ==
  ASSUME Mounts
  PROVE  /\ UNCHANGED <<space, kernel_chunk, cr3, tlb>>
         /\ UNCHANGED <<processes, pc, slot, process, size, fd>>
         /\ UNCHANGED signature /\ UNCHANGED setup /\ UNCHANGED current
         /\ \E kind, bytes :
              /\ Heap!heap_malloc(bytes) /\ ret' # NULL /\ bytes \in {PageSize, RootSize}
              /\ mounted' = mounted \cup {[kind |-> kind, at |-> ret']}
              /\ \/ /\ kind = stage /\ filesystem' = (filesystem \/ kind = "directory")
                    /\ \/ stage = "private" /\ stage' = "cluster"
                       \/ stage = "cluster" /\ stage' = "fat"
                       \/ stage = "fat" /\ stage' = "directory"
                       \/ stage = "directory" /\ stage' = "stream"
                       \/ stage = "stream" /\ stage' = "header"
                 \/ /\ kind = "root" /\ filesystem' = filesystem /\ signature
                    /\ stage = "header" /\ stage' = "close"
<1>1. CASE fat16_init_private
  <2>1. PICK kind \in DOMAIN After :
          /\ Goto(kind, After[kind], <<>>) /\ Allocate(PageSize, kind)
          /\ filesystem' = (filesystem \/ kind = "directory")
          /\ UNCHANGED <<pages, loading, signature, gdt_raw, setup, current>>
    BY <1>1 DEF fat16_init_private
  <2>2. \/ stage = "private" /\ stage' = "cluster"
        \/ stage = "cluster" /\ stage' = "fat"
        \/ stage = "fat" /\ stage' = "directory"
        \/ stage = "directory" /\ stage' = "stream"
        \/ stage = "stream" /\ stage' = "header"
    BY <2>1, AfterIs DEF Goto
  <2> QED BY <2>1, <2>2 DEF Allocate, Goto, pages, loading
<1>2. CASE fat16_get_root_directory
  BY <1>2 DEF fat16_get_root_directory, Goto, Allocate, pages, loading
<1> QED BY <1>1, <1>2 DEF Mounts

(* diskstream_close and fs_resolve give one thing back.                    *)
Unmounts == diskstream_close \/ fs_resolve

LEMMA MountingLess ==
  ASSUME Unmounts
  PROVE  /\ UNCHANGED <<space, kernel_chunk, cr3, tlb>>
         /\ UNCHANGED <<processes, pc, slot, process, size, fd>>
         /\ UNCHANGED signature /\ UNCHANGED setup /\ UNCHANGED current
         /\ \E m \in mounted, c \in live :
              /\ m.at = Heap!heap_block_to_address(c.start)
              /\ Heap!heap_free(c) /\ mounted' = mounted \ {m}
              /\ \/ /\ m.kind = "stream" /\ stage = "close" /\ filesystem' = filesystem
                    /\ stage' = IF signature THEN "idt" ELSE "refused"
                 \/ /\ m.kind = "private" /\ stage = "refused" /\ filesystem' = FALSE
                    /\ stage' = "idt"
BY DEF Unmounts, diskstream_close, fs_resolve, Goto, Release, pages, loading

LEMMA NotMounting ==
  ASSUME NotFat16
  PROVE  /\ UNCHANGED <<entries, stray, live, ret>>
         /\ UNCHANGED <<space, kernel_chunk, cr3, tlb>>
         /\ UNCHANGED <<processes, pc, slot, process, size, fd>>
         /\ UNCHANGED <<signature, filesystem, mounted>>
         /\ UNCHANGED setup /\ UNCHANGED current
         /\ stage = "header" /\ stage' = "close" /\ ~ signature
BY DEF NotFat16, Goto, heap, pages, loading, disk

LEMMA HeapStarting ==
  ASSUME kheap_init
  PROVE  /\ UNCHANGED <<stray, live, ret>>
         /\ UNCHANGED <<space, kernel_chunk, cr3, tlb>>
         /\ UNCHANGED <<processes, pc, slot, process, size, fd>>
         /\ UNCHANGED <<signature, filesystem, mounted>>
         /\ UNCHANGED setup /\ UNCHANGED current
         /\ stage = "heap" /\ stage' = "fs"
         /\ entries' = [b \in Heap!Blocks |-> Heap!FreeEntry]
BY DEF kheap_init, Goto, pages, loading, disk

LEMMA PagingStarting ==
  ASSUME enable_paging
  PROVE  /\ UNCHANGED <<processes, pc, slot, process, size, fd>>
         /\ UNCHANGED <<signature, filesystem, mounted>>
         /\ UNCHANGED setup /\ UNCHANGED current
         /\ stage = "paging" /\ stage' = "commands"
         /\ Heap!heap_malloc(PageSize) /\ ret' # NULL
         /\ kernel_chunk' = ret' /\ cr3' = ret' /\ tlb' = space'[ret']
         /\ space' = [t \in DOMAIN space \cup {ret'} |->
                        IF t = ret' THEN Load!Space!Identity(Load!OwnFlags) ELSE space[t]]
BY DEF enable_paging, paging_switch, Goto, loading, disk
-----------------------------------------------------------------------------
(* The lines of kmain, as sets of words.                                   *)
LEMMA Lines ==
  /\ Mounting = {"private", "cluster", "fat", "directory", "stream", "header", "close", "refused"}
  /\ Starting = {"gdt", "heap", "fs", "private", "cluster", "fat", "directory", "stream",
                 "header", "close", "refused", "idt", "tss", "paging", "commands", "load"}
BY AfterIs DEF Mounting, Starting

LEMMA StartVolume ==
  ASSUME BootInit
  PROVE  VolumeInv
BY Lines DEF BootInit, VolumeInv, NoProgram

(* A load without a file system ends when fopen refuses.                   *)
LEMMA LoadStepVolume ==
  ASSUME VolumeInv, LoadStep
  PROVE  VolumeInv'
<1>1. /\ UNCHANGED <<signature, filesystem>> /\ stage' = "loading"
      /\ \/ stage = "load" /\ Load!process_load
         \/ stage = "loading" /\ Load!Next /\ pc # "idle" /\ (pc = "open" => (fd' <=> filesystem))
  BY LoadStepping
<1>2. filesystem <=> signature
  BY <1>1, Lines DEF VolumeInv
<1>3. ASSUME ~ filesystem
      PROVE  NoProgram'
  <2>1. NoProgram
    BY <1>1, <1>3, Lines DEF VolumeInv
  <2>2. CASE Load!process_load
    BY <2>1, <2>2 DEF NoProgram, Load!process_load, Load!Fail
  <2>3. CASE stage = "loading" /\ Load!Next /\ pc # "idle" /\ (pc = "open" => (fd' <=> filesystem))
    <3>1. pc = "open" /\ ~ fd'
      BY <1>3, <2>1, <2>3 DEF NoProgram
    <3>2. Load!CannotOpen
      BY <2>3, <3>1 DEF Load!Next, Load!process_load, Load!OpenFile, Load!NoSuchFile,
         Load!LoadImage, Load!MakeStack, Load!MakeTask, Load!NoTask, Load!Publish
    <3> QED BY <2>1, <3>2 DEF NoProgram, Load!CannotOpen, Load!Fail
  <2> QED BY <1>1, <2>2, <2>3
<1> QED BY <1>1, <1>2, <1>3, Lines DEF VolumeInv, Ended

(* The end of a load that needed a file system.                            *)
LEMMA LoadEndVolume ==
  ASSUME VolumeInv, LoadEnds
  PROVE  VolumeInv'
<1>1. /\ UNCHANGED <<signature, filesystem>> /\ stage = "loading"
      /\ stage' \in {"undefined", "panic", "ring3"}
      /\ stage' = "undefined" => pc = "undefined"
      /\ stage' = "ring3" => processes[0] # Load!NoProcess
  BY LoadEnding
<1>2. 0 \in Load!Slots
  BY KmainAssumption DEF Load!Slots, Load!ProcessAssumption
<1>3. stage' \in {"ring3", "undefined"} => filesystem
  BY <1>1, <1>2 DEF VolumeInv, NoProgram
<1> QED BY <1>1, <1>3, Lines DEF VolumeInv, Ended

(* The disk gets its driver before its boot sector is read, and keeps it   *)
(* if and only if the volume is good; no program runs without it.          *)
LEMMA NextVolume ==
  ASSUME VolumeInv, [BootNext]_bootvars
  PROVE  VolumeInv'
<1>1. CASE Idle
  BY <1>1, Idles DEF VolumeInv, NoProgram
<1>2. CASE SetsUp
  BY <1>2, SettingUp, Lines DEF VolumeInv, NoProgram, Ended
<1>3. CASE kheap_init
  BY <1>3, HeapStarting, Lines DEF VolumeInv, NoProgram, Ended
<1>4. CASE Mounts
  <2>1. NoProgram' /\ pc' = "idle" /\ process' = Load!NoProcess /\ UNCHANGED signature
        /\ stage' \in Starting
    BY <1>4, MountingMore, Lines DEF VolumeInv, NoProgram
  <2>2. \/ stage = "directory" /\ stage' = "stream" /\ filesystem'
        \/ stage = "private" /\ stage' = "cluster"
        \/ stage = "cluster" /\ stage' = "fat"
        \/ stage = "fat" /\ stage' = "directory"
        \/ stage = "stream" /\ stage' = "header" /\ (filesystem' <=> filesystem)
        \/ stage = "header" /\ stage' = "close" /\ (filesystem' <=> filesystem)
    <3>1. PICK kind :
          \/ /\ kind = stage /\ filesystem' = (filesystem \/ kind = "directory")
             /\ \/ stage = "private" /\ stage' = "cluster"
                \/ stage = "cluster" /\ stage' = "fat"
                \/ stage = "fat" /\ stage' = "directory"
                \/ stage = "directory" /\ stage' = "stream"
                \/ stage = "stream" /\ stage' = "header"
          \/ stage = "header" /\ stage' = "close" /\ filesystem' = filesystem
      BY <1>4, MountingMore
    <3>2. kind = "directory" /\ kind = stage => filesystem'
      BY <3>1
    <3> QED BY <3>1, <3>2
  <2> QED BY <2>1, <2>2, Lines DEF VolumeInv
<1>5. CASE NotFat16
  BY <1>5, NotMounting, Lines DEF VolumeInv, NoProgram, Ended
<1>6. CASE Unmounts
  <2>1. /\ UNCHANGED <<processes, pc, slot, process, size, fd>> /\ UNCHANGED signature
        /\ \/ stage = "close" /\ filesystem' = filesystem
              /\ stage' = IF signature THEN "idt" ELSE "refused"
           \/ stage = "refused" /\ filesystem' = FALSE /\ stage' = "idt"
    BY <1>6, MountingLess
  <2> QED BY <2>1, Lines DEF VolumeInv, NoProgram
<1>7. CASE enable_paging
  BY <1>7, PagingStarting, Lines DEF VolumeInv, NoProgram, Ended
<1>8. CASE LoadStep
  BY <1>8, LoadStepVolume
<1>9. CASE LoadEnds
  BY <1>9, LoadEndVolume
<1> QED BY BootSteps, <1>1, <1>2, <1>3, <1>4, <1>5, <1>6, <1>7, <1>8, <1>9 DEF Mounts, Unmounts
-----------------------------------------------------------------------------
(* What interrupts need is set up on the way, in this order.               *)
LEMMA StartSetup ==
  ASSUME BootInit
  PROVE  SetupInv
<1>1. stage = "gdt" /\ setup = {}
  BY DEF BootInit
<1> QED BY <1>1, Lines DEF SetupInv

LEMMA NextSetup ==
  ASSUME VolumeInv, SetupInv, [BootNext]_bootvars
  PROVE  SetupInv'
<1>1. CASE Idle
  BY <1>1, Idles DEF SetupInv
<1>2. CASE SetsUp
  BY <1>2, SettingUp, Lines DEF SetupInv
<1>3. CASE kheap_init
  BY <1>3, HeapStarting, Lines DEF SetupInv
<1>4. CASE Mounts
  <2>1. UNCHANGED setup /\ stage \in Mounting /\ stage' \in Mounting
    BY <1>4, MountingMore, Lines
  <2> QED BY <2>1, Lines DEF SetupInv
<1>5. CASE NotFat16
  BY <1>5, NotMounting, Lines DEF SetupInv
<1>6. CASE Unmounts
  <2>1. UNCHANGED setup /\ stage \in Mounting /\ stage' \in Mounting \cup {"idt"}
    BY <1>6, MountingLess, Lines
  <2> QED BY <2>1, Lines DEF SetupInv
<1>7. CASE enable_paging
  BY <1>7, PagingStarting, Lines DEF SetupInv
<1>8. CASE LoadStep
  BY <1>8, LoadStepping, Lines DEF SetupInv
<1>9. CASE LoadEnds
  BY <1>9, LoadEnding, Lines DEF SetupInv
<1> QED BY BootSteps, <1>1, <1>2, <1>3, <1>4, <1>5, <1>6, <1>7, <1>8, <1>9 DEF Mounts, Unmounts
-----------------------------------------------------------------------------
(* KHeap's assumption holds for what kmain asks for while it starts, and   *)
(* no request is for nothing.                                              *)
LEMMA BootHeapAssumed ==
  /\ HeapPages \in Nat \ {0} /\ HeapStart \in Nat \ {0} /\ PageSize \in Nat \ {0}
  /\ Word \in Nat /\ Word > PageSize /\ Word % PageSize = 0
  /\ {PageSize, RootSize} \subseteq 0 .. Word - 1
  /\ \A bytes \in {PageSize, RootSize} : bytes \in Nat \ {0} /\ bytes + PageSize <= Word
<1>1. /\ PageSize \in Nat \ {0} /\ RootSize \in Nat \ {0} /\ RootSize + PageSize <= Word
      /\ HeapPages \in Nat \ {0} /\ HeapStart \in Nat \ {0}
      /\ Word \in Nat /\ Word % PageSize = 0
  BY KmainAssumption DEF Load!ProcessAssumption
<1>2. PageSize + PageSize <= Word
  BY KmainAssumption DEF Load!ProcessAssumption, Load!Sizes
<1> QED BY <1>1, <1>2

LEMMA BootRequests == BootHeap!NonzeroRequests
<1> SUFFICES ASSUME NEW bytes \in {PageSize, RootSize}
             PROVE  BootHeap!total_blocks(bytes) \in Nat \ {0}
  BY DEF BootHeap!NonzeroRequests
<1> DEFINE n == BootHeap!total_blocks(bytes)
           up == BootHeap!heap_align_value_to_upper(bytes)
<1>0. /\ PageSize \in Nat \ {0} /\ Word \in Nat \ {0}
      /\ bytes \in Nat \ {0} /\ bytes + PageSize <= Word
  BY BootHeapAssumed
<1>1. up \in Nat
  <2>1. bytes % PageSize \in 0 .. PageSize - 1
    BY <1>0
  <2>2. CASE bytes % PageSize = 0
    BY <1>0, <2>2 DEF BootHeap!heap_align_value_to_upper
  <2>3. CASE bytes % PageSize # 0
    <3> DEFINE v == bytes - (bytes % PageSize) + PageSize
    <3>1. v \in Int
      BY <1>0, <2>1
    <3>2. up = v % Word
      BY <2>3 DEF BootHeap!heap_align_value_to_upper
    <3> HIDE DEF v, up
    <3> QED BY <1>0, <3>1, <3>2
  <2> QED BY <2>2, <2>3
<1>2. n = up \div PageSize
  BY DEF BootHeap!total_blocks
<1>3. n * PageSize >= bytes
  BY <1>0, BootHeap!BlocksCover, BootHeapAssumed DEF BootHeap!HeapAssumption
<1> HIDE DEF n, up
<1>4. n \in Nat
  BY <1>0, <1>1, <1>2
<1>5. n # 0
  BY <1>0, <1>3
<1> QED BY <1>4, <1>5 DEF n

(* The heap of kmain is KHeap's.                                           *)
LEMMA SameHeap ==
  ASSUME NEW bytes
  PROVE  /\ Heap!heap_malloc(bytes) => BootHeap!heap_malloc(bytes)
         /\ \A c : Heap!heap_free(c) => BootHeap!heap_free(c)
         /\ \A b : Heap!heap_block_to_address(b) = HeapStart + b
         /\ \A b : BootHeap!heap_block_to_address(b) = HeapStart + b
         /\ \A b : Loading!Heap!heap_block_to_address(b) = HeapStart + b
         /\ BootHeap!total_blocks(bytes) = Loading!PagesFor(bytes)
         /\ Heap!Blocks = 0 .. HeapPages - 1 /\ BootHeap!Blocks = 0 .. HeapPages - 1
         /\ Loading!HeapFacts!Blocks = 0 .. HeapPages - 1
BY DEF Heap!heap_malloc, Heap!heap_get_next_free_block, Heap!FreeRun, Heap!Blocks,
       Heap!Least, Heap!total_blocks, Heap!heap_align_value_to_upper, Heap!NULL,
       Heap!heap_block_to_address, Heap!heap_mark_blocks_taken, Heap!heap_free,
       Heap!heap_address_to_block, Heap!heap_mark_blocks_free, Heap!FreedFrom, Heap!FreeEntry,
       BootHeap!heap_malloc, BootHeap!heap_get_next_free_block, BootHeap!FreeRun, BootHeap!Blocks,
       BootHeap!Least, BootHeap!total_blocks, BootHeap!heap_align_value_to_upper, BootHeap!NULL,
       BootHeap!heap_block_to_address, BootHeap!heap_mark_blocks_taken, BootHeap!heap_free,
       BootHeap!heap_address_to_block, BootHeap!heap_mark_blocks_free, BootHeap!FreedFrom,
       BootHeap!FreeEntry, Loading!Heap!heap_block_to_address, Loading!HeapFacts!Blocks,
       Loading!PagesFor, Loading!Heap!total_blocks, Loading!Heap!heap_align_value_to_upper

(* A table that says who holds what covers what is held.                   *)
LEMMA BootCovered ==
  ASSUME BootHeap!IInv
  PROVE  /\ BootHeap!Covered /\ Loading!HeapFacts!Covered
         /\ \A c \in live : c.start \in 0 .. HeapPages - 1 /\ c.start \in BootHeap!Owned(c)
<1>1. BootHeap!Blocks = 0 .. HeapPages - 1 /\ Loading!HeapFacts!Blocks = 0 .. HeapPages - 1
  BY SameHeap
<1>2. /\ entries \in [BootHeap!Blocks -> BootHeap!Entry]
      /\ \A c \in live : c.start \in BootHeap!Blocks /\ c.blocks \in Nat /\ c.blocks # 0
      /\ \A c \in live, b \in BootHeap!Blocks : b \in BootHeap!Owned(c) => entries[b].taken
      /\ BootHeap!ChunksDisjoint
  BY DEF BootHeap!IInv, BootHeap!TypeOK, BootHeap!Chunk, BootHeap!TableMatchesChunks
<1>3. \A c : BootHeap!Owned(c) = Loading!HeapFacts!Owned(c)
  BY DEF BootHeap!Owned, Loading!HeapFacts!Owned
<1>4. BootHeap!Entry = Loading!HeapFacts!Entry
  BY DEF BootHeap!Entry, Loading!HeapFacts!Entry
<1>5. BootHeap!Covered
  BY <1>2 DEF BootHeap!Covered
<1>6. Loading!HeapFacts!Covered
  BY <1>1, <1>2, <1>3, <1>4
     DEF Loading!HeapFacts!Covered, BootHeap!ChunksDisjoint, Loading!HeapFacts!ChunksDisjoint
<1>7. \A c \in live : c.start \in 0 .. HeapPages - 1 /\ c.start \in BootHeap!Owned(c)
  BY <1>1, <1>2, BootHeapAssumed DEF BootHeap!Owned
<1> QED BY <1>5, <1>6, <1>7

(* kmalloc, while kmain starts: another address, or nothing.               *)
LEMMA BootMalloc ==
  ASSUME BootHeap!IInv, NEW bytes \in {PageSize, RootSize}, Heap!heap_malloc(bytes), ret' # NULL
  PROVE  /\ BootHeap!IInv'
         /\ Addresses(live') = Addresses(live) \cup {ret'} /\ ret' \notin Addresses(live)
         /\ \A a, n : Loading!Held(a, n) => Loading!HeldIn(live', a, n)
         /\ Loading!HeldIn(live', ret', bytes)
<1>0. HeapPages \in Nat \ {0} /\ HeapStart \in Nat \ {0} /\ BootHeap!heap_malloc(bytes)
  BY BootHeapAssumed, SameHeap
<1>1. BootHeap!IInv'
  BY <1>0, BootHeap!MallocIInv, BootRequests, BootHeapAssumed DEF BootHeap!HeapAssumption
<1>2. BootHeap!total_blocks(bytes) \in Nat
  BY BootRequests DEF BootHeap!NonzeroRequests
<1>3. \/ ret' = BootHeap!NULL /\ live' = live
      \/ /\ ret' # BootHeap!NULL
         /\ \E s \in BootHeap!Blocks :
              /\ ret' = BootHeap!heap_block_to_address(s) /\ ~ entries[s].taken
              /\ live' = live \cup
                   {[start |-> s, blocks |-> BootHeap!total_blocks(bytes), size |-> bytes]}
  BY <1>0, <1>2, BootCovered, BootHeap!MallocCovered, BootHeapAssumed
     DEF BootHeap!HeapAssumption
<1>4. PICK s \in 0 .. HeapPages - 1 :
        /\ ret' = HeapStart + s /\ ~ entries[s].taken
        /\ live' = live \cup {[start |-> s, blocks |-> Loading!PagesFor(bytes), size |-> bytes]}
  BY <1>3, SameHeap DEF BootHeap!NULL, NULL
<1> DEFINE new == [start |-> s, blocks |-> Loading!PagesFor(bytes), size |-> bytes]
<1>5. live' = live \cup {new} /\ new.start = s /\ new.blocks = Loading!PagesFor(bytes)
  BY <1>4
<1> HIDE DEF new
<1>6. Addresses(live') = Addresses(live) \cup {ret'}
  BY <1>4, <1>5, SameHeap DEF Addresses
<1>7. ret' \notin Addresses(live)
  <2> SUFFICES ASSUME NEW c \in live, ret' = HeapStart + c.start PROVE FALSE
    BY SameHeap DEF Addresses
  <2>1. c.start \in 0 .. HeapPages - 1 /\ c.start \in BootHeap!Owned(c)
    BY BootCovered
  <2>2. c.start = s
    BY <1>0, <1>4, <2>1
  <2> QED BY <1>4, <2>1, <2>2, BootCovered, SameHeap DEF BootHeap!Covered
<1>8. \A a, n : Loading!Held(a, n) => Loading!HeldIn(live', a, n)
  BY <1>5 DEF Loading!Held, Loading!HeldIn
<1>9. Loading!HeldIn(live', ret', bytes)
  BY <1>4, <1>5, SameHeap DEF Loading!HeldIn
<1> QED BY <1>1, <1>6, <1>7, <1>8, <1>9

(* kfree, while kmain starts: that address and no other.                   *)
LEMMA BootFree ==
  ASSUME BootHeap!IInv, NEW c \in live, Heap!heap_free(c)
  PROVE  /\ BootHeap!IInv'
         /\ Addresses(live') = Addresses(live) \ {Heap!heap_block_to_address(c.start)}
<1>0. HeapPages \in Nat \ {0} /\ HeapStart \in Nat \ {0} /\ BootHeap!heap_free(c)
  BY BootHeapAssumed, SameHeap
<1>1. BootHeap!IInv'
  BY <1>0, BootHeap!FreeIInv, BootHeapAssumed DEF BootHeap!HeapAssumption
<1>2. live' = live \ {c}
  BY DEF Heap!heap_free
<1>3. ASSUME NEW d \in live, d # c PROVE HeapStart + d.start # HeapStart + c.start
  <2>1. /\ c.start \in 0 .. HeapPages - 1 /\ c.start \in BootHeap!Owned(c)
        /\ d.start \in 0 .. HeapPages - 1 /\ d.start \in BootHeap!Owned(d)
    BY BootCovered
  <2>2. c.start # d.start
    BY <1>3, <2>1 DEF BootHeap!IInv, BootHeap!ChunksDisjoint
  <2> QED BY <1>0, <2>1, <2>2
<1>4. Addresses(live') = Addresses(live) \ {HeapStart + c.start}
  BY <1>2, <1>3, SameHeap DEF Addresses
<1> QED BY <1>1, <1>4, SameHeap
-----------------------------------------------------------------------------
(* What Process is proved to do is what kmain calls.                       *)
LEMMA SameMalloc ==
  ASSUME NEW bytes, Load!Heap!heap_malloc(bytes)
  PROVE  Loading!Heap!heap_malloc(bytes)
BY DEF Load!Heap!heap_malloc, Load!Heap!heap_get_next_free_block, Load!Heap!FreeRun,
       Load!Heap!Blocks, Load!Heap!Least, Load!Heap!total_blocks,
       Load!Heap!heap_align_value_to_upper, Load!Heap!NULL, Load!Heap!heap_block_to_address,
       Load!Heap!heap_mark_blocks_taken,
       Loading!Heap!heap_malloc, Loading!Heap!heap_get_next_free_block, Loading!Heap!FreeRun,
       Loading!Heap!Blocks, Loading!Heap!Least, Loading!Heap!total_blocks,
       Loading!Heap!heap_align_value_to_upper, Loading!Heap!NULL,
       Loading!Heap!heap_block_to_address, Loading!Heap!heap_mark_blocks_taken

LEMMA SameWords ==
  /\ Load!NoProcess = Loading!NoProcess /\ Load!Slots = Loading!Slots
  /\ Load!NULL = Loading!NULL /\ Load!OwnFlags = Loading!OwnFlags
  /\ Load!Sizes = Loading!Sizes /\ Load!Space!Pages = Loading!Space!Pages
  /\ Load!Space!Identity(Load!TaskFlags) = Loading!Space!Identity(Loading!TaskFlags)
  /\ Load!Space!Identity(Load!OwnFlags) = Loading!Space!Identity(Loading!OwnFlags)
  /\ Load!Loaded = Loading!Loaded
BY DEF Load!NoProcess, Load!NULL, Load!Slots, Load!OwnFlags, Load!TaskFlags, Load!Sizes,
       Load!Space!Pages, Load!Space!Identity, Load!Loaded,
       Loading!NoProcess, Loading!NULL, Loading!Slots, Loading!OwnFlags, Loading!TaskFlags,
       Loading!Sizes, Loading!Space!Pages, Loading!Space!Identity, Loading!Loaded

LEMMA SameLoad ==
  /\ Load!process_load => Loading!process_load
  /\ Load!Next => Loading!Next
<1>1. Load!process_load => Loading!process_load
  BY SameMalloc, SameWords
     DEF Load!process_load, Load!Fail, Loading!process_load, Loading!Fail
<1>2. Load!OpenFile \/ Load!NoSuchFile \/ Load!CannotOpen =>
        Loading!OpenFile \/ Loading!NoSuchFile \/ Loading!CannotOpen
  BY SameWords
     DEF Load!OpenFile, Load!NoSuchFile, Load!CannotOpen, Load!Fail, Load!heap,
         Loading!OpenFile, Loading!NoSuchFile, Loading!CannotOpen, Loading!Fail, Loading!heap
<1>3. Load!LoadImage => Loading!LoadImage
  BY SameMalloc, SameWords
     DEF Load!LoadImage, Load!Fail, Loading!LoadImage, Loading!Fail
<1>4. Load!MakeStack => Loading!MakeStack
  BY SameMalloc, SameWords
     DEF Load!MakeStack, Load!Fail, Loading!MakeStack, Loading!Fail
<1>5. Load!MakeTask => Loading!MakeTask
  BY SameMalloc, SameWords DEF Load!MakeTask, Loading!MakeTask
<1>6. Load!NoTask => Loading!NoTask
  BY SameMalloc, SameWords DEF Load!NoTask, Loading!NoTask
<1>7. Load!Publish => Loading!Publish
  BY SameWords
     DEF Load!Publish, Load!process_map_memory, Load!process_map_binary, Load!Mapped,
         Load!paging_align_address, Load!heap,
         Loading!Publish, Loading!process_map_memory, Loading!process_map_binary,
         Loading!Mapped, Loading!paging_align_address, Loading!heap
<1> QED BY <1>1, <1>2, <1>3, <1>4, <1>5, <1>6, <1>7 DEF Load!Next, Loading!Next

LEMMA LoadAssumed == Loading!ProcessAssumption /\ Loading!LayoutAssumption
<1>1. Loading!ProcessAssumption
  BY KmainAssumption, SameWords DEF Load!ProcessAssumption, Loading!ProcessAssumption
<1>2. \A bytes : Load!Heap!total_blocks(bytes) = Loading!Heap!total_blocks(bytes)
  BY DEF Load!Heap!total_blocks, Load!Heap!heap_align_value_to_upper,
         Loading!Heap!total_blocks, Loading!Heap!heap_align_value_to_upper
<1>3. Loading!LayoutAssumption
  BY <1>2, KmainAssumption DEF Load!LayoutAssumption, Loading!LayoutAssumption
<1> QED BY <1>1, <1>3

(* What leaves the heap and the processes alone.                           *)
LEMMA HeapStays ==
  ASSUME UNCHANGED <<entries, stray, live, ret>>, UNCHANGED space,
         UNCHANGED <<processes, pc, slot, process, size, fd>>
  PROVE  /\ BootHeap!IInv => BootHeap!IInv'
         /\ Loading!IInv => Loading!IInv'
<1>1. UNCHANGED BootHeap!vars
  BY DEF BootHeap!vars
<1>2. BootHeap!IInv => BootHeap!IInv'
  BY <1>1, BootHeap!NextIInv, BootRequests, BootHeapAssumed DEF BootHeap!HeapAssumption
<1>3. UNCHANGED Loading!vars
  BY DEF Loading!vars, Loading!heap
<1>4. Loading!IInv => Loading!IInv'
  BY <1>3, Loading!NextIInv, LoadAssumed
<1> QED BY <1>2, <1>4

(* kheap_init empties the table, and nothing has been handed out.          *)
LEMMA HeapStarted ==
  ASSUME kheap_init, live = {}, stray = {}, ret = NULL
  PROVE  BootHeap!IInv'
<1>1. /\ entries' = [b \in 0 .. HeapPages - 1 |-> [taken |-> FALSE, first |-> FALSE, next |-> FALSE]]
      /\ live' = {} /\ stray' = {} /\ ret' = 0
  BY HeapStarting, SameHeap DEF Heap!FreeEntry, NULL
<1> QED BY <1>1, SameHeap
        DEF BootHeap!IInv, BootHeap!TypeOK, BootHeap!ChunksDisjoint,
            BootHeap!TableMatchesChunks, BootHeap!Entry, BootHeap!NULL, BootHeap!Blocks

(* Before the first process is loaded there is one page directory.         *)
LEMMA LoadStarts ==
  ASSUME BootHeap!IInv, NoProgram, pc = "idle", process = Load!NoProcess,
         NEW d, DOMAIN space = {d}, Loading!Held(d, PageSize)
  PROVE  Loading!IInv
<1>1. Loading!HeapFacts!Covered
  BY BootCovered
<1>2. Loading!Loaded = {} /\ DOMAIN processes = Loading!Slots
  BY SameWords DEF NoProgram, Loading!Loaded
<1>3. Loading!LoadedInv
  BY <1>2 DEF Loading!LoadedInv
<1>4. process = Loading!NoProcess
  BY SameWords
<1>5. Loading!LoadingInv
  BY <1>2, <1>4 DEF Loading!LoadingInv, Loading!NoProcess
<1> QED BY <1>1, <1>3, <1>5 DEF Loading!IInv

(* What process_load can count on: the page directory that is loaded is    *)
(* not one that it has gathered.                                           *)
LEMMA LoadCounts ==
  ASSUME VolumeInv, HeapInv, PagesInv, LoadStep
  PROVE  /\ Loading!IInv /\ Loading!Next
         /\ cr3 # NULL /\ cr3 \in DOMAIN space /\ tlb = space[cr3] /\ cr3 \notin Loading!Gathered
<1>1. stage \in {"load", "loading"}
  BY LoadStepping
<1>2. cr3 # NULL /\ cr3 \in DOMAIN space /\ tlb = space[cr3]
  BY <1>1, Lines DEF PagesInv
<1>3. CASE stage = "load"
  <2>1. /\ NoProgram /\ pc = "idle" /\ process = Load!NoProcess /\ BootHeap!IInv
        /\ DOMAIN space = {cr3} /\ Loading!Held(cr3, PageSize)
    BY <1>3, Lines DEF VolumeInv, HeapInv, PagesInv
  <2>2. Loading!Gathered = {}
    BY <2>1 DEF Loading!Gathered
  <2> QED BY <1>2, <1>3, <2>1, <2>2, LoadStarts, LoadStepping, SameLoad DEF Loading!Next
<1>4. CASE stage = "loading"
  BY <1>2, <1>4, LoadStepping, SameLoad, Lines DEF HeapInv, PagesInv
<1> QED BY <1>1, <1>3, <1>4

(* From kheap_init on the heap is sound, and from process_load on so is    *)
(* what it loads.                                                          *)
LEMMA NextHeap ==
  ASSUME VolumeInv, HeapInv, PagesInv, [BootNext]_bootvars
  PROVE  HeapInv'
<1>1. CASE Idle
  <2>1. UNCHANGED stage /\ UNCHANGED <<entries, stray, live, ret>>
    BY <1>1, Idles
  <2> QED BY <1>1, <2>1, Idles, HeapStays DEF HeapInv
<1>2. CASE SetsUp
  <2>1. /\ UNCHANGED <<entries, stray, live, ret>> /\ stage' \in Starting \ {"gdt"}
        /\ stage \in Starting /\ (stage' = "heap" => stage = "gdt")
        /\ (stage' # "heap" => stage \notin {"gdt", "heap"})
    BY <1>2, SettingUp, Lines
  <2>2. BootHeap!IInv => BootHeap!IInv'
    BY <1>2, SettingUp, HeapStays
  <2> QED BY <2>1, <2>2 DEF HeapInv
<1>3. CASE kheap_init
  <2>1. stage = "heap" /\ stage' = "fs" /\ stage' \in Starting
    BY <1>3, HeapStarting, Lines
  <2> QED BY <1>3, <2>1, HeapStarted DEF HeapInv
<1>4. CASE Mounts
  <2>1. stage \in Starting \ {"gdt", "heap"} /\ stage' \in Starting \ {"gdt", "heap"}
    BY <1>4, MountingMore, Lines
  <2>2. PICK bytes \in {PageSize, RootSize} : Heap!heap_malloc(bytes) /\ ret' # NULL
    BY <1>4, MountingMore
  <2> QED BY <2>1, <2>2, BootMalloc DEF HeapInv
<1>5. CASE NotFat16
  <2>1. stage \in Starting \ {"gdt", "heap"} /\ stage' \in Starting \ {"gdt", "heap"}
    BY <1>5, NotMounting, Lines
  <2> QED BY <1>5, <2>1, NotMounting, HeapStays DEF HeapInv
<1>6. CASE Unmounts
  <2>1. stage \in Starting \ {"gdt", "heap"} /\ stage' \in Starting \ {"gdt", "heap"}
    BY <1>6, MountingLess, Lines
  <2>2. PICK c \in live : Heap!heap_free(c)
    BY <1>6, MountingLess
  <2> QED BY <2>1, <2>2, BootFree DEF HeapInv
<1>7. CASE enable_paging
  <2>1. stage \in Starting \ {"gdt", "heap"} /\ stage' \in Starting \ {"gdt", "heap"}
    BY <1>7, PagingStarting, Lines
  <2>2. Heap!heap_malloc(PageSize) /\ ret' # NULL
    BY <1>7, PagingStarting
  <2> QED BY <2>1, <2>2, BootMalloc DEF HeapInv
<1>8. CASE LoadStep
  <2>1. stage' = "loading" /\ stage' \notin Starting
    BY <1>8, LoadStepping, Lines
  <2>2. Loading!IInv'
    BY <1>8, LoadCounts, Loading!NextIInv, LoadAssumed
  <2> QED BY <2>1, <2>2 DEF HeapInv
<1>9. CASE LoadEnds
  <2>1. stage \notin Starting /\ stage' \notin Starting
    BY <1>9, LoadEnding, Lines
  <2> QED BY <1>9, <2>1, LoadEnding, HeapStays, Lines DEF HeapInv
<1> QED BY BootSteps, <1>1, <1>2, <1>3, <1>4, <1>5, <1>6, <1>7, <1>8, <1>9 DEF Mounts, Unmounts

(* The loaded page directory is in memory as the MMU knows it: nothing     *)
(* that process_load writes is in it.                                      *)
LEMMA NextPages ==
  ASSUME VolumeInv, HeapInv, PagesInv, [BootNext]_bootvars
  PROVE  PagesInv'
<1>1. CASE Idle
  <2>1. /\ UNCHANGED live /\ UNCHANGED <<space, kernel_chunk, cr3, tlb>>
        /\ UNCHANGED <<processes, pc, process>> /\ UNCHANGED <<stage, current>>
    BY <1>1, Idles
  <2> QED BY <2>1 DEF PagesInv, Loading!Held, Loading!HeldIn, Loading!Gathered
<1>2. CASE SetsUp
  <2>1. /\ UNCHANGED live /\ UNCHANGED <<space, kernel_chunk, cr3, tlb>>
        /\ stage \in Starting
        /\ \/ stage = "commands" /\ stage' = "load"
           \/ stage \in Starting \ {"commands", "load"} /\ stage' \in Starting \ {"commands", "load"}
    BY <1>2, SettingUp, Lines
  <2> QED BY <2>1, Lines DEF PagesInv, Loading!Held
<1>3. CASE kheap_init \/ Mounts \/ NotFat16 \/ Unmounts
  <2>1. /\ UNCHANGED <<space, kernel_chunk, cr3, tlb>>
        /\ stage \in Starting \ {"commands", "load"} /\ stage' \in Starting \ {"commands", "load"}
    BY <1>3, HeapStarting, MountingMore, MountingLess, NotMounting, Lines
  <2> QED BY <2>1, Lines DEF PagesInv
<1>4. CASE enable_paging
  <2>1. /\ stage = "paging" /\ stage' = "commands" /\ DOMAIN space = {}
        /\ BootHeap!IInv /\ Heap!heap_malloc(PageSize) /\ ret' # NULL
        /\ kernel_chunk' = ret' /\ cr3' = ret' /\ tlb' = space'[ret']
        /\ DOMAIN space' = {ret'}
    BY <1>4, PagingStarting, Lines DEF PagesInv, HeapInv
  <2>2. Loading!HeldIn(live', ret', PageSize)
    BY <2>1, BootMalloc
  <2> QED BY <2>1, <2>2, Lines DEF PagesInv, Loading!Held, NULL
<1>5. CASE LoadStep
  <2>1. UNCHANGED <<kernel_chunk, cr3, tlb>> /\ stage' = "loading"
    BY <1>5, LoadStepping
  <2>2. cr3 # NULL /\ cr3 \in DOMAIN space /\ tlb = space[cr3]
    BY <1>5, LoadCounts
  <2>3. cr3 \in DOMAIN space' /\ space'[cr3] = space[cr3] /\ cr3 \notin Loading!Gathered'
    BY <1>5, LoadCounts, Loading!OtherSpacesKept, LoadAssumed
  <2> QED BY <2>1, <2>2, <2>3, Lines DEF PagesInv
<1>6. CASE LoadEnds
  <2>1. stage = "loading" /\ UNCHANGED <<space, processes>> /\ Loading!IInv
    BY <1>6, LoadEnding, Lines DEF HeapInv
  <2>2. cr3 # NULL /\ cr3 \in DOMAIN space /\ tlb = space[cr3]
    BY <2>1, Lines DEF PagesInv
  <2>3. CASE stage' \in {"undefined", "panic"}
    <3>1. UNCHANGED <<cr3, tlb>>
      BY <1>6, <2>3, LoadEnding
    <3> QED BY <2>1, <2>2, <2>3, <3>1, Lines DEF PagesInv
  <2>4. CASE stage' = "ring3"
    <3>1. /\ processes[0] # Load!NoProcess /\ current' = processes[0].task
          /\ cr3' = current' /\ tlb' = space'[current']
      BY <1>6, <2>4, LoadEnding
    <3>2. 0 \in Loading!Loaded
      <4>1. 0 \in Load!Slots
        BY KmainAssumption DEF Load!Slots, Load!ProcessAssumption
      <4> QED BY <3>1, <4>1, SameWords DEF Loading!Loaded
    <3>3. processes[0].task \in DOMAIN space /\ Loading!Held(processes[0].task, PageSize)
      BY <2>1, <3>2 DEF Loading!IInv, Loading!LoadedInv, Loading!Sound
    <3>4. processes[0].task # NULL
      BY <3>3, <2>1, BootHeapAssumed, SameHeap
         DEF Loading!Held, Loading!HeldIn, NULL, Loading!IInv, Loading!HeapFacts!Covered
    <3> QED BY <2>1, <2>4, <3>1, <3>3, <3>4, Lines DEF PagesInv
  <2> QED BY <1>6, <2>3, <2>4, LoadEnding
<1> QED BY BootSteps, <1>1, <1>2, <1>3, <1>4, <1>5, <1>6 DEF Mounts, Unmounts
-----------------------------------------------------------------------------
(* One more thing is mounted: another kind, at another address.            *)
LEMMA OneMore ==
  ASSUME \A m, n \in mounted : m.kind = n.kind \/ m.at = n.at => m = n,
         NEW kind, kind \notin {m.kind : m \in mounted},
         NEW a, a \notin {m.at : m \in mounted},
         mounted' = mounted \cup {[kind |-> kind, at |-> a]}
  PROVE  /\ {m.kind : m \in mounted'} = {m.kind : m \in mounted} \cup {kind}
         /\ {m.at : m \in mounted'} = {m.at : m \in mounted} \cup {a}
         /\ \A m, n \in mounted' : m.kind = n.kind \/ m.at = n.at => m = n
<1> DEFINE new == [kind |-> kind, at |-> a]
<1>1. new.kind = kind /\ new.at = a /\ mounted' = mounted \cup {new}
  OBVIOUS
<1> HIDE DEF new
<1> QED BY <1>1

(* One less.                                                               *)
LEMMA OneLess ==
  ASSUME \A m, n \in mounted : m.kind = n.kind \/ m.at = n.at => m = n,
         NEW k \in mounted, mounted' = mounted \ {k}
  PROVE  /\ {m.kind : m \in mounted'} = {m.kind : m \in mounted} \ {k.kind}
         /\ {m.at : m \in mounted'} = {m.at : m \in mounted} \ {k.at}
         /\ \A m, n \in mounted' : m.kind = n.kind \/ m.at = n.at => m = n
OBVIOUS

(* Mounting is in the middle of a start, before there is a page directory. *)
LEMMA WhileMounting ==
  ASSUME HeapInv, PagesInv, stage \in Mounting
  PROVE  BootHeap!IInv /\ kernel_chunk = NULL
BY Lines DEF HeapInv, PagesInv

(* Nothing of it is mounted twice, and the heap holds what is mounted.     *)
LEMMA NextMount ==
  ASSUME VolumeInv, MountInv, HeapInv, PagesInv, [BootNext]_bootvars
  PROVE  MountInv'
<1> DEFINE Kinds == {m.kind : m \in mounted}
           Places == {m.at : m \in mounted}
           Distinct == \A m, n \in mounted : m.kind = n.kind \/ m.at = n.at => m = n
<1>0. Kinds = MountedKinds /\ Distinct
  BY DEF MountInv
<1>1. CASE Idle
  <2>1. UNCHANGED <<stage, live, mounted, signature, kernel_chunk>>
    BY <1>1, Idles
  <2> QED BY <2>1 DEF MountInv, MountedKinds
<1>2. CASE SetsUp \/ kheap_init \/ NotFat16
  <2>1. UNCHANGED <<live, mounted, signature, kernel_chunk>>
    BY <1>2, SettingUp, HeapStarting, NotMounting
  <2>2. \/ stage = "gdt" /\ stage' = "heap"
        \/ stage = "heap" /\ stage' = "fs"
        \/ stage = "fs" /\ stage' = "private"
        \/ stage = "header" /\ stage' = "close" /\ ~ signature
        \/ stage = "idt" /\ stage' = "tss"
        \/ stage = "tss" /\ stage' = "paging"
        \/ stage = "commands" /\ stage' = "load"
    BY <1>2, SettingUp, HeapStarting, NotMounting
  <2>3. MountedKinds' = MountedKinds
    BY <2>1, <2>2 DEF MountedKinds, Streams
  <2>4. stage \in Starting
    BY <2>2, Lines
  <2> QED BY <1>0, <2>1, <2>3, <2>4 DEF MountInv
<1>3. CASE Mounts
  <2>1. /\ UNCHANGED <<kernel_chunk, signature>> /\ stage \in Mounting
        /\ BootHeap!IInv /\ kernel_chunk = NULL
    BY <1>3, MountingMore, Lines, WhileMounting
  <2>2. PICK kind, bytes :
          /\ Heap!heap_malloc(bytes) /\ ret' # NULL /\ bytes \in {PageSize, RootSize}
          /\ mounted' = mounted \cup {[kind |-> kind, at |-> ret']}
          /\ \/ /\ kind = stage
                /\ \/ stage = "private" /\ stage' = "cluster"
                   \/ stage = "cluster" /\ stage' = "fat"
                   \/ stage = "fat" /\ stage' = "directory"
                   \/ stage = "directory" /\ stage' = "stream"
                   \/ stage = "stream" /\ stage' = "header"
             \/ kind = "root" /\ signature /\ stage = "header" /\ stage' = "close"
    BY <1>3, MountingMore
  <2>3. kind \notin MountedKinds /\ MountedKinds' = MountedKinds \cup {kind}
    BY <2>1, <2>2 DEF MountedKinds, Streams
  <2>4. Addresses(live') = Addresses(live) \cup {ret'} /\ ret' \notin Addresses(live)
    BY <2>1, <2>2, BootMalloc
  <2>5. Addresses(live) = Places
    BY <2>1, Lines DEF MountInv
  <2>6. Kinds' = Kinds \cup {kind} /\ Places' = Places \cup {ret'} /\ Distinct'
    BY <1>0, <2>2, <2>3, <2>4, <2>5, OneMore
  <2> QED BY <1>0, <2>1, <2>3, <2>4, <2>5, <2>6 DEF MountInv
<1>4. CASE Unmounts
  <2>1. /\ UNCHANGED <<kernel_chunk, signature>> /\ stage \in Mounting
        /\ BootHeap!IInv /\ kernel_chunk = NULL
    BY <1>4, MountingLess, Lines, WhileMounting
  <2>2. PICK k \in mounted, c \in live :
          /\ k.at = Heap!heap_block_to_address(c.start)
          /\ Heap!heap_free(c) /\ mounted' = mounted \ {k}
          /\ \/ /\ k.kind = "stream" /\ stage = "close"
                /\ stage' = IF signature THEN "idt" ELSE "refused"
             \/ k.kind = "private" /\ stage = "refused" /\ stage' = "idt"
    BY <1>4, MountingLess
  <2>3. MountedKinds' = MountedKinds \ {k.kind}
    BY <2>1, <2>2 DEF MountedKinds, Streams, VolumeInv
  <2>4. Addresses(live') = Addresses(live) \ {k.at}
    BY <2>1, <2>2, BootFree
  <2>5. Addresses(live) = Places
    BY <2>1, Lines DEF MountInv
  <2>6. Kinds' = Kinds \ {k.kind} /\ Places' = Places \ {k.at} /\ Distinct'
    BY <1>0, <2>2, OneLess
  <2> QED BY <1>0, <2>1, <2>3, <2>4, <2>5, <2>6 DEF MountInv
<1>5. CASE enable_paging
  <2>1. /\ UNCHANGED <<mounted, signature>> /\ stage = "paging" /\ stage' = "commands"
        /\ Heap!heap_malloc(PageSize) /\ ret' # NULL /\ kernel_chunk' = ret'
        /\ BootHeap!IInv /\ kernel_chunk = NULL
    BY <1>5, PagingStarting, Lines DEF HeapInv, PagesInv
  <2>2. Addresses(live') = Addresses(live) \cup {ret'} /\ Addresses(live) = Places
    BY <2>1, BootMalloc, Lines DEF MountInv
  <2>3. MountedKinds' = MountedKinds
    BY <2>1 DEF MountedKinds
  <2> QED BY <1>0, <2>1, <2>2, <2>3 DEF MountInv
<1>6. CASE LoadStep \/ LoadEnds
  <2>1. /\ UNCHANGED <<mounted, signature>> /\ stage \in {"load", "loading"}
        /\ stage' \in {"loading"} \cup Ended
    BY <1>6, LoadStepping, LoadEnding DEF Ended
  <2>2. stage' \notin Starting /\ MountedKinds' = MountedKinds
    BY <2>1, Lines DEF MountedKinds, Ended
  <2> QED BY <1>0, <2>1, <2>2 DEF MountInv
<1> QED BY BootSteps, <1>1, <1>2, <1>3, <1>4, <1>5, <1>6 DEF Mounts, Unmounts
-----------------------------------------------------------------------------
(* The start satisfies the invariant.                                      *)
LEMMA StartInv ==
  ASSUME BootInit
  PROVE  BootInv
<1>1. /\ stage = "gdt" /\ mounted = {} /\ live = {} /\ stray = {} /\ ret = NULL
      /\ cr3 = NULL /\ kernel_chunk = NULL /\ DOMAIN space = {}
  BY DEF BootInit
<1>2. MountInv
  BY <1>1 DEF MountInv, MountedKinds, Addresses
<1>3. HeapInv
  BY <1>1, Lines DEF HeapInv
<1>4. PagesInv
  BY <1>1, Lines DEF PagesInv
<1> QED BY <1>2, <1>3, <1>4, StartVolume, StartSetup DEF BootInv

(* From the first line of kmain on, with any disk: what is mounted, set up *)
(* and allocated is what the line reached says, and the MMU's page         *)
(* directory is in memory as it knows it.                                  *)
THEOREM KmainInvariance == BootSpec => []BootInv
<1>1. BootInit => BootInv
  BY StartInv
<1>2. BootInv /\ [BootNext]_bootvars => BootInv'
  BY NextVolume, NextMount, NextHeap, NextPages, NextSetup DEF BootInv
<1> QED BY <1>1, <1>2, PTL DEF BootSpec

(* A disk that is not FAT16 ends in the panic of kernel.c:114, never in a  *)
(* program, whatever fopen is asked for and whatever it leaves behind.     *)
THEOREM KmainNoVolumeNoProgram == BootSpec => []NoVolumeNoProgram
<1>1. BootInv => NoVolumeNoProgram
  <2> SUFFICES ASSUME BootInv, stage \in {"ring3", "undefined"}
               PROVE  signature /\ \E m \in mounted : m.kind = "root"
    BY DEF NoVolumeNoProgram
  <2>1. signature
    BY Lines DEF BootInv, VolumeInv
  <2>2. "root" \in MountedKinds
    BY <2>1 DEF MountedKinds
  <2> QED BY <2>1, <2>2 DEF BootInv, MountInv
<1> QED BY <1>1, KmainInvariance, PTL

(* After mounting the heap holds the volume, or on another disk the three  *)
(* streams that fat16_resolve loses, and nothing else but the page         *)
(* directory.                                                              *)
THEOREM KmainMountKeepsItsOwn == BootSpec => []MountKeepsItsOwn
<1>1. BootInv => MountKeepsItsOwn
  <2> DEFINE Kinds == {m.kind : m \in mounted}
  <2> SUFFICES ASSUME BootInv, stage \in {"idt", "tss", "paging", "commands", "load"}
               PROVE  /\ {m.at : m \in mounted} \cup ({kernel_chunk} \ {NULL}) = Addresses(live)
                      /\ Cardinality(mounted) = Cardinality(Kinds)
                      /\ Kinds = Streams \cup (IF filesystem THEN {"private", "root"} ELSE {})
    BY DEF MountKeepsItsOwn, Addresses, Streams
  <2>1. /\ Kinds = MountedKinds /\ (filesystem <=> signature)
        /\ \A m, n \in mounted : m.kind = n.kind => m = n
        /\ {m.at : m \in mounted} \cup ({kernel_chunk} \ {NULL}) = Addresses(live)
    BY Lines DEF BootInv, MountInv, VolumeInv
  <2>2. Kinds = Streams \cup (IF filesystem THEN {"private", "root"} ELSE {})
    BY <2>1 DEF MountedKinds
  <2>3. IsFiniteSet(Kinds)
    <3>1. IsFiniteSet({} \cup {"cluster"} \cup {"fat"} \cup {"directory"} \cup {"private"} \cup {"root"})
      BY FS_EmptySet, FS_AddElement
    <3>2. Kinds \in SUBSET ({} \cup {"cluster"} \cup {"fat"} \cup {"directory"} \cup {"private"} \cup {"root"})
      BY <2>2 DEF Streams
    <3> QED BY <3>1, <3>2, FS_Subset
  <2>4. Cardinality(mounted) = Cardinality(Kinds)
    <3> DEFINE f == [m \in mounted |-> m.kind]
    <3>1. f \in Injection(mounted, Kinds) /\ f \in Surjection(mounted, Kinds)
      BY <2>1 DEF Injection, Surjection, IsInjective
    <3> QED BY <2>3, <3>1, FS_Injection
  <2> QED BY <2>1, <2>2, <2>4
<1> QED BY <1>1, KmainInvariance, PTL

(* A process that runs has its first page and the end of its stack on the  *)
(* page directory of its task, and the page under esp0 is the kernel's as  *)
(* long as the image does not reach it.                                    *)
LEMMA LoadedRuns ==
  ASSUME Loading!IInv, NEW s \in Loading!Loaded, NEW p, p = processes[s]
  PROVE  /\ space[p.task][ProgramPage] = [frame |-> p.ptr, flags |-> Load!OwnFlags]
         /\ space[p.task][StackPage] = [frame |-> p.stack, flags |-> Load!OwnFlags]
         /\ EspPage \notin Load!ImagePages(p) =>
              space[p.task][EspPage] = [frame |-> EspPage, flags |-> Loading!TaskFlags]
<1>1. /\ p.ptr \in Nat /\ p.stack \in Nat /\ p.size \in Nat /\ p.size > 0
      /\ StackSize \in Nat /\ StackSize > 0
  BY Loading!LoadedProcess, LoadAssumed
<1>2. /\ PageSize \in Nat \ {0} /\ ProgramPage \in Nat /\ StackPage \in Nat
      /\ EspPage \in KernelPages
  BY KmainAssumption, LoadAssumed, BootHeapAssumed DEF Loading!LayoutAssumption
<1>3. 0 \in 0 .. p.size - 1 /\ 0 \in 0 .. StackSize - 1 /\ 0 \div PageSize = 0
  BY <1>1, <1>2
<1>4. Loading!ImageAndStackMapped
  BY Loading!IInvImageAndStackMapped, LoadAssumed
<1>5. /\ space[p.task][ProgramPage + 0 \div PageSize] =
           [frame |-> p.ptr + 0 \div PageSize, flags |-> Loading!OwnFlags]
      /\ space[p.task][StackPage + 0 \div PageSize] =
           [frame |-> p.stack + 0 \div PageSize, flags |-> Loading!OwnFlags]
  BY <1>3, <1>4, Zenon DEF Loading!ImageAndStackMapped
<1>6. /\ ProgramPage + 0 = ProgramPage /\ StackPage + 0 = StackPage
      /\ p.ptr + 0 = p.ptr /\ p.stack + 0 = p.stack
  BY <1>1, <1>2
<1>7. Load!ImagePages(p) = Loading!ImagePages(p)
  BY DEF Load!ImagePages, Load!Heap!total_blocks, Load!Heap!heap_align_value_to_upper,
         Loading!ImagePages, Loading!Heap!total_blocks, Loading!Heap!heap_align_value_to_upper
<1>8. EspPage \notin Load!ImagePages(p) =>
        space[p.task][EspPage] = [frame |-> EspPage, flags |-> Loading!TaskFlags]
  BY <1>2, <1>7, Loading!KernelPagesKept, LoadAssumed
<1> QED BY <1>3, <1>5, <1>6, <1>8, SameWords

(* While paging is on the MMU knows the page directory as it is in memory, *)
(* and a program runs on the directory of its own task, with its image,    *)
(* its stack and, if the image is not as long as to reach it, the kernel's *)
(* stack in it, when everything that an interrupt needs has been set up.   *)
THEOREM KmainRunsOnItsPages == BootSpec => []RunsOnItsPages
<1>1. BootInv => RunsOnItsPages
  <2> SUFFICES ASSUME BootInv PROVE RunsOnItsPages
    OBVIOUS
  <2>1. cr3 # NULL => cr3 \in DOMAIN space /\ tlb = space[cr3]
    BY DEF BootInv, PagesInv
  <2>2. ASSUME stage = "ring3"
        PROVE  /\ \E s \in Load!Loaded : processes[s].task = current
               /\ cr3 = current
               /\ \A s \in Load!Loaded : processes[s].task = current =>
                    /\ tlb[ProgramPage] = [frame |-> processes[s].ptr, flags |-> Load!OwnFlags]
                    /\ tlb[StackPage] = [frame |-> processes[s].stack, flags |-> Load!OwnFlags]
                    /\ EspPage \notin Load!ImagePages(processes[s]) =>
                         tlb[EspPage].frame = EspPage /\ "W" \notin tlb[EspPage].flags
               /\ setup = {"fs", "idt", "tss", "commands"}
    <3>1. /\ Loading!IInv /\ processes[0] # Load!NoProcess
          /\ current = processes[0].task /\ cr3 = current /\ tlb = space[current]
          /\ setup = {"fs", "idt", "tss", "commands"}
      BY <2>2, Lines DEF BootInv, HeapInv, PagesInv, SetupInv
    <3>2. 0 \in Load!Loaded
      <4>1. 0 \in Load!Slots
        BY KmainAssumption DEF Load!Slots, Load!ProcessAssumption
      <4> QED BY <3>1, <4>1 DEF Load!Loaded
    <3>3. ASSUME NEW s \in Load!Loaded, processes[s].task = current
          PROVE  /\ tlb[ProgramPage] = [frame |-> processes[s].ptr, flags |-> Load!OwnFlags]
                 /\ tlb[StackPage] = [frame |-> processes[s].stack, flags |-> Load!OwnFlags]
                 /\ EspPage \notin Load!ImagePages(processes[s]) =>
                      tlb[EspPage] = [frame |-> EspPage, flags |-> Loading!TaskFlags]
      BY <3>1, <3>3, LoadedRuns, SameWords
    <3>4. "W" \notin Loading!TaskFlags
      BY DEF Loading!TaskFlags
    <3> QED BY <3>1, <3>2, <3>3, <3>4, SameWords
  <2> QED BY <2>1, <2>2 DEF RunsOnItsPages
<1> QED BY <1>1, KmainInvariance, PTL
=============================================================================
