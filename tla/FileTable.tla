----------------------------- MODULE FileTable ------------------------------
(***************************************************************************)
(* The file descriptors of src/fs/file.c and the FAT16 descriptors behind  *)
(* them: fopen, fseek, fread, fstat and fclose.                            *)
(*                                                                         *)
(* fclose frees the file system's descriptor but leaves the table entry as *)
(* it is, so an entry may point at freed memory, and the address may be    *)
(* allocated again: memory is what each address holds now.  A              *)
(* fat_file_descriptor and its fat_item come and go together and are one   *)
(* address here; of a directory without entries fclose frees one address   *)
(* more, which nobody allocated (FatLookup), so there is none among        *)
(* Directories.  The heap is assumed to have room for what fopen asks, and *)
(* what happens when an error code is used as an address (a read at the    *)
(* top of memory) is not modelled.  fread is one step here; how it reads,  *)
(* and how seeks wrap around, is in Fat16Read.                             *)
(***************************************************************************)
EXTENDS Integers

CONSTANTS
  Max,        \* NUTSOS_MAX_FILE_DESCRIPTORS
  Files,      \* paths of existing files, with modes that open them
  Directories,  \* those of them that are directories, with entries
  FileSize,   \* bytes of each file
  Offsets,    \* offsets callers seek by
  Refused,    \* paths and modes fat16_open answers with an error code
  Addresses,  \* heap addresses
  NULL,
  ERROR       \* ERRTOPTR(-EIO), ERRTOPTR(-EREADONLY)

ASSUME TableAssumption ==
  /\ Max \in Nat \ {0}
  /\ Directories \subseteq Files /\ FileSize \in [Files -> Nat] /\ Offsets \subseteq Int
  /\ Files \cap Refused = {} /\ NULL \notin Files
  /\ {NULL, ERROR} \cap Addresses = {} /\ NULL # ERROR

VARIABLES
  file_descriptors,  \* the table: the private pointer of each slot, or NULL
  memory,            \* address -> the file it describes, NULL when free
  pos,               \* address -> the position of the descriptor there
  opened,            \* history: the fds fopen returned, with their paths
  closed,            \* history: the fds that have been closed
  sought             \* history: fd -> where its own fseeks have taken it

vars == <<file_descriptors, memory, pos, opened, closed, sought>>

Slots == 0 .. Max - 1
Allocated == {a \in Addresses : memory[a] # NULL}

Init ==
  /\ file_descriptors = [i \in Slots |-> NULL]
  /\ memory = [a \in Addresses |-> NULL]
  /\ pos = [a \in Addresses |-> 0]
  /\ opened = {} /\ closed = {}
  /\ sought = [fd \in 1 .. Max |-> 0]
-----------------------------------------------------------------------------
(* Leaves the position that the memory held.                               *)
Mut_fat16_open(path, private) ==
  \/ /\ path \in Files
     /\ private \in Addresses \ Allocated
     /\ memory' = [memory EXCEPT ![private] = path]
     /\ UNCHANGED pos
  \/ path \in Refused /\ private = ERROR /\ UNCHANGED <<memory, pos>>

(* fat16_open: a fresh descriptor, or an error code.                       *)
fat16_open(path, private) ==
  \/ /\ path \in Files
     /\ private \in Addresses \ Allocated
     /\ memory' = [memory EXCEPT ![private] = path]
     /\ pos' = [pos EXCEPT ![private] = 0]
  \/ path \in Refused /\ private = ERROR /\ UNCHANGED <<memory, pos>>

(* Frees the item and keeps the descriptor.                                *)
Mut_fat16_close(private) == UNCHANGED memory

fat16_close(private) ==
  /\ private \in Addresses
  /\ memory' = [memory EXCEPT ![private] = NULL]

(* The first empty slot.                                                   *)
FreeSlot(i) ==
  /\ file_descriptors[i] = NULL
  /\ \A j \in 0 .. i - 1 : file_descriptors[j] # NULL

(* "Descriptors start at 1".                                               *)
index(i) == i + 1

(* Does not subtract what file_descriptor_new added.                       *)
Mut_get_descriptor(fd) ==
  IF fd <= 0 \/ fd >= Max THEN NULL ELSE file_descriptors[fd]

file_get_descriptor(fd) ==
  IF fd <= 0 \/ fd >= Max THEN NULL ELSE file_descriptors[fd - 1]

(* A path that does not parse, a drive that is not there and an unknown    *)
(* mode are refused before any of this and change nothing here.            *)
(* ISERR compares a pointer with 0, which no pointer is less than: an      *)
(* error code from fat16_open becomes a descriptor like any other.  With   *)
(* the table full, what fat16_open allocated stays allocated.              *)
fopen(path) ==
  \E private \in Addresses \cup {ERROR} :
    /\ fat16_open(path, private)
    /\ UNCHANGED closed
    /\ \/ \E i \in Slots :
            /\ FreeSlot(i)
            /\ file_descriptors' = [file_descriptors EXCEPT ![i] = private]
            /\ opened' = opened \cup {[fd |-> index(i), path |-> path]}
            /\ sought' = [sought EXCEPT ![index(i)] = 0]
       \/ /\ \A i \in Slots : ~ FreeSlot(i)
          /\ UNCHANGED <<file_descriptors, opened, sought>>

fclose(fd) ==
  /\ \/ file_get_descriptor(fd) = NULL /\ UNCHANGED memory
     \/ file_get_descriptor(fd) # NULL /\ fat16_close(file_get_descriptor(fd))
  /\ closed' = closed \cup {fd}
  /\ UNCHANGED <<file_descriptors, pos, opened, sought>>

(* A seek to an offset inside a file; a directory answers -EINVARG, an     *)
(* offset that is not in the file -EIO.                                    *)
fat16_seek(private, to) ==
  /\ private \in Addresses
  /\ memory[private] \notin Directories
  /\ to \in 0 .. FileSize[memory[private]] - 1
  /\ pos' = [pos EXCEPT ![private] = to]

SeekSet(fd, offset) ==
  /\ fat16_seek(file_get_descriptor(fd), offset)
  /\ sought' = [sought EXCEPT ![fd] = offset]

SeekCur(fd, offset) ==
  /\ fat16_seek(file_get_descriptor(fd), pos[file_get_descriptor(fd)] + offset)
  /\ sought' = [sought EXCEPT ![fd] = @ + offset]

(* The seeks that move something; every other, SEEK_END among them, is     *)
(* answered with an error.                                                 *)
fseek(fd, offset) ==
  /\ file_get_descriptor(fd) \in Addresses
  /\ SeekSet(fd, offset) \/ SeekCur(fd, offset)
  /\ UNCHANGED <<file_descriptors, memory, opened, closed>>

(* fat16_read counts in an offset of its own and fat16_stat copies two     *)
(* fields: neither they nor the calls that are answered with an error      *)
(* change anything.                                                        *)
fread(fd) == UNCHANGED vars
fstat(fd) == UNCHANGED vars

(* What process.c does: it closes what it opened, once.                    *)
Next ==
  \/ \E path \in Files \cup Refused : fopen(path)
  \/ \E o \in opened :
       /\ o.fd \notin closed
       /\ \/ fclose(o.fd) \/ fread(o.fd) \/ fstat(o.fd)
          \/ \E offset \in Offsets : fseek(o.fd, offset)

Spec == Init /\ [][Next]_vars
-----------------------------------------------------------------------------
(* Types of the state.                                                     *)
TypeOK ==
  /\ file_descriptors \in [Slots -> Addresses \cup {NULL, ERROR}]
  /\ memory \in [Addresses -> Files \cup {NULL}]
  /\ opened \subseteq [fd : 1 .. Max, path : Files \cup Refused]
  /\ closed \subseteq 1 .. Max
  /\ pos \in [Addresses -> Int] /\ sought \in [1 .. Max -> Int]

Open == {o \in opened : o.fd \notin closed /\ o.path \in Files}

(* What a call on the fd works with.  file_get_descriptor refuses the last *)
(* fd of the table (file.c:76), so that every call on it is answered with  *)
(* an error: the file behind it cannot be read, and stays in memory.       *)
DescriptorOf(o) == file_get_descriptor(o.fd)
Served == {o \in Open : o.fd # Max}

(* Every other fd leads its caller to the file it was opened for until it  *)
(* is closed, and no other open fd leads to the same descriptor, however   *)
(* often the memory of closed files has been reused in between: their      *)
(* stale table entries do no harm as long as nobody uses them.             *)
EachFdItsFile ==
  \A o \in Served :
    /\ DescriptorOf(o) \in Addresses /\ memory[DescriptorOf(o)] = o.path
    /\ \A p \in Open : p # o => DescriptorOf(p) # DescriptorOf(o)

(* Until an fopen finds the table full, every FAT descriptor in memory is  *)
(* within reach of an open fd, whose fclose gives it back.                 *)
NothingLeaksUntilFull ==
  (\E i \in Slots : FreeSlot(i)) => Allocated = {DescriptorOf(o) : o \in Open}

(* A read on an fd starts where the fseeks on this fd, since its own open, *)
(* have left it, inside the file: reading does not move it (fat16.c:652),  *)
(* and neither do other fds of the same file or what the memory was        *)
(* before.                                                                 *)
ReadsFromItsPosition ==
  \A o \in Served :
    /\ pos[DescriptorOf(o)] = sought[o.fd]
    /\ sought[o.fd] # 0 => sought[o.fd] \in 1 .. FileSize[o.path] - 1

(* "Can't find the root directory - path is invalid" (fat16.c:390): a path *)
(* that leads nowhere, or a mode other than reading, opens nothing.  Does  *)
(* not hold: the error code is stored as if it were the descriptor.        *)
InvalidPathOpensNothing == \A o \in opened : o.path \notin Refused
=============================================================================
