--------------------------- MODULE FileTableProofs ---------------------------
(***************************************************************************)
(* FileTable for every table size and every set of files and addresses:    *)
(* the types, each open fd leads to its own file and to its own position,  *)
(* and nothing leaks before the table is full.                             *)
(*                                                                         *)
(* None of it is inductive alone.  That an fd is not handed out twice      *)
(* rests on fclose leaving the table entry (HandedOut), and that an fd     *)
(* which is out of reach for fclose leaks only in a full table rests on    *)
(* slots being filled from the first one on (FilledInOrder).               *)
(*                                                                         *)
(* The second half is Fopen, one call of fopen from its string on, for     *)
(* every path length, every set of strings and every volume: what the      *)
(* parser hands to the walk, and what a call leaves allocated.             *)
(*                                                                         *)
(* Last comes what a call finds.  A directory is counted along the disk    *)
(* and read along its chain; on a tidy volume both give what is in it      *)
(* (DirectoryLoaded), so that the walk, which holds the directory that the *)
(* parts so far name (PathWalked), finds what the string names. Following  *)
(* a chain and following a path are recursions: that the numbers and sets  *)
(* they are to give exist as a function is shown by a least counterexample *)
(* (RecursionExists).                                                      *)
(***************************************************************************)
EXTENDS FileTable, Fopen, TLAPS, SequenceTheorems, FiniteSetTheorems

PrivateOf(o) == file_descriptors[o.fd - 1]

(* Every fd that was handed out, closed or not, keeps its slot, and no two *)
(* opens got the same one; an error code is behind what was refused only.  *)
HandedOut ==
  /\ \A o \in opened :
       /\ PrivateOf(o) # NULL
       /\ o.path \in Files => PrivateOf(o) \in Addresses
       /\ o.path \in Refused => PrivateOf(o) = ERROR
  /\ \A o, p \in opened : o.fd = p.fd => o = p
  /\ \A fd \in closed : \E o \in opened : o.fd = fd

FilledInOrder ==
  \A i, j \in Slots : j < i /\ file_descriptors[i] # NULL => file_descriptors[j] # NULL

(* The properties for the entries of the table, the last one included,     *)
(* which file_get_descriptor does not hand on.                             *)
EntryHasItsFile ==
  \A o \in Open :
    /\ memory[PrivateOf(o)] = o.path
    /\ \A p \in Open : p # o => PrivateOf(p) # PrivateOf(o)

EntryHasItsPosition ==
  \A o \in Open :
    /\ pos[PrivateOf(o)] = sought[o.fd]
    /\ sought[o.fd] # 0 => sought[o.fd] \in 1 .. FileSize[o.path] - 1

AllInTheTable ==
  (\E i \in Slots : FreeSlot(i)) => Allocated = {PrivateOf(o) : o \in Open}

IInv ==
  /\ TypeOK /\ HandedOut /\ FilledInOrder
  /\ EntryHasItsFile /\ AllInTheTable /\ EntryHasItsPosition

LEMMA InitInv == Init => IInv
<1> SUFFICES ASSUME Init PROVE IInv
  OBVIOUS
<1>1. TypeOK
  BY TableAssumption DEF Init, TypeOK, Slots
<1>2. Allocated = {} /\ Open = {}
  BY DEF Init, Allocated, Open
<1> QED
  BY <1>1, <1>2 DEF Init, IInv, HandedOut, FilledInOrder, EntryHasItsFile,
                    AllInTheTable, EntryHasItsPosition

(* fat16_open gives what was not in use.                                   *)
LEMMA OpenFresh ==
  ASSUME IInv, NEW file \in Files \cup Refused, NEW private, fat16_open(file, private)
  PROVE  /\ memory' \in [Addresses -> Files \cup {NULL}]
         /\ private \in Addresses \cup {ERROR} /\ private # NULL
         /\ file \in Files => /\ private \in Addresses
                              /\ memory[private] = NULL /\ memory'[private] = file
                              /\ Allocated' = Allocated \cup {private}
         /\ file \in Refused => private = ERROR /\ Allocated' = Allocated
         /\ \A a \in Addresses : a # private => memory'[a] = memory[a]
         /\ \A o \in Open : PrivateOf(o) # private
         /\ pos' \in [Addresses -> Int]
         /\ file \in Files => pos'[private] = 0
         /\ \A a \in Addresses : a # private => pos'[a] = pos[a]
<1>1. /\ pos' \in [Addresses -> Int]
      /\ file \in Files => pos'[private] = 0
      /\ \A a \in Addresses : a # private => pos'[a] = pos[a]
  BY TableAssumption DEF IInv, TypeOK, fat16_open
<1>2. \A o \in Open : PrivateOf(o) # private
  BY TableAssumption DEF IInv, TypeOK, fat16_open, Allocated, EntryHasItsFile, HandedOut, Open
<1> QED
  BY <1>1, <1>2, TableAssumption DEF IInv, TypeOK, fat16_open, Allocated

LEMMA FopenStored ==
  ASSUME IInv, NEW file \in Files \cup Refused, NEW private, fat16_open(file, private),
         NEW i \in Slots, FreeSlot(i),
         file_descriptors' = [file_descriptors EXCEPT ![i] = private],
         opened' = opened \cup {[fd |-> index(i), path |-> file]},
         sought' = [sought EXCEPT ![index(i)] = 0],
         UNCHANGED closed
  PROVE  IInv'
<1> DEFINE new == [fd |-> index(i), path |-> file]
<1>1. /\ new.fd = i + 1 /\ new.path = file /\ new.fd \in 1 .. Max
      /\ new \in [fd : 1 .. Max, path : Files \cup Refused]
  BY TableAssumption DEF index, Slots
<1>2. /\ file_descriptors'[i] = private
      /\ \A j \in Slots : j # i => file_descriptors'[j] = file_descriptors[j]
  BY DEF IInv, TypeOK
<1>3. TypeOK'
  BY <1>1, OpenFresh DEF IInv, TypeOK, index
<1>4. \A o \in opened : o.fd - 1 \in Slots /\ o.fd - 1 # i /\ PrivateOf(o)' = PrivateOf(o)
  <2> TAKE o \in opened
  <2>1. o.fd \in 1 .. Max
    BY DEF IInv, TypeOK
  <2>2. o.fd - 1 \in Slots
    BY <2>1, TableAssumption DEF Slots
  <2>3. o.fd - 1 # i
    BY DEF IInv, HandedOut, PrivateOf, FreeSlot
  <2> QED BY <2>2, <2>3, <1>2 DEF PrivateOf
<1>5. PrivateOf(new)' = private
  BY <1>1, <1>2 DEF PrivateOf, Slots
<1>6. \A o \in opened : o.fd # new.fd
  BY <1>1, <1>4 DEF Slots
<1>7. new.fd \notin closed
  BY <1>6 DEF IInv, HandedOut
<1>8. HandedOut'
  BY <1>1, <1>4, <1>5, <1>6, OpenFresh, TableAssumption DEF IInv, HandedOut
<1>9. FilledInOrder'
  BY <1>2, OpenFresh DEF IInv, FilledInOrder, FreeSlot, Slots
<1>10. Open' = IF file \in Files THEN Open \cup {new} ELSE Open
  BY <1>1, <1>7 DEF Open
<1>11. EntryHasItsFile'
  <2>1. ASSUME NEW o \in Open
        PROVE  /\ PrivateOf(o)' = PrivateOf(o) /\ PrivateOf(o) # private
               /\ PrivateOf(o) \in Addresses /\ memory'[PrivateOf(o)] = o.path
    BY <1>4, OpenFresh DEF IInv, HandedOut, EntryHasItsFile, Open
  <2>2. file \in Files => memory'[private] = file
    BY OpenFresh
  <2>3. \A o \in Open' :
          \/ o \in Open /\ PrivateOf(o)' = PrivateOf(o)
          \/ o = new /\ file \in Files /\ PrivateOf(o)' = private
    BY <2>1, <1>5, <1>10
  <2> QED BY <2>1, <2>2, <2>3, <1>1 DEF IInv, EntryHasItsFile
<1>12. AllInTheTable'
  <2>1. Allocated = {PrivateOf(o) : o \in Open}
    BY DEF IInv, AllInTheTable
  <2>2. \A o \in Open : PrivateOf(o)' = PrivateOf(o)
    BY <1>4 DEF Open
  <2>3. Allocated' = {PrivateOf(o)' : o \in Open'}
    BY <2>1, <2>2, <1>5, <1>10, OpenFresh, TableAssumption
  <2> QED BY <2>3 DEF AllInTheTable
<1>13. EntryHasItsPosition'
  <2>1. ASSUME NEW o \in Open
        PROVE  /\ pos'[PrivateOf(o)] = pos[PrivateOf(o)] /\ PrivateOf(o)' = PrivateOf(o)
               /\ sought'[o.fd] = sought[o.fd]
    <3>1. o \in opened /\ PrivateOf(o) \in Addresses /\ PrivateOf(o) # private
      BY OpenFresh DEF IInv, HandedOut, Open
    <3>2. o.fd \in 1 .. Max /\ o.fd # index(i)
      BY <3>1, <1>1, <1>6 DEF IInv, TypeOK
    <3> QED BY <3>1, <3>2, <1>4, OpenFresh DEF IInv, TypeOK
  <2>2. file \in Files => pos'[private] = 0
    BY OpenFresh
  <2>3. sought'[new.fd] = 0
    BY <1>1 DEF IInv, TypeOK
  <2> QED BY <2>1, <2>2, <2>3, <1>5, <1>10 DEF IInv, EntryHasItsPosition
<1> QED BY <1>3, <1>8, <1>9, <1>11, <1>12, <1>13 DEF IInv

(* With the table full, what fat16_open allocated stays allocated.         *)
LEMMA FopenFull ==
  ASSUME IInv, NEW file \in Files \cup Refused, NEW private, fat16_open(file, private),
         \A i \in Slots : ~ FreeSlot(i),
         UNCHANGED <<file_descriptors, opened, sought, closed>>
  PROVE  IInv'
<1>1. TypeOK' /\ HandedOut' /\ FilledInOrder'
  BY OpenFresh DEF IInv, TypeOK, HandedOut, FilledInOrder, PrivateOf
<1>2. Open' = Open /\ \A o \in Open : PrivateOf(o)' = PrivateOf(o)
  BY DEF Open, PrivateOf
<1>3. EntryHasItsFile'
  BY <1>2, OpenFresh DEF IInv, EntryHasItsFile, HandedOut, Open
<1>4. AllInTheTable'
  BY DEF AllInTheTable, FreeSlot
<1>5. EntryHasItsPosition'
  BY <1>2, OpenFresh DEF IInv, EntryHasItsPosition, HandedOut, Open
<1> QED BY <1>1, <1>3, <1>4, <1>5 DEF IInv

(* fclose frees the file of its own fd, unless it is the last one, which   *)
(* can only be in use in a full table.                                     *)
LEMMA FcloseInv ==
  ASSUME IInv, NEW o \in opened, o.fd \notin closed, fclose(o.fd)
  PROVE  IInv'
<1>1. o.fd \in 1 .. Max /\ o.fd - 1 \in Slots
  BY TableAssumption DEF IInv, TypeOK, Slots
<1>2. /\ closed' = closed \cup {o.fd}
      /\ file_descriptors' = file_descriptors /\ opened' = opened
      /\ pos' = pos /\ sought' = sought
  BY DEF fclose
<1>3. \A p : PrivateOf(p)' = PrivateOf(p)
  BY <1>2 DEF PrivateOf
<1>4. HandedOut' /\ FilledInOrder'
  BY <1>2, <1>3 DEF IInv, HandedOut, FilledInOrder
<1>5. Open' = Open \ {o}
  BY <1>2 DEF Open, IInv, HandedOut
<1>8. EntryHasItsPosition'
  BY <1>2, <1>3, <1>5 DEF IInv, EntryHasItsPosition
<1>6. CASE o.fd = Max
  <2>1. file_get_descriptor(o.fd) = NULL
    BY <1>6, TableAssumption DEF file_get_descriptor
  <2>2. memory' = memory
    BY <2>1, TableAssumption DEF fclose, fat16_close
  <2>3. TypeOK' /\ EntryHasItsFile'
    BY <1>1, <1>2, <1>3, <1>5, <2>2 DEF IInv, TypeOK, EntryHasItsFile
  <2>4. file_descriptors[Max - 1] # NULL
    BY <1>6 DEF IInv, HandedOut, PrivateOf
  <2>5. \A i \in Slots : file_descriptors[i] # NULL
    BY <2>4, <1>1, <1>6 DEF IInv, FilledInOrder, Slots
  <2>6. AllInTheTable'
    BY <2>5, <1>2 DEF AllInTheTable, FreeSlot
  <2> QED BY <1>4, <1>8, <2>3, <2>6 DEF IInv
<1>7. CASE o.fd # Max
  <2>1. file_get_descriptor(o.fd) = PrivateOf(o)
    BY <1>1, <1>7, TableAssumption DEF file_get_descriptor, PrivateOf
  <2>2. PrivateOf(o) \in Addresses /\ memory' = [memory EXCEPT ![PrivateOf(o)] = NULL]
    BY <2>1 DEF fclose, fat16_close, IInv, HandedOut
  <2>3. o \in Open
    BY <2>2, TableAssumption DEF IInv, HandedOut, TypeOK, Open
  <2>4. TypeOK'
    BY <1>1, <1>2, <2>2 DEF IInv, TypeOK
  <2>5. \A a \in Addresses : memory'[a] = IF a = PrivateOf(o) THEN NULL ELSE memory[a]
    BY <2>2 DEF IInv, TypeOK
  <2>6. \A p \in Open : p # o => PrivateOf(p) # PrivateOf(o) /\ PrivateOf(p) \in Addresses
    BY <2>3 DEF IInv, EntryHasItsFile, HandedOut, Open
  <2>7. EntryHasItsFile'
    BY <1>3, <1>5, <2>5, <2>6 DEF IInv, EntryHasItsFile
  <2>8. Allocated' = Allocated \ {PrivateOf(o)}
    BY <2>5 DEF Allocated
  <2>9. AllInTheTable'
    <3> SUFFICES ASSUME \E i \in Slots : FreeSlot(i)
                 PROVE  Allocated' = {PrivateOf(p)' : p \in Open'}
      BY <1>2 DEF AllInTheTable, FreeSlot
    <3>1. Allocated = {PrivateOf(p) : p \in Open}
      BY DEF IInv, AllInTheTable
    <3>2. {PrivateOf(p) : p \in Open} \ {PrivateOf(o)} = {PrivateOf(p) : p \in Open \ {o}}
      BY <2>3, <2>6
    <3> QED BY <3>1, <3>2, <2>8, <1>3, <1>5
  <2> QED BY <1>4, <1>8, <2>4, <2>7, <2>9 DEF IInv
<1> QED BY <1>6, <1>7

(* A seek moves the position of its own fd, and none that another open fd  *)
(* leads to.                                                               *)
LEMMA FseekInv ==
  ASSUME IInv, NEW o \in opened, o.fd \notin closed, NEW offset \in Offsets, fseek(o.fd, offset)
  PROVE  IInv'
<1>1. o.fd \in 1 .. Max
  BY DEF IInv, TypeOK
<1>2. file_get_descriptor(o.fd) = PrivateOf(o) /\ PrivateOf(o) \in Addresses
  BY <1>1, TableAssumption DEF fseek, file_get_descriptor, PrivateOf
<1>3. o \in Open
  BY <1>2, TableAssumption DEF IInv, TypeOK, HandedOut, Open
<1>4. memory[PrivateOf(o)] = o.path /\ pos[PrivateOf(o)] = sought[o.fd]
  BY <1>3 DEF IInv, EntryHasItsFile, EntryHasItsPosition
<1>5. PICK to \in Int :
        /\ to \in 0 .. FileSize[o.path] - 1
        /\ pos' = [pos EXCEPT ![PrivateOf(o)] = to]
        /\ sought' = [sought EXCEPT ![o.fd] = to]
  <2>1. offset \in Int /\ pos[PrivateOf(o)] + offset \in Int
    BY <1>2, TableAssumption DEF IInv, TypeOK
  <2>2. CASE SeekSet(o.fd, offset)
    BY <2>1, <2>2, <1>2, <1>4 DEF SeekSet, fat16_seek
  <2>3. CASE SeekCur(o.fd, offset)
    <3>1. sought' = [sought EXCEPT ![o.fd] = sought[o.fd] + offset]
      BY <2>3 DEF SeekCur
    <3> QED BY <3>1, <2>1, <2>3, <1>2, <1>4 DEF SeekCur, fat16_seek
  <2> QED BY <2>2, <2>3 DEF fseek
<1>6. UNCHANGED <<file_descriptors, memory, opened, closed>>
  BY DEF fseek
<1>7. TypeOK' /\ HandedOut' /\ FilledInOrder' /\ EntryHasItsFile' /\ AllInTheTable'
  BY <1>1, <1>2, <1>5, <1>6
     DEF IInv, TypeOK, HandedOut, FilledInOrder, EntryHasItsFile, AllInTheTable,
         Open, PrivateOf, Allocated, FreeSlot
<1>8. EntryHasItsPosition'
  <2>1. Open' = Open /\ \A p : PrivateOf(p)' = PrivateOf(p)
    BY <1>6 DEF Open, PrivateOf
  <2>2. ASSUME NEW p \in Open, p # o
        PROVE  /\ PrivateOf(p) \in Addresses /\ PrivateOf(p) # PrivateOf(o)
               /\ p.fd \in 1 .. Max /\ p.fd # o.fd
    BY <2>2, <1>3 DEF IInv, TypeOK, HandedOut, EntryHasItsFile, Open
  <2>3. ASSUME NEW p \in Open, p # o
        PROVE  pos'[PrivateOf(p)] = pos[PrivateOf(p)] /\ sought'[p.fd] = sought[p.fd]
    BY <2>2, <2>3, <1>5 DEF IInv, TypeOK
  <2>4. pos'[PrivateOf(o)] = sought'[o.fd] /\ sought'[o.fd] \in 0 .. FileSize[o.path] - 1
    BY <1>1, <1>2, <1>5 DEF IInv, TypeOK
  <2>5. o.path \in Files /\ FileSize[o.path] \in Nat
    BY <1>3, TableAssumption DEF Open
  <2>6. sought'[o.fd] # 0 => sought'[o.fd] \in 1 .. FileSize[o.path] - 1
    BY <2>4, <2>5
  <2> QED BY <2>1, <2>3, <2>4, <2>6 DEF IInv, EntryHasItsPosition
<1> QED BY <1>7, <1>8 DEF IInv

LEMMA NextInv == IInv /\ [Next]_vars => IInv'
<1> SUFFICES ASSUME IInv, [Next]_vars PROVE IInv'
  OBVIOUS
<1>1. ASSUME NEW file \in Files \cup Refused, fopen(file) PROVE IInv'
  <2>1. PICK private : fat16_open(file, private) /\ fopen(file)!(private)
    BY <1>1 DEF fopen
  <2> QED BY <2>1, FopenStored, FopenFull
<1>2. ASSUME NEW o \in opened, o.fd \notin closed /\ fclose(o.fd) PROVE IInv'
  BY <1>2, FcloseInv
<1>3. ASSUME NEW o \in opened, o.fd \notin closed, NEW offset \in Offsets, fseek(o.fd, offset)
      PROVE  IInv'
  BY <1>3, FseekInv
<1>4. CASE UNCHANGED vars
  BY <1>4 DEF vars, IInv, TypeOK, HandedOut, FilledInOrder, EntryHasItsFile, EntryHasItsPosition,
              AllInTheTable, Open, PrivateOf, Allocated, FreeSlot
<1> QED BY <1>1, <1>2, <1>3, <1>4 DEF Next, fread, fstat

LEMMA AlwaysIInv == Spec => []IInv
BY InitInv, NextInv, PTL DEF Spec

(* The table, the memory behind it and the histories keep their types.     *)
THEOREM FileTypeOK == Spec => []TypeOK
<1>1. IInv => TypeOK
  BY DEF IInv
<1> QED BY <1>1, AlwaysIInv, PTL

(* What the calls on an fd work with, by the entries of the table.         *)
LEMMA DescriptorIs ==
  ASSUME IInv, NEW o \in Open
  PROVE  /\ o.fd # Max => DescriptorOf(o) = PrivateOf(o)
         /\ o.fd = Max => DescriptorOf(o) = NULL
         /\ PrivateOf(o) \in Addresses /\ PrivateOf(o) # NULL
<1>1. o \in opened /\ o.path \in Files /\ o.fd \in 1 .. Max
  BY DEF Open, IInv, TypeOK
<1>2. PrivateOf(o) \in Addresses
  BY <1>1 DEF IInv, HandedOut
<1> QED BY <1>1, <1>2, TableAssumption DEF DescriptorOf, PrivateOf, file_get_descriptor

(* fopen and fclose in any order, on any table: an fd that is not closed   *)
(* leads to its own file and to no other, unless it is the last one, which *)
(* file.c:76 refuses.                                                      *)
THEOREM FileEachFdItsFile == Spec => []EachFdItsFile
<1>1. IInv => EachFdItsFile
  <2> SUFFICES ASSUME IInv, NEW o \in Served
               PROVE  /\ DescriptorOf(o) \in Addresses /\ memory[DescriptorOf(o)] = o.path
                      /\ \A p \in Open : p # o => DescriptorOf(p) # DescriptorOf(o)
    BY DEF EachFdItsFile
  <2>1. o \in Open /\ DescriptorOf(o) = PrivateOf(o) /\ PrivateOf(o) \in Addresses
    BY DescriptorIs DEF Served
  <2>2. memory[PrivateOf(o)] = o.path
    BY <2>1 DEF IInv, EntryHasItsFile
  <2>3. ASSUME NEW p \in Open, p # o
        PROVE  DescriptorOf(p) # DescriptorOf(o)
    <3>1. PrivateOf(p) # PrivateOf(o)
      BY <2>1, <2>3 DEF IInv, EntryHasItsFile
    <3>2. DescriptorOf(p) = PrivateOf(p) \/ DescriptorOf(p) = NULL
      BY DescriptorIs
    <3> QED BY <2>1, <3>1, <3>2, DescriptorIs
  <2> QED BY <2>1, <2>2, <2>3
<1> QED BY <1>1, AlwaysIInv, PTL

(* Opens, seeks, reads and closes in any order: a read starts where the    *)
(* seeks on its own fd have left it, whoever else has the file open.       *)
THEOREM FileReadsFromItsPosition == Spec => []ReadsFromItsPosition
<1>1. IInv => ReadsFromItsPosition
  <2> SUFFICES ASSUME IInv, NEW o \in Served
               PROVE  /\ pos[DescriptorOf(o)] = sought[o.fd]
                      /\ sought[o.fd] # 0 => sought[o.fd] \in 1 .. FileSize[o.path] - 1
    BY DEF ReadsFromItsPosition
  <2>1. o \in Open /\ DescriptorOf(o) = PrivateOf(o)
    BY DescriptorIs DEF Served
  <2> QED BY <2>1 DEF IInv, EntryHasItsPosition
<1> QED BY <1>1, AlwaysIInv, PTL

(* As long as a slot is free, every FAT descriptor in memory is behind an  *)
(* fd that is open and served: what fclose fails to give back of the       *)
(* descriptors, the last one, it fails to only once the table has filled   *)
(* up.  The struct file_descriptor of a slot is not counted: it is never   *)
(* freed.                                                                  *)
THEOREM FileNothingLeaksUntilFull == Spec => []NothingLeaksUntilFull
<1>1. IInv => NothingLeaksUntilFull
  <2> SUFFICES ASSUME IInv, NEW i \in Slots, FreeSlot(i)
               PROVE  Allocated = {DescriptorOf(o) : o \in Open}
    BY DEF NothingLeaksUntilFull
  <2>1. Allocated = {PrivateOf(o) : o \in Open}
    BY DEF IInv, AllInTheTable
  <2>2. ASSUME NEW o \in Open PROVE DescriptorOf(o) = PrivateOf(o)
    <3>1. o.fd # Max
      <4> SUFFICES ASSUME o.fd = Max PROVE FALSE
        OBVIOUS
      <4>1. Max - 1 \in Slots /\ file_descriptors[Max - 1] # NULL
        BY DescriptorIs, TableAssumption DEF PrivateOf, Slots
      <4>2. i = Max - 1 \/ i < Max - 1
        BY TableAssumption DEF Slots
      <4> QED BY <4>1, <4>2 DEF IInv, FilledInOrder, FreeSlot
    <3> QED BY <3>1, DescriptorIs
  <2> QED BY <2>1, <2>2
<1> QED BY <1>1, AlwaysIInv, PTL
-----------------------------------------------------------------------------
(* The call of fopen, for every path, volume and way of allocations to     *)
(* fail.                                                                   *)
(*                                                                         *)
(* Between characters the parser stands behind a slash, whose rank among   *)
(* the slashes of the path is one more than the names it has linked; that  *)
(* makes the name in its hands the path's next field.  The walk holds the  *)
(* descriptor and one item, and marks of later parts are never its item's. *)

(* The slashes of a path p and its end, and how many of them lie up to k.  *)
Slashes(p) == {k \in 1 .. Len(p) + 1 : k = Len(p) + 1 \/ p[k] = "/"}
Rank(p, k) == Parser!Cardinality({j \in Slashes(p) : j <= k})

(* What Spelt is put together from.                                        *)
Nth(p, n) == CHOOSE k \in Slashes(p) : Parser!Cardinality({j \in Slashes(p) : j <= k}) = n
Field(p, n) == SubSeq(p, Nth(p, n) + 1, Nth(p, n + 1) - 1)
Empties(p) ==
  {Parser!Cardinality(Slashes(p))} \cup {n \in 1 .. Parser!Cardinality(Slashes(p)) - 1 : Field(p, n) = <<>>}

Characters == {filename[k] : k \in DOMAIN filename} \ {Parser!End, "NULL"}

(* The parser stands behind slash number k: it has linked k - 1 names.     *)
Behind(k) == k \in Slashes(filename) /\ Rank(filename, k) = Len(root.parts) + 1

(* The first names of the list are the first fields of the path.           *)
Begun ==
  /\ Parser!Legal(filename)
  /\ root # Parser!NULL /\ root.drive = filename[1]
  /\ root.parts \in Seq(Seq(Characters))
  /\ \A k \in 1 .. Len(root.parts) :
       /\ k < Parser!Cardinality(Slashes(filename))
       /\ Field(filename, k) # <<>> /\ root.parts[k] = Field(filename, k)

InPart ==
  \/ place > 1 /\ Behind(place - 1)
  \/ place = Len(filename) + 1 /\ Behind(place)

InName ==
  \/ /\ length < place - 1 /\ Behind(place - 1 - length)
     /\ \A k \in place - length .. place - 1 : k \notin Slashes(filename)
     /\ name # Parser!NoName =>
          /\ name \in Seq(Characters)
          /\ name = SubSeq(filename, place - length, place - 1)
  \/ /\ place = Len(filename) + 1 /\ Behind(place)
     /\ length = 0 /\ name \in {<<>>, Parser!NoName}

ParserInv ==
  /\ filename \in Seq(Characters)
  /\ parsing \in {"idle", "part", "char", "done"}
  /\ place \in Nat \ {0} /\ place <= Len(filename) + 1 /\ length \in Nat
  /\ root = Parser!NULL \/ Begun
  /\ parsing = "idle" => place = 1 /\ root = Parser!NULL /\ names = 0 /\ parts = 0 /\ ~ unparsed
  /\ parsing = "part" => Begun /\ InPart
  /\ parsing = "char" => Begun /\ InName /\ (name = Parser!NoName => unparsed)
  /\ Parser!ListIsPath
  /\ unparsed \in BOOLEAN
  /\ ~ unparsed =>
       /\ parts = Len(root.parts)
       /\ names = Len(root.parts) + (IF parsing = "char" THEN 1 ELSE 0)

(* What can be held for one part of a path, and what kzalloc(0) returns.   *)
MarkedBy(k) == {<<k, kind>> : kind \in {"item", "copy", "directory", "slots", "zero bytes"}}
ZeroBytes == Nat \X {"zero bytes"}

(* The walk holds its descriptor and the item it stands at.                *)
LookupInv ==
  /\ pc \in {"idle", "find", "opened", "undefined"}
  /\ current.type \in {"none", "broken", "hollow", "file", "directory"}
  /\ part \in Nat /\ current.part \in Nat
  /\ wild \subseteq ZeroBytes
  /\ pc = "idle" => allocated = {} /\ current = Lookup!NoItem
  /\ pc = "find" => current.part < part
  /\ pc \in {"find", "opened"} =>
       allocated = {Lookup!Descriptor} \cup Lookup!Objects(current, listing)

CallInv == ParserInv /\ LookupInv

-----------------------------------------------------------------------------
(* PathParser counts as this module does.                                  *)
LEMMA SameCardinality == \A S : Parser!Cardinality(S) = Cardinality(S)
BY DEF Parser!Cardinality, Cardinality, Parser!IsFiniteSet, IsFiniteSet

LEMMA SlashesOf ==
  ASSUME NEW S, NEW p \in Seq(S)
  PROVE  /\ Len(p) \in Nat /\ Slashes(p) \subseteq 1 .. Len(p) + 1 /\ Slashes(p) \subseteq Nat
         /\ Len(p) + 1 \in Slashes(p)
         /\ IsFiniteSet(Slashes(p))
         /\ \A k : IsFiniteSet({j \in Slashes(p) : j <= k}) /\ Rank(p, k) \in Nat
<1>1. Len(p) \in Nat
  BY LenProperties
<1>2. Slashes(p) \subseteq 1 .. Len(p) + 1 /\ Len(p) + 1 \in Slashes(p)
  BY <1>1 DEF Slashes
<1>3. IsFiniteSet(1 .. Len(p) + 1)
  BY <1>1, FS_Interval
<1>4. IsFiniteSet(Slashes(p))
  BY <1>2, <1>3, FS_Subset
<1>5. ASSUME NEW k PROVE IsFiniteSet({j \in Slashes(p) : j <= k}) /\ Rank(p, k) \in Nat
  <2> DEFINE upto == {j \in Slashes(p) : j <= k}
  <2>1. upto \subseteq Slashes(p)
    OBVIOUS
  <2>2. IsFiniteSet(upto)
    BY <2>1, <1>4, FS_Subset
  <2> QED BY <2>2, FS_CardinalityType, SameCardinality DEF Rank
<1>6. Slashes(p) \subseteq Nat
  BY <1>1, <1>2
<1> QED BY <1>1, <1>2, <1>4, <1>5, <1>6

(* One slash further the rank is one more.                                 *)
LEMMA RankNext ==
  ASSUME NEW S, NEW p \in Seq(S), NEW s \in Slashes(p), NEW t \in Slashes(p), s < t,
         \A k \in s + 1 .. t - 1 : k \notin Slashes(p)
  PROVE  Rank(p, t) = Rank(p, s) + 1
<1> DEFINE upto == {j \in Slashes(p) : j <= s}
<1>1. Slashes(p) \subseteq Nat /\ IsFiniteSet(upto)
  BY SlashesOf
<1>2. {j \in Slashes(p) : j <= t} = upto \cup {t}
  BY <1>1
<1>3. t \notin upto
  BY <1>1
<1>4. Cardinality(upto \cup {t}) = Cardinality(upto) + 1
  BY <1>1, <1>3, FS_AddElement
<1> QED BY <1>2, <1>4, SameCardinality DEF Rank

LEMMA RankGrows ==
  ASSUME NEW S, NEW p \in Seq(S), NEW s \in Slashes(p), NEW t \in Slashes(p), s < t
  PROVE  Rank(p, s) < Rank(p, t)
<1> DEFINE upto == {j \in Slashes(p) : j <= s}
           further == {j \in Slashes(p) : j <= t}
<1>1. Slashes(p) \subseteq Nat /\ IsFiniteSet(upto) /\ IsFiniteSet(further)
  BY SlashesOf
<1>2. t \notin upto /\ upto \cup {t} \subseteq further
  BY <1>1
<1>3. Cardinality(upto \cup {t}) = Cardinality(upto) + 1
  BY <1>1, <1>2, FS_AddElement
<1>4. Cardinality(upto \cup {t}) <= Cardinality(further)
  BY <1>1, <1>2, FS_Subset
<1>5. Cardinality(upto) \in Nat /\ Cardinality(further) \in Nat
  BY <1>1, FS_CardinalityType
<1> HIDE DEF upto, further
<1>6. Cardinality(upto) < Cardinality(further)
  BY <1>3, <1>4, <1>5
<1> QED BY <1>6, SameCardinality DEF Rank, upto, further

(* A slash is found by its rank, and the last one, the end, is as many as  *)
(* there are.                                                              *)
LEMMA NthIs ==
  ASSUME NEW S, NEW p \in Seq(S), NEW s \in Slashes(p)
  PROVE  Nth(p, Rank(p, s)) = s
<1> DEFINE r == Rank(p, s)
           Right(k) == k \in Slashes(p) /\ Rank(p, k) = r
<1>1. \A k : Right(k) => k = s
  <2> SUFFICES ASSUME NEW k \in Slashes(p), Rank(p, k) = Rank(p, s), k # s PROVE FALSE
    OBVIOUS
  <2>1. Slashes(p) \subseteq Nat /\ Rank(p, k) \in Nat /\ Rank(p, s) \in Nat
    BY SlashesOf
  <2>2. k < s \/ s < k
    BY <2>1
  <2> QED BY <2>1, <2>2, RankGrows
<1>2. Nth(p, r) \in Slashes(p) /\ Rank(p, Nth(p, r)) = r
  BY DEF Nth, Rank
<1> QED BY <1>1, <1>2

LEMMA RankOfEnd ==
  ASSUME NEW S, NEW p \in Seq(S), NEW s \in Slashes(p)
  PROVE  /\ Rank(p, Len(p) + 1) = Parser!Cardinality(Slashes(p))
         /\ Parser!Cardinality(Slashes(p)) \in Nat
         /\ s # Len(p) + 1 => Rank(p, s) < Parser!Cardinality(Slashes(p))
<1>1. /\ Len(p) \in Nat /\ Slashes(p) \subseteq 1 .. Len(p) + 1
      /\ Len(p) + 1 \in Slashes(p) /\ Rank(p, Len(p) + 1) \in Nat
  BY SlashesOf
<1>2. {j \in Slashes(p) : j <= Len(p) + 1} = Slashes(p)
  BY <1>1
<1>3. Rank(p, Len(p) + 1) = Parser!Cardinality(Slashes(p))
  BY <1>2 DEF Rank
<1>4. s # Len(p) + 1 => s < Len(p) + 1
  BY <1>1
<1> QED BY <1>1, <1>3, <1>4, RankGrows

(* A nonempty set of numbers has a least one.                              *)
LEMMA LeastExists ==
  ASSUME NEW n \in Nat, NEW S \in SUBSET (0 .. n - 1), S # {}
  PROVE  \E x \in S : \A y \in S : x <= y
<1> DEFINE Down(x) == 0 .. x
           T == {Down(x) : x \in S}
<1>1. IsFiniteSet(0 .. n - 1)
  BY FS_Interval
<1>2. IsWellFoundedOn(StrictSubsetOrdering(0 .. n - 1), FiniteSubsetsOf(0 .. n - 1))
  BY FS_StrictSubsetOrderingWellFounded
<1>3. T \subseteq FiniteSubsetsOf(0 .. n - 1) /\ T # {}
  <2>1. FiniteSubsetsOf(0 .. n - 1) = SUBSET (0 .. n - 1)
    BY <1>1, FS_FiniteSubsetsOfFinite
  <2>2. \A x \in S : Down(x) \in SUBSET (0 .. n - 1)
    OBVIOUS
  <2>3. T \subseteq SUBSET (0 .. n - 1)
    BY <2>2
  <2>4. PICK x : x \in S
    OBVIOUS
  <2>5. Down(x) \in T
    BY <2>4
  <2> QED BY <2>1, <2>3, <2>5
<1>4. PICK d \in T : \A e \in T : ~ (<<e, d>> \in StrictSubsetOrdering(0 .. n - 1))
  BY <1>2, <1>3, WFMin
<1>5. PICK x \in S : d = Down(x)
  OBVIOUS
<1>6. \A y \in S : x <= y
  <2> SUFFICES ASSUME NEW y \in S, y < x PROVE FALSE
    OBVIOUS
  <2>1. Down(y) \in T /\ Down(y) \subseteq Down(x) /\ Down(y) # Down(x)
    OBVIOUS
  <2>2. Down(y) \in SUBSET (0 .. n - 1) /\ Down(x) \in SUBSET (0 .. n - 1)
    OBVIOUS
  <2> QED BY <1>4, <1>5, <2>1, <2>2 DEF StrictSubsetOrdering
<1> QED BY <1>6

(* What the names before the first empty one say of the path's list.       *)
LEMMA SpeltIs ==
  ASSUME NEW S, NEW p \in Seq(S), NEW T, NEW list \in Seq(T),
         \A k \in 1 .. Len(list) :
           k < Parser!Cardinality(Slashes(p)) /\ Field(p, k) # <<>> /\ list[k] = Field(p, k)
  PROVE  /\ Parser!IsPrefix(list, Parser!Spelt(p))
         /\ \/ Len(list) + 1 = Parser!Cardinality(Slashes(p))
            \/ Len(list) + 1 < Parser!Cardinality(Slashes(p)) /\ Field(p, Len(list) + 1) = <<>>
            => Parser!Spelt(p) = list
<1> DEFINE m == Len(list)
           c == Parser!Cardinality(Slashes(p))
           first == CHOOSE n \in Empties(p) : \A e \in Empties(p) : n <= e
           all == [k \in 1 .. first - 1 |-> Field(p, k)]
<1>1. Parser!Spelt(p) = all
  BY DEF Parser!Spelt, Empties, Slashes, Field, Nth
<1>2. c \in Nat /\ m \in Nat
  BY SlashesOf, RankOfEnd, LenProperties
<1> HIDE DEF c, m
<1>3. Empties(p) = {c} \cup {n \in 1 .. c - 1 : Field(p, n) = <<>>}
  BY DEF Empties, c
<1>4. Empties(p) \in SUBSET (0 .. (c + 1) - 1) /\ Empties(p) # {}
  BY <1>2, <1>3
<1>5. \E n \in Empties(p) : \A e \in Empties(p) : n <= e
  <2>1. c + 1 \in Nat
    BY <1>2
  <2> HIDE DEF c
  <2> QED BY <2>1, <1>4, LeastExists
<1>6. first \in Empties(p) /\ \A e \in Empties(p) : first <= e
  BY <1>5
<1> HIDE DEF first
<1>7. first \in Nat /\ m < first
  <2>1. \A k \in 1 .. m : k < c /\ Field(p, k) # <<>>
    BY DEF c, m
  <2>2. \A k \in 1 .. m : k \notin Empties(p)
    BY <2>1, <1>2, <1>3
  <2>3. first # 0
    <3>1. Rank(p, Len(p) + 1) = c
      BY SlashesOf, RankOfEnd DEF c
    <3>2. c # 0
      <4> DEFINE upto == {j \in Slashes(p) : j <= Len(p) + 1}
      <4>1. Len(p) + 1 \in upto /\ IsFiniteSet(upto)
        <5>1. Len(p) \in Nat /\ Len(p) + 1 \in Slashes(p)
          BY SlashesOf
        <5>2. \A k : IsFiniteSet({j \in Slashes(p) : j <= k})
          BY SlashesOf
        <5>3. Len(p) + 1 \in upto
          BY <5>1
        <5> QED BY <5>2, <5>3, Zenon
      <4>2. Cardinality(upto) # 0
        BY <4>1, FS_EmptySet
      <4> QED BY <4>2, <3>1, SameCardinality DEF Rank
    <3> QED BY <3>2, <1>2, <1>3, <1>6
  <2> QED BY <2>2, <2>3, <1>2, <1>4, <1>6
<1>8. list = [k \in 1 .. m |-> Field(p, k)]
  BY LenProperties DEF m
<1>9. \A n \in Nat : Len([k \in 1 .. n |-> Field(p, k)]) = n
  OBVIOUS
<1>10. Parser!IsPrefix(list, all)
  <2>1. Len(all) = first - 1 /\ m <= first - 1 /\ m = Len(list)
    BY <1>2, <1>7, <1>9 DEF m
  <2>2. SubSeq(list, 1, m) = list
    BY SubSeqFull DEF m
  <2>3. SubSeq(all, 1, m) = [k \in 1 .. m |-> Field(p, k)]
    BY <1>2, <1>7
  <2> QED BY <1>8, <2>1, <2>2, <2>3 DEF Parser!IsPrefix
<1>11. ASSUME m + 1 = c \/ (m + 1 < c /\ Field(p, m + 1) = <<>>)
       PROVE  all = list
  <2>1. m + 1 \in Empties(p)
    BY <1>11, <1>2, <1>3
  <2>2. first = m + 1
    BY <2>1, <1>2, <1>6, <1>7
  <2> QED BY <2>2, <1>2, <1>8
<1> QED BY <1>1, <1>10, <1>11 DEF m, c

(* Between two slashes lies a field.                                       *)
LEMMA FieldIs ==
  ASSUME NEW S, NEW p \in Seq(S), NEW s \in Slashes(p), NEW t \in Slashes(p), s < t,
         \A k \in s + 1 .. t - 1 : k \notin Slashes(p)
  PROVE  /\ Field(p, Rank(p, s)) = SubSeq(p, s + 1, t - 1)
         /\ Rank(p, t) = Rank(p, s) + 1
         /\ Rank(p, s) < Parser!Cardinality(Slashes(p))
<1>1. Rank(p, t) = Rank(p, s) + 1
  BY RankNext
<1>2. Nth(p, Rank(p, s)) = s /\ Nth(p, Rank(p, s) + 1) = t
  BY <1>1, NthIs
<1>3. s # Len(p) + 1
  BY SlashesOf
<1> QED BY <1>1, <1>2, <1>3, RankOfEnd DEF Field

(* The code's check of a path and its length is the reference's.           *)
LEMMA LegalIs ==
  ASSUME NEW S, NEW p \in Seq(S)
  PROVE  Parser!Legal(p) <=> Len(p) <= NUTSOS_MAX_PATH /\ Parser!pathparser_is_path_valid(p)
<1>1. Len(p) \in Nat
  BY LenProperties
<1>2. ASSUME NEW d
      PROVE  Parser!IsPrefix(<<d, ":", "/">>, p)
               <=> Len(p) >= 3 /\ p[1] = d /\ p[2] = ":" /\ p[3] = "/"
  <2> DEFINE three == <<d, ":", "/">>
             T == {d, ":", "/"}
  <2>1. three \in Seq(T)
    OBVIOUS
  <2>2. Len(three) = 3 /\ three[1] = d /\ three[2] = ":" /\ three[3] = "/"
    OBVIOUS
  <2> HIDE DEF three, T
  <2>3. SubSeq(three, 1, 3) = three
    BY <2>1, <2>2, SubSeqFull
  <2>4. ASSUME Len(p) >= 3
        PROVE  /\ SubSeq(p, 1, 3) \in Seq(S) /\ Len(SubSeq(p, 1, 3)) = 3
               /\ \A k \in 1 .. 3 : SubSeq(p, 1, 3)[k] = p[k]
    <3>1. \A k \in 1 .. 3 : p[k] \in S
      BY <1>1, <2>4, ElementOfSeq
    <3> QED BY <3>1, SubSeqProperties
  <2>5. ASSUME Len(p) >= 3, p[1] = d, p[2] = ":", p[3] = "/"
        PROVE  three = SubSeq(p, 1, 3)
    <3>1. \A k \in 1 .. 3 : SubSeq(p, 1, 3)[k] = three[k]
      BY <2>2, <2>4, <2>5
    <3> QED BY <3>1, <2>1, <2>2, <2>4, <2>5, SeqEqual
  <2>6. ASSUME Len(p) >= 3, three = SubSeq(p, 1, 3)
        PROVE  p[1] = d /\ p[2] = ":" /\ p[3] = "/"
    BY <2>2, <2>4, <2>6
  <2> QED BY <1>1, <2>2, <2>3, <2>5, <2>6 DEF Parser!IsPrefix, three
<1> QED BY <1>2 DEF Parser!Legal, Parser!pathparser_is_path_valid

(* The slash behind the drive is the first.                                *)
LEMMA FirstSlash ==
  ASSUME NEW S, NEW p \in Seq(S), Parser!pathparser_is_path_valid(p)
  PROVE  3 \in Slashes(p) /\ Rank(p, 3) = 1
<1>1. Len(p) \in Nat /\ Len(p) >= 3 /\ p[1] # "/" /\ p[2] # "/" /\ p[3] = "/"
  BY LenProperties, FopenAssumption DEF Parser!pathparser_is_path_valid
<1>2. 3 \in Slashes(p) /\ {j \in Slashes(p) : j <= 3} = {3}
  BY <1>1 DEF Slashes
<1>3. Cardinality({3}) = 1
  BY FS_Singleton
<1> QED BY <1>2, <1>3, SameCardinality DEF Rank

(* pathparser_parse accepts a path and stands behind its first slash.      *)
LEMMA ParsePathInv ==
  ASSUME ParserInv, NEW p \in Inputs, ParsePath(p)
  PROVE  ParserInv'
<1>1. /\ root = Parser!NULL /\ names = 0 /\ parts = 0 /\ place = 1 /\ ~ unparsed
      /\ length \in Nat /\ filename' = p /\ length' = length /\ names' = 0 /\ parts' = 0
  BY DEF ParserInv, ParsePath, Parser!pathparser_parse
<1>2. filename' \in Seq(Characters') /\ Len(filename') \in Nat
  BY <1>1, FopenAssumption, LenProperties DEF Characters
<1>3. Parser!NULL.parts = <<>> /\ Len(<<>>) = 0
  BY DEF Parser!NULL
<1>4. CASE Len(p) > NUTSOS_MAX_PATH \/ ~ Parser!pathparser_is_path_valid(p)
  <2>1. parsing' = "done" /\ place' = 1 /\ root' = Parser!NULL /\ ~ unparsed' /\ unparsed' \in BOOLEAN
    BY <1>1, <1>4 DEF ParserInv, ParsePath, Parser!pathparser_parse
  <2>2. ~ Parser!Legal(filename')
    BY <1>1, <1>2, <1>4, LegalIs, FopenAssumption
  <2>3. Parser!ListIsPath'
    BY <2>1, <2>2 DEF Parser!ListIsPath
  <2> QED BY <1>1, <1>2, <1>3, <2>1, <2>3 DEF ParserInv
<1>5. CASE ~ (Len(p) > NUTSOS_MAX_PATH \/ ~ Parser!pathparser_is_path_valid(p)) /\ unparsed'
  <2>1. parsing' = "done" /\ place' = 1 /\ root' = Parser!NULL /\ unparsed' \in BOOLEAN
    BY <1>1, <1>5 DEF ParserInv, ParsePath, Parser!pathparser_parse
  <2>2. Parser!ListIsPath'
    BY <2>1, <1>5 DEF Parser!ListIsPath
  <2> QED BY <1>1, <1>2, <1>3, <1>5, <2>1, <2>2 DEF ParserInv
<1>6. CASE ~ (Len(p) > NUTSOS_MAX_PATH \/ ~ Parser!pathparser_is_path_valid(p)) /\ ~ unparsed'
  <2>1. /\ parsing' = "part" /\ place' = 4 /\ root' = [drive |-> p[1], parts |-> <<>>]
        /\ unparsed' \in BOOLEAN
    BY <1>1, <1>6 DEF ParserInv, ParsePath, Parser!pathparser_parse
  <2>2. Parser!Legal(filename') /\ 3 \in Slashes(filename') /\ Rank(filename', 3) = 1
        /\ Len(p) >= 3 /\ p[1] \in Digits
    BY <1>1, <1>2, <1>6, LegalIs, FirstSlash, FopenAssumption DEF Parser!pathparser_is_path_valid
  <2>3. root' # Parser!NULL
    BY <2>1, <2>2, FopenAssumption
  <2>4. root'.parts = <<>> /\ Len(root'.parts) = 0 /\ root'.drive = filename'[1]
    BY <1>1, <2>1
  <2>5. Begun'
    BY <2>2, <2>3, <2>4, EmptySeq DEF Begun
  <2>6. InPart'
    BY <2>1, <2>2, <2>4 DEF InPart, Behind
  <2>7. Parser!ListIsPath'
    BY <2>1 DEF Parser!ListIsPath
  <2> QED BY <1>1, <1>2, <1>6, <2>1, <2>2, <2>4, <2>5, <2>6, <2>7 DEF ParserInv
<1> QED BY <1>4, <1>5, <1>6

(* What stands at a place of the path.                                     *)
LEMMA AtPlace ==
  ASSUME ParserInv
  PROVE  /\ Len(filename) \in Nat /\ place \in 1 .. Len(filename) + 1
         /\ Parser!At(place) \in {"/", Parser!End} <=> place \in Slashes(filename)
         /\ Parser!At(place) = "/" => place <= Len(filename)
         /\ Parser!At(place) # "/" /\ place \in Slashes(filename) => place = Len(filename) + 1
         /\ place \notin Slashes(filename) => /\ place <= Len(filename)
                                              /\ Parser!At(place) = filename[place]
                                              /\ filename[place] \in Characters
<1>1. Len(filename) \in Nat /\ place \in 1 .. Len(filename) + 1
  BY LenProperties DEF ParserInv
<1>2. \A k \in 1 .. Len(filename) : filename[k] \in Characters /\ filename[k] # Parser!End
  BY ElementOfSeq DEF ParserInv, Characters
<1>3. "/" # Parser!End
  BY DEF Parser!End
<1> QED BY <1>1, <1>2, <1>3 DEF Parser!At, Slashes

(* A name begins behind the slash.                                         *)
LEMMA NextPartInv ==
  ASSUME ParserInv, Parser!NextPart
  PROVE  ParserInv'
<1>1. /\ parsing = "part" /\ parsing' = "char" /\ length' = 0
      /\ UNCHANGED <<filename, place, root, parts>>
      /\ \/ name' = <<>> /\ names' = names + 1 /\ unparsed' = unparsed
         \/ name' = Parser!NoName /\ unparsed' = TRUE /\ names' = names
  BY DEF Parser!NextPart
<1>2. Begun /\ InPart /\ place \in Nat \ {0}
  BY <1>1 DEF ParserInv
<1>3. Begun'
  BY <1>1, <1>2 DEF Begun, Characters
<1>4. <<>> \in Seq(Characters') /\ Parser!NoName # <<>>
  BY EmptySeq DEF Parser!NoName
<1>5. SubSeq(filename, place, place - 1) = <<>>
  BY <1>2, SubSeqEmpty
<1>6. InName'
  <2>1. CASE place > 1 /\ Behind(place - 1)
    <3>1. Behind(place - 1)'
      BY <1>1, <2>1 DEF Behind
    <3>2. length' < place' - 1 /\ place' - 1 - length' = place - 1 /\ place' - length' = place
      BY <1>1, <1>2, <2>1
    <3>3. \A k \in place' - length' .. place' - 1 : k \notin Slashes(filename')
      BY <1>1, <1>2, <3>2
    <3>4. name' # Parser!NoName' => name' = <<>>
      BY <1>1 DEF Parser!NoName
    <3>5. SubSeq(filename', place' - length', place' - 1) = <<>>
      BY <1>1, <1>5, <3>2
    <3>6. Behind(place - 1 - length)'
      BY <1>1, <3>1, <3>2
    <3> QED BY <1>4, <3>2, <3>3, <3>4, <3>5, <3>6 DEF InName
  <2>2. CASE place = Len(filename) + 1 /\ Behind(place)
    <3>1. Behind(place)'
      BY <1>1, <2>2 DEF Behind
    <3> QED BY <1>1, <2>2, <3>1 DEF InName, Parser!NoName
  <2> QED BY <1>2, <2>1, <2>2 DEF InPart
<1>7. Parser!ListIsPath'
  BY <1>1 DEF Parser!ListIsPath
<1>8. Len(root.parts) \in Nat
  BY <1>2, LenProperties DEF Begun
<1>9. /\ unparsed' \in BOOLEAN /\ (name' = Parser!NoName' => unparsed')
      /\ ~ unparsed' => parts' = Len(root'.parts) /\ names' = Len(root'.parts) + 1
  <2>1. CASE name' = <<>> /\ names' = names + 1 /\ unparsed' = unparsed
    <3>1. name' # Parser!NoName'
      BY <2>1, <1>4 DEF Parser!NoName
    <3>2. unparsed \in BOOLEAN /\ (~ unparsed => parts = Len(root.parts) /\ names = Len(root.parts))
      BY <1>1, <1>8 DEF ParserInv
    <3> QED BY <1>1, <2>1, <3>1, <3>2
  <2>2. CASE unparsed' = TRUE
    BY <2>2
  <2> QED BY <1>1, <2>1, <2>2
<1>10. filename' \in Seq(Characters') /\ place' \in Nat \ {0} /\ place' <= Len(filename') + 1
  BY <1>1 DEF ParserInv, Characters
<1> QED BY <1>1, <1>3, <1>6, <1>7, <1>9, <1>10 DEF ParserInv

(* A character is copied: the name grows with the place.                   *)
LEMMA CopyInv ==
  ASSUME ParserInv, Parser!Copy
  PROVE  ParserInv'
<1>1. /\ parsing = "char" /\ parsing' = "char" /\ Parser!At(place) \notin {"/", Parser!End}
      /\ place' = place + 1 /\ length' = length + 1
      /\ name' = IF name = Parser!NoName THEN Parser!NoName ELSE Append(name, Parser!At(place))
      /\ UNCHANGED <<filename, root, names, parts, unparsed>>
  BY DEF Parser!Copy
<1>2. /\ Begun /\ InName /\ (name = Parser!NoName => unparsed)
      /\ place \in Nat \ {0} /\ length \in Nat /\ filename \in Seq(Characters)
  BY <1>1 DEF ParserInv
<1>3. /\ place \notin Slashes(filename) /\ place <= Len(filename)
      /\ Parser!At(place) = filename[place] /\ filename[place] \in Characters
      /\ Len(filename) \in Nat
  BY <1>1, AtPlace
<1>4. Begun'
  BY <1>1, <1>2 DEF Begun, Characters
<1>5. /\ length < place - 1 /\ Behind(place - 1 - length)
      /\ \A k \in place - length .. place - 1 : k \notin Slashes(filename)
      /\ name # Parser!NoName =>
           name \in Seq(Characters) /\ name = SubSeq(filename, place - length, place - 1)
  BY <1>2, <1>3 DEF InName
<1>6. ASSUME name # Parser!NoName
      PROVE  /\ name' \in Seq(Characters) /\ name' # Parser!NoName
             /\ name' = SubSeq(filename, place - length, place)
  <2>1. name' = Append(name, filename[place]) /\ name \in Seq(Characters)
    BY <1>1, <1>3, <1>5, <1>6
  <2>2. name' \in Seq(Characters)
    BY <2>1, <1>3, AppendProperties
  <2>3. Parser!NoName \notin Seq(Characters)
    <3>1. Len(Parser!NoName) = 1 /\ Parser!NoName[1] = "NULL"
      BY DEF Parser!NoName
    <3>2. "NULL" \notin Characters
      BY DEF Characters
    <3> QED BY <3>1, <3>2, ElementOfSeq
  <2>4. place - length \in 1 .. Len(filename) /\ place \in place - length .. Len(filename)
    BY <1>2, <1>3, <1>5
  <2>5. SubSeq(filename, place - length, place)
          = SubSeq(filename, place - length, place - 1) \o <<filename[place]>>
    BY <1>2, <2>4, SubSeqRecursiveSecond
  <2>6. Append(name, filename[place]) = name \o <<filename[place]>>
    BY <2>1, <1>3, AppendIsConcat
  <2> QED BY <2>1, <2>2, <2>3, <2>5, <2>6, <1>5, <1>6
<1>7. InName'
  <2>1. /\ length' < place' - 1 /\ place' - 1 - length' = place - 1 - length
        /\ place' - length' = place - length /\ place' - 1 = place
    BY <1>1, <1>2, <1>5
  <2>2. Behind(place - 1 - length)'
    BY <2>1, <1>1, <1>5 DEF Behind
  <2>3. \A k \in place' - length' .. place' - 1 : k \notin Slashes(filename')
    BY <2>1, <1>1, <1>2, <1>3, <1>5
  <2>4. name' # Parser!NoName' => /\ name' \in Seq(Characters')
                                  /\ name' = SubSeq(filename', place' - length', place' - 1)
    <3>1. name' # Parser!NoName' => name # Parser!NoName
      BY <1>1 DEF Parser!NoName
    <3> QED BY <3>1, <2>1, <1>1, <1>6 DEF Characters
  <2> QED BY <2>1, <2>2, <2>3, <2>4 DEF InName
<1>8. name' = Parser!NoName' => unparsed'
  BY <1>1, <1>2, <1>6 DEF Parser!NoName
<1>9. Parser!ListIsPath'
  BY <1>1 DEF Parser!ListIsPath
<1>10. place' \in Nat \ {0} /\ place' <= Len(filename') + 1 /\ length' \in Nat
  BY <1>1, <1>2, <1>3
<1> QED BY <1>1, <1>2, <1>4, <1>7, <1>8, <1>9, <1>10 DEF ParserInv, Characters

(* What a list that has begun says, whatever follows.                      *)
LEMMA BegunIs ==
  ASSUME Begun, filename \in Seq(Characters)
  PROVE  /\ Parser!Legal(filename) /\ root.drive = filename[1] /\ Len(root.parts) \in Nat
         /\ Parser!IsPrefix(root.parts, Parser!Spelt(filename))
         /\ \/ Len(root.parts) + 1 = Parser!Cardinality(Slashes(filename))
            \/ /\ Len(root.parts) + 1 < Parser!Cardinality(Slashes(filename))
               /\ Field(filename, Len(root.parts) + 1) = <<>>
            => root.parts = Parser!Spelt(filename)
<1>1. root.parts \in Seq(Seq(Characters)) /\ Len(root.parts) \in Nat
  BY LenProperties DEF Begun
<1>2. \A k \in 1 .. Len(root.parts) :
        /\ k < Parser!Cardinality(Slashes(filename))
        /\ Field(filename, k) # <<>> /\ root.parts[k] = Field(filename, k)
  BY DEF Begun
<1> QED BY <1>1, <1>2, SpeltIs DEF Begun

(* Where a name without a character ends, the path's list ends.            *)
LEMMA EmptyInv ==
  ASSUME ParserInv, Parser!Empty
  PROVE  ParserInv'
<1>1. /\ parsing = "char" /\ parsing' = "done" /\ Parser!At(place) \in {"/", Parser!End}
      /\ length = 0 \/ name = Parser!NoName
      /\ place' = place + Parser!Slash
      /\ names' = IF name = Parser!NoName THEN names ELSE names - 1
      /\ UNCHANGED <<filename, length, root, parts, unparsed>>
  BY DEF Parser!Empty
<1>2. /\ Begun /\ InName /\ (name = Parser!NoName => unparsed) /\ unparsed \in BOOLEAN
      /\ place \in Nat \ {0} /\ length \in Nat /\ filename \in Seq(Characters)
  BY <1>1 DEF ParserInv
<1>3. place \in Slashes(filename) /\ Len(filename) \in Nat /\ place <= Len(filename) + 1
  BY <1>1, AtPlace
<1>4. place' \in Nat \ {0} /\ place' <= Len(filename') + 1
  BY <1>1, <1>2, <1>3, AtPlace DEF Parser!Slash
<1>5. ASSUME ~ unparsed PROVE root.parts = Parser!Spelt(filename)
  <2>1. length = 0
    BY <1>1, <1>2, <1>5
  <2>2. CASE Behind(place - 1)
    <3>1. place - 1 \in Slashes(filename) /\ Rank(filename, place - 1) = Len(root.parts) + 1
      BY <2>2 DEF Behind
    <3> DEFINE s == place - 1
    <3>2. s < place /\ \A k \in s + 1 .. place - 1 : k \notin Slashes(filename)
      BY <1>2
    <3>3. /\ Field(filename, Rank(filename, s)) = SubSeq(filename, s + 1, place - 1)
          /\ Rank(filename, s) < Parser!Cardinality(Slashes(filename))
      BY <3>1, <3>2, <1>2, <1>3, FieldIs
    <3>4. SubSeq(filename, s + 1, place - 1) = <<>>
      BY <1>2, SubSeqEmpty
    <3> QED BY <3>1, <3>3, <3>4, <1>2, BegunIs
  <2>3. CASE place = Len(filename) + 1 /\ Behind(place)
    BY <2>3, <1>2, <1>3, BegunIs, RankOfEnd DEF Behind
  <2> QED BY <1>2, <2>1, <2>2, <2>3 DEF InName
<1>6. Parser!ListIsPath'
  BY <1>1, <1>2, <1>5, BegunIs DEF Parser!ListIsPath, Begun, Parser!NULL
<1>7. ~ unparsed' => parts' = Len(root'.parts) /\ names' = Len(root'.parts)
  <2>1. Len(root.parts) \in Nat
    BY <1>2, BegunIs
  <2>2. ~ unparsed => name # Parser!NoName
    BY <1>2
  <2>3. ~ unparsed => parts = Len(root.parts) /\ names = Len(root.parts) + 1
    BY <1>1 DEF ParserInv
  <2> QED BY <1>1, <2>1, <2>2, <2>3
<1>8. Begun'
  BY <1>1, <1>2 DEF Begun, Characters
<1> QED BY <1>1, <1>2, <1>4, <1>6, <1>7, <1>8 DEF ParserInv, Characters

(* No part for the name: what has been linked is all there is.             *)
LEMMA LostInv ==
  ASSUME ParserInv, Parser!Lost
  PROVE  ParserInv'
<1>1. /\ parsing = "char" /\ parsing' = "done" /\ unparsed' = TRUE
      /\ place' = place + Parser!Slash
      /\ UNCHANGED <<filename, length, root, names, parts>>
  BY DEF Parser!Lost
<1>2. Begun /\ place \in Nat \ {0} /\ length \in Nat /\ filename \in Seq(Characters)
  BY <1>1 DEF ParserInv
<1>3. place' \in Nat \ {0} /\ place' <= Len(filename') + 1
  BY <1>1, <1>2, AtPlace DEF Parser!Slash
<1>4. Parser!ListIsPath'
  BY <1>1, <1>2, BegunIs DEF Parser!ListIsPath
<1>5. Begun'
  BY <1>1, <1>2 DEF Begun, Characters
<1> QED BY <1>1, <1>2, <1>3, <1>4, <1>5 DEF ParserInv, Characters

(* A name is linked, and it is the field between the last two slashes.     *)
LEMMA LinkedInv ==
  ASSUME ParserInv, Parser!Linked
  PROVE  ParserInv'
<1>1. /\ parsing = "char" /\ parsing' = "part" /\ Parser!At(place) \in {"/", Parser!End}
      /\ length > 0 /\ name # Parser!NoName
      /\ place' = place + Parser!Slash
      /\ root' = [root EXCEPT !.parts = Append(@, name)]
      /\ parts' = parts + 1
      /\ UNCHANGED <<filename, length, names, unparsed>>
  BY DEF Parser!Linked
<1>2. /\ Begun /\ InName /\ unparsed \in BOOLEAN
      /\ place \in Nat \ {0} /\ length \in Nat /\ filename \in Seq(Characters)
  BY <1>1 DEF ParserInv
<1>3. place \in Slashes(filename) /\ Len(filename) \in Nat /\ place <= Len(filename) + 1
  BY <1>1, AtPlace
<1> DEFINE s == place - 1 - length
           m == Len(root.parts)
<1>4. /\ s < place /\ s \in Nat /\ s + 1 = place - length
      /\ s \in Slashes(filename) /\ Rank(filename, s) = m + 1
      /\ \A k \in s + 1 .. place - 1 : k \notin Slashes(filename)
      /\ name \in Seq(Characters) /\ name = SubSeq(filename, s + 1, place - 1)
  <2>1. s + 1 = place - length
    BY <1>2
  <2>2. /\ length < place - 1 /\ Behind(s)
        /\ \A k \in place - length .. place - 1 : k \notin Slashes(filename)
        /\ name \in Seq(Characters) /\ name = SubSeq(filename, place - length, place - 1)
    BY <1>1, <1>2 DEF InName
  <2>3. s < place /\ s \in Nat
    BY <2>2, <1>2
  <2> HIDE DEF s
  <2> QED BY <2>1, <2>2, <2>3 DEF Behind, m
<1>5. /\ Field(filename, m + 1) = name
      /\ Rank(filename, place) = m + 2
      /\ m + 1 < Parser!Cardinality(Slashes(filename)) /\ m \in Nat
  <2>1. m \in Nat
    BY <1>2, BegunIs
  <2>2. /\ Field(filename, Rank(filename, s)) = SubSeq(filename, s + 1, place - 1)
        /\ Rank(filename, place) = Rank(filename, s) + 1
        /\ Rank(filename, s) < Parser!Cardinality(Slashes(filename))
    BY <1>2, <1>3, <1>4, FieldIs
  <2> QED BY <1>4, <2>1, <2>2
<1>6. name # <<>>
  <2> DEFINE from == s + 1
             to == place - 1
  <2>1. \A k \in from .. to : filename[k] \in Characters
    BY <1>2, <1>3, <1>4, ElementOfSeq
  <2>2. from \in Int /\ to \in Int /\ from <= to /\ to - from + 1 = length
    <3>1. s = place - 1 - length /\ length >= 1
      BY <1>1, <1>2
    <3> HIDE DEF s
    <3> QED BY <3>1, <1>2, <1>4
  <2>3. name = SubSeq(filename, from, to)
    BY <1>4
  <2> HIDE DEF from, to
  <2>4. Len(name) = to - from + 1
    BY <2>1, <2>2, <2>3, SubSeqProperties
  <2>5. Len(name) = length
    BY <2>2, <2>4
  <2> QED BY <2>5, <1>1, EmptySeq
<1> HIDE DEF s, m
<1>7. /\ root'.parts = Append(root.parts, name) /\ root'.drive = root.drive
      /\ root'.parts \in Seq(Seq(Characters)) /\ Len(root'.parts) = m + 1
      /\ root'.parts[m + 1] = name
      /\ \A k \in 1 .. m : root'.parts[k] = root.parts[k]
  <2>1. root' = [root EXCEPT !.parts = Append(root.parts, name)] /\ root.parts \in Seq(Seq(Characters))
    BY <1>1, <1>2 DEF Begun
  <2>2. root'.parts = Append(root.parts, name) /\ root'.drive = root.drive
    BY <2>1
  <2>3. name \in Seq(Characters)
    BY <1>4
  <2>4. /\ Append(root.parts, name) \in Seq(Seq(Characters))
        /\ Len(Append(root.parts, name)) = Len(root.parts) + 1
        /\ Append(root.parts, name)[Len(root.parts) + 1] = name
        /\ \A k \in 1 .. Len(root.parts) : Append(root.parts, name)[k] = root.parts[k]
    BY <2>1, <2>3, AppendProperties
  <2> QED BY <2>2, <2>4 DEF m
<1>8. Begun'
  <2>1. root' # Parser!NULL'
    BY <1>5, <1>7, EmptySeq DEF Parser!NULL
  <2>2. \A k \in 1 .. m + 1 :
          /\ k < Parser!Cardinality(Slashes(filename))
          /\ Field(filename, k) # <<>> /\ root'.parts[k] = Field(filename, k)
    <3> SUFFICES ASSUME NEW k \in 1 .. m + 1
                 PROVE  /\ k < Parser!Cardinality(Slashes(filename))
                        /\ Field(filename, k) # <<>> /\ root'.parts[k] = Field(filename, k)
      OBVIOUS
    <3>1. CASE k = m + 1
      BY <3>1, <1>5, <1>6, <1>7
    <3>2. CASE k \in 1 .. m
      BY <3>2, <1>2, <1>7 DEF Begun, m
    <3> QED BY <3>1, <3>2, <1>5
  <2>3. /\ Parser!Legal(filename') /\ root'.drive = filename'[1]
        /\ root'.parts \in Seq(Seq(Characters'))
    BY <1>1, <1>2, <1>7 DEF Begun, Characters
  <2>4. \A k \in 1 .. Len(root'.parts) :
          /\ k < Parser!Cardinality(Slashes(filename'))
          /\ Field(filename', k) # <<>> /\ root'.parts[k] = Field(filename', k)
    BY <2>2, <1>1, <1>7
  <2> QED BY <2>1, <2>3, <2>4 DEF Begun
<1>9. place' \in Nat \ {0} /\ place' <= Len(filename') + 1 /\ InPart'
  <2>1. CASE Parser!At(place) = "/"
    <3>1. place' = place + 1 /\ place <= Len(filename)
      BY <2>1, <1>1, AtPlace DEF Parser!Slash
    <3>2. Behind(place - 1)'
      <4>1. place' - 1 = place
        BY <3>1, <1>2
      <4>2. place' - 1 \in Slashes(filename') /\ Rank(filename', place' - 1) = m + 2
        BY <4>1, <1>1, <1>3, <1>5, Zenon
      <4>3. Len(root'.parts) + 1 = m + 2
        BY <1>5, <1>7
      <4> QED BY <4>2, <4>3 DEF Behind
    <3> QED BY <3>1, <3>2, <1>1, <1>2, <1>3 DEF InPart
  <2>2. CASE Parser!At(place) # "/"
    <3>1. place' = place /\ place = Len(filename) + 1
      BY <2>2, <1>2, <1>1, <1>3, AtPlace DEF Parser!Slash
    <3>2. Behind(place)'
      BY <3>1, <1>1, <1>3, <1>5, <1>7 DEF Behind
    <3> QED BY <3>1, <3>2, <1>1, <1>2, <1>3 DEF InPart
  <2> QED BY <2>1, <2>2
<1>10. ~ unparsed' => parts' = Len(root'.parts) /\ names' = Len(root'.parts)
  <2>1. ~ unparsed => parts = m /\ names = m + 1
    BY <1>1 DEF ParserInv, m
  <2> QED BY <2>1, <1>1, <1>5, <1>7
<1>11. Parser!ListIsPath'
  BY <1>1 DEF Parser!ListIsPath
<1> QED BY <1>1, <1>2, <1>8, <1>9, <1>10, <1>11 DEF ParserInv, Characters

LEMMA ParseInv ==
  ASSUME ParserInv, Parser!Step
  PROVE  ParserInv'
BY NextPartInv, CopyInv, EmptyInv, LinkedInv, LostInv DEF Parser!Step

LEMMA ParserStays ==
  ASSUME ParserInv, UNCHANGED parser
  PROVE  ParserInv'
BY DEF parser, ParserInv, Begun, InPart, InName, Behind, Characters, Parser!ListIsPath, Parser!NoName
-----------------------------------------------------------------------------
LEMMA MarkedIs ==
  ASSUME NEW k
  PROVE  /\ \A kind \in {"item", "copy", "directory", "slots", "zero bytes"} : <<k, kind>> \in MarkedBy(k)
         /\ \A x \in MarkedBy(k) : x[1] = k /\ x = <<k, x[2]>>
<1>1. ASSUME NEW x \in MarkedBy(k)
      PROVE  x[1] = k /\ x = <<k, x[2]>>
  <2>1. PICK kind : x = <<k, kind>>
    BY <1>1 DEF MarkedBy
  <2> QED BY <2>1
<1>2. ASSUME NEW kind \in {"item", "copy", "directory", "slots", "zero bytes"}
      PROVE  <<k, kind>> \in MarkedBy(k)
  BY <1>2, Zenon DEF MarkedBy
<1> QED BY <1>1, <1>2

(* What an item holds is marked with the part it was found for.            *)
LEMMA ObjectsOf ==
  ASSUME NEW item, item.type \in {"none", "broken", "hollow", "file", "directory"},
         item.part \in Nat, NEW slots
  PROVE  /\ Lookup!Pieces(item, slots) \subseteq MarkedBy(item.part)
         /\ Lookup!Objects(item, slots) \subseteq Lookup!Pieces(item, slots)
         /\ Lookup!Pieces(item, slots) \ Lookup!Objects(item, slots) \subseteq ZeroBytes
         /\ Lookup!Descriptor \notin Lookup!Pieces(item, slots)
<1> DEFINE marked(kind) == <<item.part, kind>>
<1>0. /\ \A kind \in {"item", "copy", "directory", "slots", "zero bytes"} : marked(kind) \in MarkedBy(item.part)
      /\ \A x \in MarkedBy(item.part) : x = <<item.part, x[2]>>
  BY MarkedIs
<1>1. Lookup!Pieces(item, slots) \subseteq MarkedBy(item.part)
  <2>1. CASE item.type = "none"
    <3>1. Lookup!Pieces(item, slots) = {}
      BY <2>1 DEF Lookup!Pieces
    <3> QED BY <3>1
  <2>2. CASE item.type \in {"broken", "hollow"}
    <3>1. Lookup!Pieces(item, slots) = {marked("item")}
      BY <2>2 DEF Lookup!Pieces
    <3> HIDE DEF marked
    <3> QED BY <1>0, <3>1
  <2>3. CASE item.type = "file"
    <3>1. Lookup!Pieces(item, slots) = {marked("item"), marked("copy")}
      BY <2>3 DEF Lookup!Pieces
    <3> HIDE DEF marked
    <3> QED BY <1>0, <3>1
  <2>4. CASE item.type = "directory"
    <3> DEFINE third == IF slots = <<>> THEN "zero bytes" ELSE "slots"
    <3>1. third \in {"slots", "zero bytes"}
      OBVIOUS
    <3>2. Lookup!Pieces(item, slots) = {marked("item"), marked("directory"), marked(third)}
      BY <2>4 DEF Lookup!Pieces
    <3> HIDE DEF third, marked
    <3> QED BY <1>0, <3>1, <3>2
  <2> QED BY <2>1, <2>2, <2>3, <2>4
<1>2. Lookup!Objects(item, slots) \subseteq Lookup!Pieces(item, slots)
  BY DEF Lookup!Objects
<1>3. Lookup!Pieces(item, slots) \ Lookup!Objects(item, slots) \subseteq ZeroBytes
  <2> SUFFICES ASSUME NEW x \in Lookup!Pieces(item, slots), x \notin Lookup!Objects(item, slots)
               PROVE  x \in ZeroBytes
    OBVIOUS
  <2>1. x[2] = "zero bytes"
    BY DEF Lookup!Objects
  <2>2. x = <<item.part, "zero bytes">>
    BY <1>0, <1>1, <2>1
  <2> QED BY <2>2 DEF ZeroBytes
<1>4. Lookup!Descriptor \notin MarkedBy(item.part)
  BY DEF Lookup!Descriptor, MarkedBy
<1>5. Lookup!Descriptor \notin Lookup!Pieces(item, slots)
  BY <1>1, <1>4
<1> QED BY <1>1, <1>2, <1>3, <1>5

LEMMA OpenInv ==
  ASSUME LookupInv, NEW p, Lookup!fat16_open(p)
  PROVE  LookupInv'
<1>1. /\ pc = "idle" /\ part' = 1 /\ wild' = wild
      /\ current' = Lookup!NoItem
      /\ \/ allocated' = {Lookup!Descriptor} /\ pc' = "find"
         \/ allocated' = allocated /\ pc' = pc
  BY DEF Lookup!fat16_open
<1>2. current'.type = "none" /\ current'.part = 0 /\ current' = Lookup!NoItem'
  BY <1>1 DEF Lookup!NoItem
<1>3. Lookup!Objects(current, listing)' = {}
  BY <1>2 DEF Lookup!Objects, Lookup!Pieces
<1>4. wild \subseteq ZeroBytes /\ allocated = {}
  BY <1>1 DEF LookupInv
<1>5. Lookup!Descriptor' = Lookup!Descriptor
  BY DEF Lookup!Descriptor
<1>6. part' \in Nat /\ current'.part \in Nat /\ current'.part < part'
  BY <1>1, <1>2
<1> QED BY <1>1, <1>2, <1>3, <1>4, <1>5, <1>6 DEF LookupInv

(* What is given back was held: the item that was searched, the descriptor.*)
LEMMA GiveUpInv ==
  ASSUME LookupInv, pc \in {"find", "opened"},
         Lookup!Release(Lookup!fat16_fat_item_free(current, listing) \cup {Lookup!Descriptor}),
         pc' = "idle", current' = Lookup!NoItem, part' = part
  PROVE  LookupInv'
<1> DEFINE pieces == Lookup!Pieces(current, listing)
           objects == Lookup!Objects(current, listing)
<1>1. /\ allocated = {Lookup!Descriptor} \cup objects
      /\ current.part \in Nat
      /\ current.type \in {"none", "broken", "hollow", "file", "directory"}
      /\ wild \subseteq ZeroBytes /\ part \in Nat
  BY DEF LookupInv
<1>2. objects \subseteq pieces /\ pieces \ objects \subseteq ZeroBytes
  BY <1>1, ObjectsOf
<1>3. /\ allocated' = allocated \ (pieces \cup {Lookup!Descriptor})
      /\ wild' = wild \cup ((pieces \cup {Lookup!Descriptor}) \ allocated)
  BY DEF Lookup!Release, Lookup!fat16_fat_item_free
<1> HIDE DEF pieces, objects
<1>4. allocated' = {} /\ wild' \subseteq ZeroBytes
  BY <1>1, <1>2, <1>3
<1>5. /\ current'.type = "none" /\ current'.part = 0 /\ current' = Lookup!NoItem'
      /\ part' \in Nat /\ current'.part \in Nat
  BY <1>1 DEF Lookup!NoItem
<1> QED BY <1>4, <1>5 DEF LookupInv

(* The new item is not the old one, which is freed.                        *)
LEMMA FoundInv ==
  ASSUME LookupInv, Lookup!Found
  PROVE  LookupInv'
<1>0. PICK slot : \E type \in {Lookup!Loaded(slot), Lookup!Starved(slot)} :
        current' = [type |-> type, slot |-> slot, part |-> part]
  BY DEF Lookup!Found
<1>1. PICK type \in {Lookup!Loaded(slot), Lookup!Starved(slot)} :
        current' = [type |-> type, slot |-> slot, part |-> part]
  BY <1>0
<1>2. type \in {"broken", "hollow", "file", "directory"}
  BY <1>1 DEF Lookup!Loaded, Lookup!Starved
<1> DEFINE pieces == Lookup!Pieces(current, listing)
           objects == Lookup!Objects(current, listing)
           taken == Lookup!Objects(current', listing')
           takenPieces == Lookup!Pieces(current', listing')
<1>3. /\ pc = "find" /\ current.type \in {"none", "directory"}
      /\ allocated' = (allocated \cup taken) \ pieces
      /\ wild' = wild \cup (pieces \ allocated)
      /\ \/ pc' = "opened" /\ part' = part
         \/ pc' = "find" /\ part' = part + 1
  BY DEF Lookup!Found, Lookup!fat16_fat_item_free
<1>4. current'.type = type /\ current'.part = part /\ part \in Nat /\ current.part < part
  BY <1>1, <1>3 DEF LookupInv
<1>5. /\ allocated = {Lookup!Descriptor} \cup objects
      /\ wild \subseteq ZeroBytes
      /\ current.part \in Nat
  BY <1>3 DEF LookupInv
<1>6. /\ pieces \subseteq MarkedBy(current.part)
      /\ objects \subseteq pieces /\ Lookup!Descriptor \notin pieces
      /\ pieces \ objects \subseteq ZeroBytes
  <2>1. current.type \in {"none", "broken", "hollow", "file", "directory"}
    BY <1>3
  <2> QED BY <2>1, <1>5, ObjectsOf
<1>7. taken \subseteq MarkedBy(current'.part)
  <2>1. current'.type \in {"none", "broken", "hollow", "file", "directory"} /\ current'.part \in Nat
    BY <1>2, <1>4
  <2>2. /\ takenPieces \subseteq MarkedBy(current'.part)
        /\ taken \subseteq takenPieces
    BY <2>1, ObjectsOf
  <2> HIDE DEF taken, takenPieces
  <2> QED BY <2>2
<1> HIDE DEF pieces, objects, taken
<1>8. taken \cap pieces = {}
  <2> SUFFICES ASSUME NEW x \in taken, x \in pieces PROVE FALSE
    OBVIOUS
  <2>1. x \in MarkedBy(current'.part) /\ x \in MarkedBy(current.part)
    BY <1>6, <1>7
  <2>2. x[1] = current'.part /\ x[1] = current.part
    BY <2>1, MarkedIs
  <2>3. current'.part = current.part
    BY <2>2, Zenon
  <2> QED BY <2>3, <1>4, <1>5
<1>9. allocated' = {Lookup!Descriptor} \cup taken /\ wild' \subseteq ZeroBytes
  BY <1>3, <1>5, <1>6, <1>8
<1>10. Lookup!Objects(current, listing)' = taken /\ Lookup!Descriptor' = Lookup!Descriptor
  BY DEF Lookup!Objects, Lookup!Pieces, Lookup!Descriptor, taken
<1>11. part' \in Nat /\ current'.part \in Nat /\ (pc' = "find" => current'.part < part')
  BY <1>3, <1>4
<1>12. current'.type \in {"none", "broken", "hollow", "file", "directory"}
  BY <1>2, <1>4
<1> QED BY <1>3, <1>9, <1>10, <1>11, <1>12 DEF LookupInv

LEMMA WalkInv ==
  ASSUME LookupInv, Lookup!Step
  PROVE  LookupInv'
<1>1. CASE Lookup!NotFound
  BY <1>1, GiveUpInv DEF Lookup!NotFound, Lookup!GiveUp
<1>2. CASE Lookup!NoMemory
  BY <1>2, GiveUpInv DEF Lookup!NoMemory, Lookup!GiveUp
<1>3. CASE Lookup!Found
  BY <1>3, FoundInv
<1>4. CASE Lookup!FollowUnsound
  BY <1>4 DEF Lookup!FollowUnsound, LookupInv
<1>5. CASE Lookup!fat16_close
  <2>1. CASE Lookup!Unsound(current)
    BY <1>5, <2>1 DEF Lookup!fat16_close, LookupInv
  <2>2. CASE ~ Lookup!Unsound(current)
    BY <1>5, <2>2, GiveUpInv DEF Lookup!fat16_close
  <2> QED BY <2>1, <2>2
<1> QED BY <1>1, <1>2, <1>3, <1>4, <1>5 DEF Lookup!Step

LEMMA LookupStays ==
  ASSUME LookupInv, UNCHANGED lookup
  PROVE  LookupInv'
BY DEF lookup, LookupInv, Lookup!Objects, Lookup!Pieces, Lookup!Descriptor, Lookup!NoItem
-----------------------------------------------------------------------------
LEMMA InitCall == CallInit => CallInv
<1> SUFFICES ASSUME CallInit PROVE CallInv
  OBVIOUS
<1>1. /\ filename = <<>> /\ place = 1 /\ parsing = "idle" /\ length = 0
      /\ root = Parser!NULL /\ names = 0 /\ parts = 0 /\ unparsed = FALSE
  BY DEF CallInit, Parser!Init
<1>2. filename \in Seq(Characters) /\ Len(filename) = 0 /\ Len(root.parts) = 0
  BY <1>1, EmptySeq DEF Parser!NULL
<1>3. ParserInv
  <2>1. Parser!ListIsPath
    BY <1>1 DEF Parser!ListIsPath
  <2>2. /\ parsing \in {"idle", "part", "char", "done"} /\ parsing # "part" /\ parsing # "char"
        /\ unparsed \in BOOLEAN
    BY <1>1
  <2>3. place \in Nat \ {0} /\ length \in Nat
    BY <1>1
  <2>4. place <= Len(filename) + 1
    <3>1. place = 1 /\ Len(filename) = 0
      BY <1>1, <1>2
    <3> QED BY <3>1
  <2> QED BY <1>1, <1>2, <2>1, <2>2, <2>3, <2>4 DEF ParserInv
<1>4. /\ pc = "idle" /\ part = 0 /\ current = Lookup!NoItem /\ allocated = {} /\ wild = {}
  BY DEF CallInit, Lookup!Init
<1>5. current.type = "none" /\ current.part = 0
  BY <1>4 DEF Lookup!NoItem
<1>6. LookupInv
  BY <1>4, <1>5 DEF LookupInv
<1> QED BY <1>3, <1>6 DEF CallInv

LEMMA NextCall == CallInv /\ [CallNext]_callVars => CallInv'
<1> SUFFICES ASSUME CallInv, [CallNext]_callVars PROVE CallInv'
  OBVIOUS
<1> USE DEF CallInv
<1>1. ASSUME NEW f \in Inputs, ParsePath(f) PROVE CallInv'
  BY <1>1, ParsePathInv, LookupStays DEF ParsePath
<1>2. CASE Parse
  BY <1>2, ParseInv, LookupStays DEF Parse
<1>3. CASE OpenPath
  BY <1>3, ParserStays, OpenInv DEF OpenPath
<1>4. CASE Walk
  BY <1>4, ParserStays, WalkInv DEF Walk
<1>5. CASE UNCHANGED callVars
  BY <1>5, ParserStays, LookupStays DEF callVars
<1> QED BY <1>1, <1>2, <1>3, <1>4, <1>5 DEF CallNext

(* What the parser has read and linked at each character, and what the walk*)
(* holds at each part of the path, for every path and volume and with any  *)
(* allocation refused.                                                     *)
THEOREM FopenInvariance == CallSpec => []CallInv
BY InitCall, NextCall, PTL DEF CallSpec

(* pathparser_parse makes exactly the list that the path spells, or, when  *)
(* memory runs out, its beginning, and refuses every path it should.       *)
THEOREM FopenListIsPath == CallSpec => []ListIsPath
<1>1. CallInv => ListIsPath
  BY DEF CallInv, ParserInv, ListIsPath
<1> QED BY <1>1, FopenInvariance, PTL

(* The walk keeps the descriptor and the item found and nothing else, and  *)
(* frees nothing that is not allocated, but for the address that           *)
(* kzalloc(0) returned for a directory without entries (fat16.c:265).      *)
THEOREM FopenNothingElseAllocated == CallSpec => []NothingElseAllocated
<1>1. CallInv => NothingElseAllocated
  <2> SUFFICES ASSUME CallInv PROVE NothingElseAllocated
    OBVIOUS
  <2>1. Parser!NothingBesidesTheList
    BY DEF CallInv, ParserInv, Parser!NothingBesidesTheList
  <2>2. (\A object \in wild : object[2] = "zero bytes") /\ (pc = "idle" => allocated = {})
    <3>1. wild \subseteq ZeroBytes /\ (pc = "idle" => allocated = {})
      BY DEF CallInv, LookupInv
    <3> QED BY <3>1 DEF ZeroBytes
  <2>3. pc = "opened" => allocated = {Lookup!Descriptor} \cup Lookup!Objects(current, listing)
    BY DEF CallInv, LookupInv
  <2> QED BY <2>1, <2>2, <2>3 DEF NothingElseAllocated
<1> QED BY <1>1, FopenInvariance, PTL
-----------------------------------------------------------------------------
(* Volumes: chains of clusters, and the slots along them and on the disk.  *)

(* The lookup's operators on a given volume.                               *)
On(v) == INSTANCE FatLookup WITH vol <- v

(* The functions that a recursion on 0 .. n allows.                        *)
Recursion(n, S, base, step) ==
  {g \in [0 .. n -> S] :
     \A k \in 0 .. n : g[k] = IF k = 0 THEN base ELSE step[<<k, g[k - 1]>>]}

(* There is one.                                                           *)
LEMMA RecursionExists ==
  ASSUME NEW n \in Nat, NEW S, NEW base \in S, NEW step \in [(1 .. n) \X S -> S]
  PROVE  Recursion(n, S, base, step) # {}
<1> DEFINE Solves(g, m) == \A k \in 0 .. m : g[k] = IF k = 0 THEN base ELSE step[<<k, g[k - 1]>>]
           Unsolved == {m \in 0 .. n : \A g \in [0 .. m -> S] : ~ Solves(g, m)}
<1>1. Unsolved = {}
  <2> SUFFICES ASSUME Unsolved # {} PROVE FALSE
    OBVIOUS
  <2>1. Unsolved \in SUBSET (0 .. (n + 1) - 1) /\ n + 1 \in Nat
    OBVIOUS
  <2>2. PICK m \in Unsolved : \A k \in Unsolved : m <= k
    <3> HIDE DEF Unsolved
    <3> QED BY <2>1, LeastExists
  <2>3. m # 0
    <3>1. Solves([k \in 0 .. 0 |-> base], 0) /\ [k \in 0 .. 0 |-> base] \in [0 .. 0 -> S]
      OBVIOUS
    <3> QED BY <3>1
  <2>4. m \in 1 .. n /\ m - 1 \in 0 .. n /\ m - 1 \notin Unsolved
    <3>1. m \in 0 .. n
      BY <2>2
    <3> HIDE DEF Unsolved
    <3> QED BY <3>1, <2>2, <2>3
  <2>5. PICK g \in [0 .. m - 1 -> S] : Solves(g, m - 1)
    BY <2>4
  <2> DEFINE h == [k \in 0 .. m |-> IF k = m THEN step[<<m, g[m - 1]>>] ELSE g[k]]
  <2>6. step[<<m, g[m - 1]>>] \in S
    BY <2>4
  <2>7. \A k \in 0 .. m : k = m \/ k \in 0 .. m - 1
    BY <2>4
  <2>8. h \in [0 .. m -> S]
    BY <2>6, <2>7
  <2>9. \A k \in 0 .. m - 1 : h[k] = g[k]
    BY <2>4
  <2>10. h[m] = step[<<m, h[m - 1]>>]
    <3>1. m - 1 \in 0 .. m - 1 /\ m \in 0 .. m
      BY <2>4
    <3>2. h[m] = step[<<m, g[m - 1]>>]
      BY <3>1
    <3>3. h[m - 1] = g[m - 1]
      BY <3>1, <2>9
    <3> QED BY <3>2, <3>3
  <2>11. ASSUME NEW k \in 0 .. m - 1
         PROVE  h[k] = IF k = 0 THEN base ELSE step[<<k, h[k - 1]>>]
    <3>1. k # 0 => k - 1 \in 0 .. m - 1
      BY <2>4
    <3> HIDE DEF h
    <3> QED BY <3>1, <2>5, <2>9
  <2>12. Solves(h, m)
    <3> HIDE DEF h
    <3> QED BY <2>3, <2>7, <2>10, <2>11
  <2> HIDE DEF h, Solves
  <2> QED BY <2>2, <2>8, <2>12
<1>2. PICK g \in [0 .. n -> S] : Solves(g, n)
  BY <1>1
<1> QED BY <1>2 DEF Recursion

(* What a step along a chain leads to.                                     *)
ClusterOrEnd(v) == {0} \cup DOMAIN v.data

(* What the assumptions say of one volume.                                 *)
LEMMA VolumeIs ==
  ASSUME NEW v \in Volumes
  PROVE  \E n \in Nat \ {0} :
           /\ n = Cardinality(DOMAIN v.data) /\ DOMAIN v.data = 2 .. n + 1
           /\ \A c \in 2 .. n + 1 : v.data[c] \in [1 .. SlotsPerCluster -> SlotsOf(v)]
           /\ v.data[n + 1][SlotsPerCluster].kind = "end"
           /\ v.chain \in [2 .. n + 1 -> {0} \cup (2 .. n + 1)]
BY VolumesAssumption

(* The clusters 0 .. n steps along the chain of cluster c.                 *)
WalkOf(v, c, n) ==
  {g \in [0 .. n -> ClusterOrEnd(v)] :
     /\ g[0] = c
     /\ \A k \in 1 .. n : g[k] = IF g[k - 1] = 0 THEN 0 ELSE v.chain[g[k - 1]]}

(* n steps along a chain, whichever number they are counted in.            *)
LEMMA FollowIs ==
  ASSUME NEW v \in Volumes, NEW c \in ClusterOrEnd(v), NEW n \in Nat
  PROVE  \E g \in WalkOf(v, c, n) : On(v)!Follow(c, n) = g[n]
<1> DEFINE S == ClusterOrEnd(v)
           step == [x \in (1 .. n) \X S |-> IF x[2] = 0 THEN 0 ELSE v.chain[x[2]]]
           Sat(f) == f = [k \in 0 .. n |-> IF k = 0 THEN c ELSE IF f[k - 1] = 0 THEN 0 ELSE v.chain[f[k - 1]]]
           f == CHOOSE g : Sat(g)
<1>0. v.chain \in [DOMAIN v.data -> S]
  BY VolumeIs DEF ClusterOrEnd
<1>1. step \in [(1 .. n) \X S -> S]
  <2> SUFFICES ASSUME NEW x \in (1 .. n) \X S, x[2] # 0 PROVE v.chain[x[2]] \in S
    BY DEF ClusterOrEnd
  <2>1. x[2] \in DOMAIN v.data
    BY DEF ClusterOrEnd
  <2> QED BY <1>0, <2>1
<1>2. PICK g \in Recursion(n, S, c, step) : TRUE
  <2> HIDE DEF step
  <2> QED BY <1>1, RecursionExists DEF ClusterOrEnd
<1>3. ASSUME NEW k \in 1 .. n
      PROVE  step[<<k, g[k - 1]>>] = IF g[k - 1] = 0 THEN 0 ELSE v.chain[g[k - 1]]
  <2>1. g[k - 1] \in S /\ <<k, g[k - 1]>> \in (1 .. n) \X S
    <3> HIDE DEF step, S
    <3> QED BY <1>2 DEF Recursion
  <2> HIDE DEF S
  <2> QED BY <2>1
<1> HIDE DEF step
<1>4. Sat(g)
  <2>1. \A k \in 0 .. n : k = 0 \/ k \in 1 .. n
    OBVIOUS
  <2>2. g = [k \in 0 .. n |-> g[k]]
    BY <1>2 DEF Recursion
  <2>3. \A k \in 0 .. n : g[k] = IF k = 0 THEN c ELSE step[<<k, g[k - 1]>>]
    BY <1>2 DEF Recursion
  <2> QED BY <1>3, <2>1, <2>2, <2>3
<1>5. Sat(f)
  <2> HIDE DEF Sat
  <2> QED BY <1>4
<1>6. On(v)!Follow(c, n) = f[n]
  BY DEF On!Follow
<1> HIDE DEF f
<1>7. f[0] = c /\ \A k \in 1 .. n : f[k] = IF f[k - 1] = 0 THEN 0 ELSE v.chain[f[k - 1]]
  BY <1>5
<1>8. f \in [0 .. n -> S]
  <2> DEFINE Wild == {k \in 0 .. n : f[k] \notin S}
  <2>1. Wild = {}
    <3> SUFFICES ASSUME Wild # {} PROVE FALSE
      OBVIOUS
    <3>1. Wild \in SUBSET (0 .. (n + 1) - 1) /\ n + 1 \in Nat
      OBVIOUS
    <3>2. PICK m \in Wild : \A k \in Wild : m <= k
      <4> HIDE DEF Wild
      <4> QED BY <3>1, LeastExists
    <3>3. m # 0 /\ m \in 1 .. n /\ m - 1 \in 0 .. n
      BY <3>2, <1>7
    <3>4. f[m - 1] \in S
      BY <3>2, <3>3
    <3>5. f[m] \in S
      BY <3>3, <3>4, <1>0, <1>7 DEF ClusterOrEnd
    <3> QED BY <3>2, <3>5
  <2>2. f = [k \in 0 .. n |-> f[k]]
    BY <1>5
  <2> QED BY <2>1, <2>2
<1>9. f \in WalkOf(v, c, n)
  BY <1>7, <1>8 DEF WalkOf
<1> QED BY <1>6, <1>9

(* One step more along a chain; behind its end there is nothing.           *)
LEMMA FollowNext ==
  ASSUME NEW v \in Volumes, NEW c \in ClusterOrEnd(v), NEW n \in Nat
  PROVE  /\ On(v)!Follow(c, 0) = c /\ On(v)!Follow(c, n) \in ClusterOrEnd(v)
         /\ On(v)!Follow(c, n + 1) = IF On(v)!Follow(c, n) = 0 THEN 0
                                    ELSE v.chain[On(v)!Follow(c, n)]
<1>1. PICK g \in WalkOf(v, c, n) : On(v)!Follow(c, n) = g[n]
  BY FollowIs
<1>2. PICK h \in WalkOf(v, c, n + 1) : On(v)!Follow(c, n + 1) = h[n + 1]
  <2>1. n + 1 \in Nat
    OBVIOUS
  <2> QED BY <2>1, FollowIs
<1>6. On(v)!Follow(c, 0) = c
  <2>1. PICK z \in WalkOf(v, c, 0) : On(v)!Follow(c, 0) = z[0]
    BY FollowIs
  <2> QED BY <2>1 DEF WalkOf
<1> USE DEF WalkOf
<1> DEFINE Apart == {k \in 0 .. n : g[k] # h[k]}
<1>3. Apart = {}
  <2> SUFFICES ASSUME Apart # {} PROVE FALSE
    OBVIOUS
  <2>1. Apart \in SUBSET (0 .. (n + 1) - 1) /\ n + 1 \in Nat
    OBVIOUS
  <2>2. PICK m \in Apart : \A k \in Apart : m <= k
    <3> HIDE DEF Apart
    <3> QED BY <2>1, LeastExists
  <2>3. m \in 1 .. n /\ m - 1 \in 0 .. n /\ m \in 1 .. n + 1
    BY <2>2, <1>1, <1>2
  <2>4. g[m - 1] = h[m - 1]
    BY <2>2, <2>3
  <2> QED BY <2>2, <2>3, <2>4, <1>1, <1>2
<1>4. g[n] = h[n]
  BY <1>3
<1>5. h[n + 1] = IF h[n] = 0 THEN 0 ELSE v.chain[h[n]]
  <2>1. n + 1 \in 1 .. n + 1 /\ (n + 1) - 1 = n
    OBVIOUS
  <2> QED BY <2>1, <1>2
<1>7. g[n] \in ClusterOrEnd(v)
  BY <1>1
<1> QED BY <1>1, <1>2, <1>4, <1>5, <1>6, <1>7

(* On a tidy volume a directory has one cluster, or the next one too.      *)
LEMMA TidyChain ==
  ASSUME NEW v \in Volumes, On(v)!TidyVolume, NEW c \in ClusterOrEnd(v)
  PROVE  /\ On(v)!Follow(c, 0) = c
         /\ c = 0 => On(v)!Follow(c, 1) = 0
         /\ On(v)!Follow(c, 1) \in {0, c + 1} /\ On(v)!Follow(c, 1) \in ClusterOrEnd(v)
         /\ c # 0 => On(v)!Follow(c, 1) = v.chain[c]
         /\ \A n \in Nat : n >= 2 => On(v)!Follow(c, n) = 0
<1>0. 0 \in Nat /\ 1 \in Nat /\ 0 + 1 = 1 /\ 1 + 1 = 2
  OBVIOUS
<1>1. /\ On(v)!Follow(c, 0) = c
      /\ On(v)!Follow(c, 1) = IF c = 0 THEN 0 ELSE v.chain[c]
      /\ On(v)!Follow(c, 1) \in ClusterOrEnd(v)
  BY <1>0, FollowNext
<1>2. /\ On(v)!Follow(c, 1) \in {0, c + 1}
      /\ On(v)!Follow(c, 2) = 0
  <2>1. CASE c = 0
    BY <1>0, <1>1, <2>1, FollowNext
  <2>2. CASE c # 0
    <3>1. c \in On(v)!Clusters
      BY <2>2 DEF On!Clusters, ClusterOrEnd
    <3>2. On(v)!InOrder(c) /\ On(v)!Follow(c, 2) = 0
      BY <3>1 DEF On!TidyVolume
    <3>3. On(v)!Follow(c, 0 + 1) \in {0, On(v)!Follow(c, 0) + 1}
      BY <3>2 DEF On!InOrder
    <3> QED BY <3>2, <3>3, <1>0, <1>1
  <2> QED BY <2>1, <2>2
<1>3. ASSUME NEW n \in Nat, n >= 2, On(v)!Follow(c, n) # 0 PROVE FALSE
  <2> DEFINE On2 == {k \in 0 .. n : k >= 2 /\ On(v)!Follow(c, k) # 0}
  <2>1. On2 \in SUBSET (0 .. (n + 1) - 1) /\ On2 # {} /\ n + 1 \in Nat
    BY <1>3
  <2>2. PICK m \in On2 : \A k \in On2 : m <= k
    <3> HIDE DEF On2
    <3> QED BY <2>1, LeastExists
  <2>3. m # 2
    BY <2>2, <1>2
  <2>4. m - 1 \in Nat /\ (m - 1) + 1 = m /\ m - 1 >= 2 /\ m - 1 \in 0 .. n
    BY <2>2, <2>3
  <2>5. On(v)!Follow(c, m - 1) = 0
    BY <2>2, <2>4
  <2>6. On(v)!Follow(c, m) = 0
    BY <2>4, <2>5, FollowNext
  <2> QED BY <2>2, <2>6
<1> QED BY <1>1, <1>2, <1>3

-----------------------------------------------------------------------------
(* The r-th slot (from 0) behind q clusters is in the q-th cluster.        *)
LEMMA SlotQuotient ==
  ASSUME NEW q \in Nat, NEW r \in 0 .. SlotsPerCluster - 1
  PROVE  /\ (q * SlotsPerCluster + r) \div SlotsPerCluster = q
         /\ (q * SlotsPerCluster + r) % SlotsPerCluster = r
<1>1. SlotsPerCluster \in Nat \ {0}
  BY VolumesAssumption
<1>2. \A N \in Nat \ {0}, s \in Nat : s < N => (q * N + s) \div N = q
  OBVIOUS
<1>3. \A N \in Nat \ {0}, s \in Nat : s < N => (q * N + s) % N = s
  OBVIOUS
<1>4. r \in Nat /\ r < SlotsPerCluster
  BY <1>1
<1> QED BY <1>1, <1>2, <1>3, <1>4

(* Where the k-th slot of a directory is, in its first or second cluster.  *)
LEMMA FirstOrSecond ==
  ASSUME NEW k \in Nat
  PROVE  /\ k \in 1 .. SlotsPerCluster =>
              (k - 1) \div SlotsPerCluster = 0 /\ ((k - 1) % SlotsPerCluster) + 1 = k
         /\ k \in SlotsPerCluster + 1 .. 2 * SlotsPerCluster =>
              (k - 1) \div SlotsPerCluster = 1
                /\ ((k - 1) % SlotsPerCluster) + 1 = k - SlotsPerCluster
<1>0. SlotsPerCluster \in Nat \ {0}
  BY VolumesAssumption
<1>1. ASSUME k \in 1 .. SlotsPerCluster
      PROVE  (k - 1) \div SlotsPerCluster = 0 /\ ((k - 1) % SlotsPerCluster) + 1 = k
  <2>1. k - 1 = 0 * SlotsPerCluster + (k - 1) /\ k - 1 \in 0 .. SlotsPerCluster - 1 /\ 0 \in Nat
    BY <1>0, <1>1
  <2>2. (k - 1) \div SlotsPerCluster = 0 /\ (k - 1) % SlotsPerCluster = k - 1
    BY <2>1, SlotQuotient
  <2> QED BY <2>2, <1>1
<1>2. ASSUME k \in SlotsPerCluster + 1 .. 2 * SlotsPerCluster
      PROVE  (k - 1) \div SlotsPerCluster = 1
               /\ ((k - 1) % SlotsPerCluster) + 1 = k - SlotsPerCluster
  <2> DEFINE r == (k - 1) - SlotsPerCluster
  <2>1. k - 1 = 1 * SlotsPerCluster + r /\ r \in 0 .. SlotsPerCluster - 1 /\ 1 \in Nat
    BY <1>0, <1>2
  <2>2. (k - 1) \div SlotsPerCluster = 1 /\ (k - 1) % SlotsPerCluster = r
    <3> HIDE DEF r
    <3> QED BY <2>1, SlotQuotient
  <2> QED BY <1>0, <1>2, <2>2
<1> QED BY <1>1, <1>2

(* A directory is loaded from sector(v, c) on.                             *)
LEMMA DiskIs ==
  ASSUME NEW v \in Volumes
  PROVE  \E n \in Nat \ {0} :
           /\ DOMAIN v.data = 2 .. n + 1 /\ On(v)!RootSlots \in Nat
           /\ On(v)!RootSlots = Len(v.root)
           /\ n * SlotsPerCluster \in Nat
           /\ On(v)!DiskEnd = On(v)!RootSlots + n * SlotsPerCluster
<1>1. PICK n \in Nat \ {0} : n = Cardinality(DOMAIN v.data) /\ DOMAIN v.data = 2 .. n + 1
  BY VolumeIs
<1>2. On(v)!Cardinality(DOMAIN v.data) = n
  BY <1>1 DEF On!Cardinality, Cardinality, On!IsFiniteSet, IsFiniteSet
<1>3. On(v)!RootSlots = Len(v.root) /\ Len(v.root) \in Nat
  BY VolumesAssumption DEF On!RootSlots
<1>4. On(v)!DiskEnd = On(v)!RootSlots + ((2 + n) - 2) * SlotsPerCluster
  BY <1>2 DEF On!DiskEnd, On!Clusters, On!fat16_cluster_to_sector
<1>5. (2 + n) - 2 = n
  OBVIOUS
<1>6. n * SlotsPerCluster \in Nat
  BY VolumesAssumption
<1> QED BY <1>1, <1>3, <1>4, <1>5, <1>6

(* The r-th slot of the q-th cluster behind the root directory.            *)
LEMMA SlotOnDisk ==
  ASSUME NEW v \in Volumes, NEW q \in Nat, q + 2 \in DOMAIN v.data,
         NEW r \in 0 .. SlotsPerCluster - 1
  PROVE  /\ q * SlotsPerCluster \in Nat
         /\ On(v)!RootSlots + (q * SlotsPerCluster + r) \in 0 .. On(v)!DiskEnd - 1
         /\ On(v)!SlotAt(On(v)!RootSlots + (q * SlotsPerCluster + r)) = v.data[q + 2][r + 1]
<1> DEFINE root0 == On(v)!RootSlots
           off == q * SlotsPerCluster + r
           p == root0 + off
<1>0. SlotsPerCluster \in Nat \ {0}
  BY VolumesAssumption
<1>1. PICK n \in Nat \ {0} :
        /\ DOMAIN v.data = 2 .. n + 1 /\ root0 \in Nat
        /\ n * SlotsPerCluster \in Nat
        /\ On(v)!DiskEnd = root0 + n * SlotsPerCluster
  BY DiskIs
<1>2. q + 1 <= n
  BY <1>1
<1>3. (q + 1) * SlotsPerCluster <= n * SlotsPerCluster
  BY <1>0, <1>2
<1>4. /\ q * SlotsPerCluster \in Nat
      /\ (q + 1) * SlotsPerCluster = q * SlotsPerCluster + SlotsPerCluster
  BY <1>0
<1>5. off \in Nat /\ off < n * SlotsPerCluster
  BY <1>0, <1>1, <1>3, <1>4
<1>6. off \div SlotsPerCluster = q /\ off % SlotsPerCluster = r
  BY SlotQuotient
<1> HIDE DEF off, root0
<1>7. p \in 0 .. On(v)!DiskEnd - 1 /\ ~ (p < 0) /\ ~ (p < root0) /\ p - root0 = off
  BY <1>1, <1>5
<1>8. On(v)!SlotAt(p) = v.data[2 + (p - root0) \div SlotsPerCluster][((p - root0) % SlotsPerCluster) + 1]
  BY <1>7 DEF On!SlotAt, root0
<1> QED BY <1>4, <1>6, <1>7, <1>8 DEF off, root0

(* The slot that lies r slots behind the beginning of a cluster.           *)
LEMMA SlotInCluster ==
  ASSUME NEW v \in Volumes, NEW c \in DOMAIN v.data, NEW r \in 0 .. SlotsPerCluster - 1
  PROVE  On(v)!SlotAt(On(v)!fat16_cluster_to_sector(c) + r) = v.data[c][r + 1]
<1> DEFINE q == c - 2
<1>1. q \in Nat /\ q + 2 = c
  BY DiskIs
<1>2. On(v)!fat16_cluster_to_sector(c) = On(v)!RootSlots + q * SlotsPerCluster
  BY DEF On!fat16_cluster_to_sector
<1> HIDE DEF q
<1>3. /\ q * SlotsPerCluster \in Nat
      /\ On(v)!SlotAt(On(v)!RootSlots + (q * SlotsPerCluster + r)) = v.data[q + 2][r + 1]
  BY <1>1, SlotOnDisk
<1>4. On(v)!RootSlots \in Nat /\ r \in Nat
  BY DiskIs, VolumesAssumption
<1> DEFINE a == q * SlotsPerCluster
<1>5. a \in Nat
  BY <1>3
<1> HIDE DEF a
<1>6. (On(v)!RootSlots + a) + r = On(v)!RootSlots + (a + r)
  BY <1>4, <1>5
<1> QED BY <1>1, <1>2, <1>3, <1>6 DEF a

(* Every slot from the root directory on is one of that or one of a        *)
(* cluster.                                                                *)
LEMMA OnDisk ==
  ASSUME NEW v \in Volumes, NEW p \in 0 .. On(v)!DiskEnd - 1
  PROVE  \/ p < On(v)!RootSlots /\ p + 1 \in 1 .. Len(v.root) /\ On(v)!SlotAt(p) = v.root[p + 1]
         \/ \E c \in DOMAIN v.data : \E k \in 1 .. SlotsPerCluster :
              On(v)!SlotAt(p) = v.data[c][k]
<1> DEFINE root0 == On(v)!RootSlots
           off == p - root0
<1>0. SlotsPerCluster \in Nat \ {0}
  BY VolumesAssumption
<1>1. PICK n \in Nat \ {0} :
        /\ DOMAIN v.data = 2 .. n + 1 /\ root0 \in Nat /\ root0 = Len(v.root)
        /\ n * SlotsPerCluster \in Nat
        /\ On(v)!DiskEnd = root0 + n * SlotsPerCluster
  BY DiskIs
<1>2. CASE p < root0
  <2>0. ~ (p < 0)
    BY <1>1
  <2>1. On(v)!SlotAt(p) = v.root[p + 1]
    BY <1>2, <2>0 DEF On!SlotAt
  <2>2. p + 1 \in 1 .. Len(v.root)
    BY <1>1, <1>2
  <2> QED BY <1>2, <2>1, <2>2
<1>3. CASE ~ (p < root0)
  <2> DEFINE q == off \div SlotsPerCluster
             r == off % SlotsPerCluster
  <2> HIDE DEF root0
  <2>1. off \in Nat /\ off < n * SlotsPerCluster
    BY <1>1, <1>3
  <2> HIDE DEF off
  <2>2. q \in Nat /\ r \in 0 .. SlotsPerCluster - 1 /\ off = q * SlotsPerCluster + r
    BY <1>0, <2>1
  <2> HIDE DEF q, r
  <2>3. q < n
    <3> SUFFICES ASSUME q >= n PROVE FALSE
      BY <2>2
    <3>1. q * SlotsPerCluster >= n * SlotsPerCluster /\ q * SlotsPerCluster \in Nat
      BY <1>0, <2>2
    <3> QED BY <3>1, <1>1, <2>1, <2>2
  <2>4. q + 2 \in DOMAIN v.data
    BY <1>1, <2>2, <2>3
  <2>5. p = root0 + off
    BY <1>1 DEF off
  <2>6. On(v)!SlotAt(p) = v.data[q + 2][r + 1]
    BY <2>2, <2>4, <2>5, SlotOnDisk DEF root0
  <2>7. r + 1 \in 1 .. SlotsPerCluster
    BY <1>0, <2>2
  <2> QED BY <2>4, <2>6, <2>7
<1> QED BY <1>2, <1>3

(* Counting stops at the first end marker, and there is one.               *)
LEMMA CountIs ==
  ASSUME NEW v \in Volumes, NEW start \in Int, start <= On(v)!DiskEnd - 1
  PROVE  \E end \in start .. On(v)!DiskEnd - 1 :
           /\ On(v)!SlotAt(end).kind = "end"
           /\ \A p \in start .. end - 1 : On(v)!SlotAt(p).kind # "end"
           /\ On(v)!total_items(start) \in Nat
           /\ (\A p \in start .. end - 1 : On(v)!SlotAt(p).kind # "deleted")
                => On(v)!total_items(start) = end - start
<1> DEFINE last == On(v)!DiskEnd - 1
           Ends == {p \in start .. last : On(v)!SlotAt(p).kind = "end"}
           Apart == {x \in 0 .. last - start : start + x \in Ends}
           end == On(v)!Smallest(Ends)
           Counted == {p \in start .. end - 1 : On(v)!SlotAt(p).kind # "deleted"}
<1>0. SlotsPerCluster \in Nat \ {0}
  BY VolumesAssumption
<1>1. PICK n \in Nat \ {0} :
        /\ DOMAIN v.data = 2 .. n + 1 /\ On(v)!RootSlots \in Nat /\ n * SlotsPerCluster \in Nat
        /\ On(v)!DiskEnd = On(v)!RootSlots + n * SlotsPerCluster
  BY DiskIs
<1>2. last \in Int /\ start <= last /\ On(v)!SlotAt(last).kind = "end"
  <2> DEFINE q == n - 1
             r == SlotsPerCluster - 1
  <2>1. q \in Nat /\ q + 2 = n + 1 /\ q + 2 \in DOMAIN v.data /\ r \in 0 .. SlotsPerCluster - 1
    <3>1. q \in Nat /\ q + 2 = n + 1 /\ q + 2 \in 2 .. n + 1
      OBVIOUS
    <3>2. q + 2 \in DOMAIN v.data
      <4> HIDE DEF q
      <4> QED BY <1>1, <3>1
    <3>3. r \in 0 .. SlotsPerCluster - 1
      BY <1>0
    <3> QED BY <3>1, <3>2, <3>3
  <2>2. On(v)!SlotAt(On(v)!RootSlots + (q * SlotsPerCluster + r)) = v.data[n + 1][r + 1]
    <3> HIDE DEF q, r
    <3> QED BY <2>1, SlotOnDisk
  <2>3. q * SlotsPerCluster + r = n * SlotsPerCluster - 1
    BY <1>0, <1>1
  <2>4. On(v)!RootSlots + (q * SlotsPerCluster + r) = last
    <3> HIDE DEF q, r
    <3> QED BY <2>3, <1>1
  <2>5. v.data[n + 1][SlotsPerCluster].kind = "end"
    <3>1. PICK m \in Nat \ {0} :
            DOMAIN v.data = 2 .. m + 1 /\ v.data[m + 1][SlotsPerCluster].kind = "end"
      BY VolumeIs
    <3>2. m = n
      BY <1>1, <3>1
    <3> QED BY <3>1, <3>2
  <2>6. r + 1 = SlotsPerCluster
    BY <1>0
  <2> QED BY <1>1, <2>2, <2>4, <2>5, <2>6
<1> HIDE DEF last
<1>3. end \in Ends /\ \A y \in Ends : end <= y
  <2> DEFINE width == last - start
  <2>1. width \in Nat /\ width + 1 \in Nat /\ (width + 1) - 1 = width
    BY <1>2
  <2>2. last \in Ends /\ start + width = last
    BY <1>2
  <2>3. width \in Apart
    <3> HIDE DEF Ends
    <3> QED BY <2>1, <2>2
  <2>4. Apart \in SUBSET (0 .. (width + 1) - 1) /\ Apart # {}
    BY <2>1, <2>3
  <2>5. PICK x \in Apart : \A y \in Apart : x <= y
    <3> HIDE DEF Apart, width
    <3> QED BY <2>1, <2>4, LeastExists
  <2>6. x \in 0 .. width /\ start + x \in Ends
    BY <2>5
  <2>7. ASSUME NEW y \in Ends PROVE start + x <= y
    <3>1. y - start \in 0 .. last - start /\ start + (y - start) = y
      BY <1>2
    <3>2. y - start \in Apart
      <4> HIDE DEF Ends
      <4> QED BY <3>1
    <3> QED BY <3>1, <3>2, <2>5, <2>6
  <2>8. \E z \in Ends : \A y \in Ends : z <= y
    <3> HIDE DEF Ends
    <3> QED BY <2>6, <2>7
  <2> HIDE DEF Ends
  <2> QED BY <2>8 DEF On!Smallest
<1>4. end \in start .. last /\ On(v)!SlotAt(end).kind = "end"
  <2> HIDE DEF end
  <2> QED BY <1>3
<1>5. ASSUME NEW p \in start .. end - 1 PROVE On(v)!SlotAt(p).kind # "end"
  <2>1. p \in start .. last /\ ~ (end <= p)
    <3> HIDE DEF end
    <3> QED BY <1>2, <1>4
  <2> HIDE DEF end
  <2> QED BY <2>1, <1>3
<1>6. On(v)!total_items(start) = Cardinality(Counted)
  <2>1. \A S : On(v)!Cardinality(S) = Cardinality(S)
    BY DEF On!Cardinality, Cardinality, On!IsFiniteSet, IsFiniteSet
  <2>2. On(v)!total_items(start) = On(v)!Cardinality(Counted)
    BY DEF On!total_items, last
  <2> HIDE DEF Counted
  <2> QED BY <2>1, <2>2
<1> HIDE DEF end
<1>7. end \in Int /\ IsFiniteSet(start .. end - 1)
  BY <1>4, <1>2, FS_Interval
<1>8. On(v)!total_items(start) \in Nat
  <2>1. Counted \subseteq start .. end - 1
    OBVIOUS
  <2>2. IsFiniteSet(Counted)
    <3> HIDE DEF Counted
    <3> QED BY <1>7, <2>1, FS_Subset
  <2> HIDE DEF Counted
  <2> QED BY <2>2, <1>6, FS_CardinalityType
<1>9. ASSUME \A p \in start .. end - 1 : On(v)!SlotAt(p).kind # "deleted"
      PROVE  On(v)!total_items(start) = end - start
  <2>1. Counted = start .. end - 1
    BY <1>9
  <2>2. Cardinality(start .. end - 1) = IF start > end - 1 THEN 0 ELSE (end - 1) - start + 1
    BY <1>7, FS_Interval
  <2>3. start <= end
    BY <1>4, <1>2
  <2>4. Cardinality(start .. end - 1) = end - start
    BY <1>7, <2>2, <2>3
  <2> HIDE DEF Counted
  <2> QED BY <1>6, <2>1, <2>4
<1> QED BY <1>4, <1>5, <1>8, <1>9 DEF last

(* On a tidy volume no slot from the root directory on is deleted.         *)
LEMMA TidyDisk ==
  ASSUME NEW v \in Volumes, On(v)!TidyVolume, NEW p \in 0 .. On(v)!DiskEnd - 1
  PROVE  On(v)!SlotAt(p).kind # "deleted"
<1>1. CASE p + 1 \in 1 .. Len(v.root) /\ On(v)!SlotAt(p) = v.root[p + 1]
  BY <1>1 DEF On!TidyVolume, On!Tidy
<1>2. ASSUME NEW c \in DOMAIN v.data, NEW k \in 1 .. SlotsPerCluster,
             On(v)!SlotAt(p) = v.data[c][k]
      PROVE  On(v)!SlotAt(p).kind # "deleted"
  <2>1. Len(v.data[c]) = SlotsPerCluster
    BY VolumesAssumption
  <2> QED BY <1>2, <2>1 DEF On!TidyVolume, On!Tidy, On!Clusters
<1> QED BY <1>1, <1>2, OnDisk

-----------------------------------------------------------------------------
(* How many slots the directory at a cluster has on a tidy volume.         *)
Extent(v, c) == IF v.chain[c] = 0 THEN SlotsPerCluster ELSE 2 * SlotsPerCluster

(* The k-th slot of a directory, along the chain, as it is read, as it lies*)
(* on the disk and in the first two clusters.                              *)
LEMMA ChainSlot ==
  ASSUME NEW v \in Volumes, On(v)!TidyVolume, NEW c \in DOMAIN v.data, NEW k \in 1 .. Extent(v, c)
  PROVE  LET q == (k - 1) \div SlotsPerCluster
             r == ((k - 1) % SlotsPerCluster) + 1
             p == On(v)!fat16_cluster_to_sector(c) + (k - 1)
         IN  /\ q \in {0, 1} /\ On(v)!Follow(c, q) = c + q /\ On(v)!ClusterRead(c, q) = c + q
             /\ c + q \in DOMAIN v.data /\ r \in 1 .. SlotsPerCluster
             /\ Beginning(v, c)[k] = v.data[c + q][r]
             /\ p \in 0 .. On(v)!DiskEnd - 1 /\ On(v)!SlotAt(p) = v.data[c + q][r]
<1> DEFINE q == (k - 1) \div SlotsPerCluster
           r == ((k - 1) % SlotsPerCluster) + 1
           p == On(v)!fat16_cluster_to_sector(c) + (k - 1)
<1>0. SlotsPerCluster \in Nat \ {0} /\ 2 * SlotsPerCluster = SlotsPerCluster + SlotsPerCluster
  BY VolumesAssumption
<1>1. PICK n \in Nat \ {0} :
        /\ DOMAIN v.data = 2 .. n + 1 /\ v.chain \in [2 .. n + 1 -> {0} \cup (2 .. n + 1)]
        /\ \A b \in 2 .. n + 1 : v.data[b] \in [1 .. SlotsPerCluster -> SlotsOf(v)]
  BY VolumeIs
<1>2. /\ On(v)!Follow(c, 0) = c
      /\ On(v)!Follow(c, 1) = v.chain[c] /\ v.chain[c] \in {0, c + 1}
  <2>1. c \in ClusterOrEnd(v) /\ c # 0
    BY <1>1 DEF ClusterOrEnd
  <2> QED BY <2>1, TidyChain
<1>3. /\ On(v)!ClusterRead(c, 0) = On(v)!Follow(c, 0)
      /\ On(v)!ClusterRead(c, 1) = On(v)!Follow(c, 1)
  <2>1. (0 * (0 + 1)) \div 2 = 0 /\ (1 * (1 + 1)) \div 2 = 1
    OBVIOUS
  <2> QED BY <2>1 DEF On!ClusterRead
<1>4. k \in Nat
  OBVIOUS
<1>5. \/ k \in 1 .. SlotsPerCluster
      \/ k \in SlotsPerCluster + 1 .. 2 * SlotsPerCluster /\ v.chain[c] # 0
  BY <1>0 DEF Extent
<1>6. /\ Len(v.data[c]) = SlotsPerCluster /\ v.data[c] \in Seq(SlotsOf(v))
      /\ v.chain[c] # 0 => v.data[c + 1] \in Seq(SlotsOf(v)) /\ Len(v.data[c + 1]) = SlotsPerCluster
  <2>1. \A s \in [1 .. SlotsPerCluster -> SlotsOf(v)] : s \in Seq(SlotsOf(v)) /\ Len(s) = SlotsPerCluster
    BY <1>0
  <2>2. v.data[c] \in [1 .. SlotsPerCluster -> SlotsOf(v)]
    BY <1>1
  <2>3. v.chain[c] # 0 => v.data[c + 1] \in [1 .. SlotsPerCluster -> SlotsOf(v)]
    <3>1. c \in 2 .. n + 1 /\ c + 1 # 0
      BY <1>1
    <3>2. v.chain[c] \in {0} \cup (2 .. n + 1)
      BY <1>1, <3>1
    <3> QED BY <1>1, <1>2, <3>2
  <2> QED BY <2>1, <2>2, <2>3
<1>7. /\ q \in {0, 1} /\ c + q \in DOMAIN v.data /\ r \in 1 .. SlotsPerCluster
      /\ On(v)!Follow(c, q) = c + q /\ On(v)!ClusterRead(c, q) = c + q
      /\ Beginning(v, c)[k] = v.data[c + q][r]
      /\ k - 1 = q * SlotsPerCluster + (r - 1)
  <2>1. CASE k \in 1 .. SlotsPerCluster
    <3>1. q = 0 /\ r = k
      BY <1>4, <2>1, FirstOrSecond
    <3> HIDE DEF q, r
    <3>2. c + q = c /\ 0 * SlotsPerCluster = 0 /\ c \in Nat
      BY <1>0, <1>1, <3>1
    <3>3. Beginning(v, c)[k] = v.data[c][k]
      <4>1. CASE v.chain[c] = 0
        BY <4>1 DEF Beginning
      <4>2. CASE v.chain[c] = c + 1
        <5>1. Beginning(v, c) = v.data[c] \o v.data[c + 1]
          <6>1. c \in 2 .. n + 1 /\ c + 1 # 0
            BY <1>1
          <6> QED BY <6>1, <4>2 DEF Beginning
        <5>2. v.data[c] \in Seq(SlotsOf(v)) /\ v.data[c + 1] \in Seq(SlotsOf(v))
          BY <1>1, <1>6, <4>2
        <5>3. k \in 1 .. Len(v.data[c]) + Len(v.data[c + 1]) /\ k <= Len(v.data[c])
          BY <1>0, <1>1, <1>6, <2>1, <4>2
        <5>4. (v.data[c] \o v.data[c + 1])[k] = v.data[c][k]
          BY <5>2, <5>3, ConcatProperties
        <5> QED BY <5>1, <5>4
      <4> QED BY <1>2, <4>1, <4>2
    <3>4. k - 1 = q * SlotsPerCluster + (r - 1)
      BY <1>0, <3>1, <3>2, <2>1
    <3> QED BY <1>2, <1>3, <3>1, <3>2, <3>3, <3>4, <2>1
  <2>2. CASE k \in SlotsPerCluster + 1 .. 2 * SlotsPerCluster /\ v.chain[c] # 0
    <3>1. q = 1 /\ r = k - SlotsPerCluster
      BY <1>4, <2>2, FirstOrSecond
    <3> HIDE DEF q, r
    <3>2. v.chain[c] = c + 1 /\ c + 1 \in DOMAIN v.data
      BY <1>1, <1>2, <2>2
    <3>3. Beginning(v, c)[k] = v.data[c + 1][k - SlotsPerCluster]
      <4>1. Beginning(v, c) = v.data[c] \o v.data[c + 1]
        BY <2>2, <3>2 DEF Beginning
      <4>2. /\ k \in 1 .. Len(v.data[c]) + Len(v.data[c + 1]) /\ ~ (k <= Len(v.data[c]))
        BY <1>0, <1>6, <2>2
      <4>3. v.data[c] \in Seq(SlotsOf(v)) /\ v.data[c + 1] \in Seq(SlotsOf(v))
        BY <1>6, <2>2
      <4>4. (v.data[c] \o v.data[c + 1])[k] = v.data[c + 1][k - Len(v.data[c])]
        BY <4>2, <4>3, ConcatProperties
      <4> QED BY <4>1, <4>4, <1>6
    <3>4. k - 1 = q * SlotsPerCluster + (r - 1) /\ r \in 1 .. SlotsPerCluster
      BY <1>0, <3>1, <2>2
    <3> QED BY <1>2, <1>3, <3>1, <3>2, <3>3, <3>4
  <2> QED BY <1>5, <2>1, <2>2
<1>8. p \in 0 .. On(v)!DiskEnd - 1 /\ On(v)!SlotAt(p) = v.data[c + q][r]
  <2> DEFINE m == (c - 2) + q
             t == r - 1
  <2> HIDE DEF q, r
  <2>1. m \in Nat /\ m + 2 = c + q /\ t \in 0 .. SlotsPerCluster - 1 /\ t + 1 = r /\ m + 2 \in DOMAIN v.data
    <3>1. c \in 2 .. n + 1 /\ q \in {0, 1} /\ r \in 1 .. SlotsPerCluster /\ c + q \in DOMAIN v.data
      BY <1>1, <1>7
    <3>2. m \in Nat /\ m + 2 = c + q
      BY <3>1
    <3>3. t \in 0 .. SlotsPerCluster - 1 /\ t + 1 = r
      BY <1>0, <3>1
    <3> QED BY <3>1, <3>2, <3>3
  <2>2. /\ On(v)!RootSlots + (m * SlotsPerCluster + t) \in 0 .. On(v)!DiskEnd - 1
        /\ On(v)!SlotAt(On(v)!RootSlots + (m * SlotsPerCluster + t)) = v.data[m + 2][t + 1]
    <3> HIDE DEF m, t
    <3> QED BY <2>1, SlotOnDisk
  <2>3. On(v)!fat16_cluster_to_sector(c) = On(v)!RootSlots + (c - 2) * SlotsPerCluster
    BY DEF On!fat16_cluster_to_sector
  <2>4. m * SlotsPerCluster = (c - 2) * SlotsPerCluster + q * SlotsPerCluster
    <3>1. c - 2 \in Nat /\ q \in Nat
      BY <1>1, <1>7
    <3> DEFINE a == c - 2
    <3>2. (a + q) * SlotsPerCluster = a * SlotsPerCluster + q * SlotsPerCluster
      <4> HIDE DEF a
      <4> QED BY <1>0, <3>1 DEF a
    <3> QED BY <3>2
  <2>5. /\ (c - 2) * SlotsPerCluster \in Nat /\ q * SlotsPerCluster \in Nat /\ On(v)!RootSlots \in Nat
    <3>1. c - 2 \in Nat /\ q \in Nat
      BY <1>1, <1>7
    <3>2. \A a \in Nat : a * SlotsPerCluster \in Nat
      BY <1>0
    <3>3. On(v)!RootSlots \in Nat
      BY DiskIs
    <3> QED BY <3>1, <3>2, <3>3
  <2>6. p = On(v)!RootSlots + (m * SlotsPerCluster + t)
    BY <2>1, <2>3, <2>4, <2>5, <1>7
  <2> QED BY <2>1, <2>2, <2>6
<1> QED BY <1>7, <1>8

(* The chain of a directory is its first two clusters.                     *)
LEMMA ChainIs ==
  ASSUME NEW v \in Volumes, On(v)!TidyVolume, NEW c \in DOMAIN v.data
  PROVE  /\ On(v)!ChainSlots(c) = Beginning(v, c)
         /\ Beginning(v, c) \in Seq(SlotsOf(v)) /\ Len(Beginning(v, c)) = Extent(v, c)
         /\ Extent(v, c) \in Nat
<1> DEFINE clusters == On(v)!Cardinality(On(v)!Clusters)
           InChain == {k \in 1 .. clusters : On(v)!Follow(c, k - 1) # 0}
           b == On(v)!Cardinality(InChain)
           slot(k) == v.data[On(v)!Follow(c, (k - 1) \div SlotsPerCluster)][((k - 1) % SlotsPerCluster) + 1]
<1>0. SlotsPerCluster \in Nat \ {0} /\ 2 * SlotsPerCluster = SlotsPerCluster + SlotsPerCluster
  BY VolumesAssumption
<1>1. PICK n \in Nat \ {0} :
        /\ DOMAIN v.data = 2 .. n + 1 /\ v.chain \in [2 .. n + 1 -> {0} \cup (2 .. n + 1)]
        /\ \A d \in 2 .. n + 1 : v.data[d] \in [1 .. SlotsPerCluster -> SlotsOf(v)]
        /\ n = Cardinality(DOMAIN v.data)
  BY VolumeIs
<1>2. \A S : On(v)!Cardinality(S) = Cardinality(S)
  BY DEF On!Cardinality, Cardinality, On!IsFiniteSet, IsFiniteSet
<1>3. clusters = n /\ b = Cardinality(InChain)
  <2> HIDE DEF InChain
  <2> QED BY <1>1, <1>2 DEF On!Clusters
<1>4. /\ On(v)!Follow(c, 0) = c /\ c # 0
      /\ On(v)!Follow(c, 1) = v.chain[c] /\ v.chain[c] \in {0, c + 1}
      /\ \A k \in Nat : k >= 2 => On(v)!Follow(c, k) = 0
  <2>1. c \in ClusterOrEnd(v) /\ c # 0
    BY <1>1 DEF ClusterOrEnd
  <2> QED BY <2>1, TidyChain
<1> HIDE DEF clusters, b
<1>5. b * SlotsPerCluster = Extent(v, c)
  <2>1. \A k \in 1 .. n : k = 1 \/ k = 2 \/ (k - 1 \in Nat /\ k - 1 >= 2)
    OBVIOUS
  <2>2. \A k \in 1 .. n : On(v)!Follow(c, k - 1) # 0 <=> (k = 1 \/ (k = 2 /\ v.chain[c] # 0))
    <3>1. 1 - 1 = 0 /\ 2 - 1 = 1
      OBVIOUS
    <3> QED BY <2>1, <1>4, <3>1
  <2>3. CASE v.chain[c] = 0
    <3>1. InChain = 1 .. 1
      <4>1. \A k \in 1 .. n : On(v)!Follow(c, k - 1) # 0 <=> k = 1
        BY <2>2, <2>3
      <4>2. InChain = {k \in 1 .. n : On(v)!Follow(c, k - 1) # 0}
        BY <1>3
      <4>3. 1 \in 1 .. n
        OBVIOUS
      <4> QED BY <4>1, <4>2, <4>3
    <3>2. Cardinality(1 .. 1) = 1
      <4>0. 1 \in Int
        OBVIOUS
      <4>1. Cardinality(1 .. 1) = IF 1 > 1 THEN 0 ELSE 1 - 1 + 1
        BY <4>0, FS_Interval
      <4> QED BY <4>1
    <3>3. b = 1
      BY <1>3, <3>1, <3>2
    <3> QED BY <1>0, <2>3, <3>3 DEF Extent
  <2>4. CASE v.chain[c] # 0
    <3>1. n >= 2
      <4>1. c \in 2 .. n + 1 /\ c + 1 \in 2 .. n + 1
        BY <1>1, <1>4, <2>4
      <4> QED BY <4>1
    <3>2. InChain = 1 .. 2
      BY <1>3, <2>2, <2>4, <3>1
    <3>3. Cardinality(1 .. 2) = 2
      <4>0. 1 \in Int /\ 2 \in Int
        OBVIOUS
      <4>1. Cardinality(1 .. 2) = IF 1 > 2 THEN 0 ELSE 2 - 1 + 1
        BY <4>0, FS_Interval
      <4> QED BY <4>1
    <3> QED BY <1>3, <2>4, <3>2, <3>3 DEF Extent
  <2> QED BY <2>3, <2>4
<1>6. On(v)!ChainSlots(c) = [k \in 1 .. b * SlotsPerCluster |-> slot(k)]
  BY DEF On!ChainSlots, b, clusters
<1>7. ASSUME NEW k \in 1 .. Extent(v, c) PROVE slot(k) = Beginning(v, c)[k]
  BY ChainSlot
<1>8. On(v)!ChainSlots(c) = [k \in 1 .. Extent(v, c) |-> Beginning(v, c)[k]]
  <2> HIDE DEF slot
  <2> QED BY <1>5, <1>6, <1>7
<1>9. /\ Beginning(v, c) \in Seq(SlotsOf(v)) /\ Len(Beginning(v, c)) = Extent(v, c)
      /\ Extent(v, c) \in Nat
  <2>0. v.data[c] \in Seq(SlotsOf(v)) /\ Len(v.data[c]) = SlotsPerCluster
    <3>1. v.data[c] \in [1 .. SlotsPerCluster -> SlotsOf(v)]
      BY <1>1
    <3> QED BY <1>0, <3>1
  <2>1. CASE v.chain[c] = 0
    BY <1>0, <2>0, <2>1 DEF Beginning, Extent
  <2>2. CASE v.chain[c] # 0
    <3>1. v.chain[c] \in 2 .. n + 1
      BY <1>1, <2>2
    <3> DEFINE first == v.data[c]
               second == v.data[v.chain[c]]
    <3>2. second \in Seq(SlotsOf(v)) /\ Len(second) = SlotsPerCluster
      <4>1. second \in [1 .. SlotsPerCluster -> SlotsOf(v)]
        BY <1>1, <3>1
      <4> HIDE DEF second
      <4> QED BY <1>0, <4>1
    <3>3. Beginning(v, c) = first \o second
      BY <2>2 DEF Beginning
    <3>4. first \o second \in Seq(SlotsOf(v)) /\ Len(first \o second) = Len(first) + Len(second)
      <4>1. first \in Seq(SlotsOf(v))
        BY <2>0
      <4> HIDE DEF first, second
      <4> QED BY <3>2, <4>1, ConcatProperties
    <3> QED BY <1>0, <2>0, <2>2, <3>2, <3>3, <3>4 DEF Extent
  <2> QED BY <2>1, <2>2
<1>10. Beginning(v, c) = [k \in 1 .. Extent(v, c) |-> Beginning(v, c)[k]]
  BY <1>9
<1> QED BY <1>8, <1>9, <1>10

(* The live slots are those in front of the first end marker.              *)
LEMMA LiveUpTo ==
  ASSUME NEW S, NEW slots \in Seq(S), NEW t \in 0 .. Len(slots),
         \A k \in 1 .. t : slots[k].kind \notin {"deleted", "end"},
         t < Len(slots) => slots[t + 1].kind = "end"
  PROVE  Lookup!LiveSlots(slots) = {slots[k] : k \in 1 .. t}
<1> DEFINE live == {m \in 1 .. Len(slots) :
                      /\ slots[m].kind \notin {"deleted", "end"}
                      /\ \A j \in 1 .. m - 1 : slots[j].kind # "end"}
<1>1. ASSUME NEW m \in live PROVE m \in 1 .. t
  <2> SUFFICES ASSUME m > t PROVE FALSE
    OBVIOUS
  <2>1. t + 1 \in 1 .. m /\ slots[t + 1].kind = "end"
    OBVIOUS
  <2>2. t + 1 # m
    BY <2>1
  <2>3. t + 1 \in 1 .. m - 1
    BY <2>1, <2>2
  <2> QED BY <2>1, <2>3
<1>2. ASSUME NEW m \in 1 .. t PROVE m \in live
  <2>1. m \in 1 .. Len(slots) /\ \A j \in 1 .. m - 1 : j \in 1 .. t
    OBVIOUS
  <2> QED BY <2>1
<1>3. live = 1 .. t
  <2> HIDE DEF live
  <2>1. live \subseteq 1 .. t
    BY <1>1
  <2> QED BY <1>2, <2>1
<1>4. Lookup!LiveSlots(slots) = {slots[k] : k \in live}
  BY DEF Lookup!LiveSlots
<1> HIDE DEF live
<1> QED BY <1>3, <1>4

(* The root's entry for itself has cluster 0, and no chain.                *)
LEMMA ChainOfNone ==
  ASSUME NEW v \in Volumes, On(v)!TidyVolume
  PROVE  Lookup!LiveSlots(On(v)!ChainSlots(0)) = {}
<1> DEFINE N == On(v)!Cardinality(On(v)!Clusters)
           Chain == {k \in 1 .. N : On(v)!Follow(0, k - 1) # 0}
           none == [k \in 1 .. On(v)!Cardinality(Chain) * SlotsPerCluster |->
             v.data[On(v)!Follow(0, (k - 1) \div SlotsPerCluster)][((k - 1) % SlotsPerCluster) + 1]]
<1>1. N \in Nat
  <2>1. \A S : On(v)!Cardinality(S) = Cardinality(S)
    BY DEF On!Cardinality, Cardinality, On!IsFiniteSet, IsFiniteSet
  <2>2. On(v)!Clusters = DOMAIN v.data
    BY DEF On!Clusters
  <2> QED BY <2>1, <2>2, VolumeIs
<1> HIDE DEF N
<1>2. \A k \in 1 .. N : On(v)!Follow(0, k - 1) = 0
  <2>1. 0 \in ClusterOrEnd(v)
    BY DEF ClusterOrEnd
  <2>2. On(v)!Follow(0, 0) = 0 /\ On(v)!Follow(0, 1) = 0 /\ \A n \in Nat : n >= 2 => On(v)!Follow(0, n) = 0
    BY <2>1, TidyChain
  <2>3. \A k \in 1 .. N : k - 1 = 0 \/ k - 1 = 1 \/ (k - 1 \in Nat /\ k - 1 >= 2)
    BY <1>1
  <2> QED BY <2>2, <2>3
<1>3. On(v)!Cardinality(Chain) = 0
  <2>1. Chain = {}
    BY <1>2
  <2>2. On(v)!Cardinality({}) = Cardinality({})
    BY DEF On!Cardinality, Cardinality, On!IsFiniteSet, IsFiniteSet
  <2> HIDE DEF Chain
  <2> QED BY <2>1, <2>2, FS_EmptySet
<1>4. On(v)!ChainSlots(0) = none
  BY DEF On!ChainSlots, N
<1>5. Len(none) = 0
  <2>1. 0 * SlotsPerCluster = 0
    BY VolumesAssumption
  <2> HIDE DEF Chain
  <2> QED BY <1>3, <2>1
<1> HIDE DEF none
<1> QED BY <1>4, <1>5 DEF Lookup!LiveSlots

Listed(slots) == {slots[k] : k \in 1 .. Len(slots)}

(* On a tidy volume, what is loaded of a directory that can be read is what*)
(* is in it.                                                               *)
LEMMA DirectoryLoaded ==
  ASSUME NEW v \in Volumes, On(v)!TidyVolume, NEW c \in DOMAIN v.data,
         On(v)!Readable(c, On(v)!total_items(On(v)!fat16_cluster_to_sector(c)))
  PROVE  Listed(On(v)!SlotsRead(c, On(v)!total_items(On(v)!fat16_cluster_to_sector(c))))
           = Lookup!LiveSlots(On(v)!ChainSlots(c))
<1> DEFINE start == On(v)!fat16_cluster_to_sector(c)
           total == On(v)!total_items(start)
           disk == On(v)!DiskEnd
           read == On(v)!SlotsRead(c, total)
           B == Beginning(v, c)
           L == Extent(v, c)
<1>0. SlotsPerCluster \in Nat \ {0} /\ 2 * SlotsPerCluster = SlotsPerCluster + SlotsPerCluster
  BY VolumesAssumption
<1>1. PICK n \in Nat \ {0} :
        /\ DOMAIN v.data = 2 .. n + 1 /\ On(v)!RootSlots \in Nat /\ n * SlotsPerCluster \in Nat
        /\ disk = On(v)!RootSlots + n * SlotsPerCluster
  BY DiskIs
<1>2. start = On(v)!RootSlots + (c - 2) * SlotsPerCluster
  BY DEF On!fat16_cluster_to_sector
<1>3. c \in Nat /\ start \in Int /\ start <= disk - 1
  <2>1. c \in 2 .. n + 1
    BY <1>1
  <2> DEFINE m == c - 2
  <2>2. m \in Int /\ m + 1 <= n
    BY <2>1
  <2>3. (m + 1) * SlotsPerCluster <= n * SlotsPerCluster
    <3> HIDE DEF m
    <3> QED BY <1>0, <2>2
  <2>4. m * SlotsPerCluster \in Int /\ (m + 1) * SlotsPerCluster = m * SlotsPerCluster + SlotsPerCluster
    <3> HIDE DEF m
    <3> QED BY <1>0, <2>2
  <2>5. c \in Nat
    BY <1>1, <2>1
  <2>6. start = On(v)!RootSlots + m * SlotsPerCluster
    BY <1>2
  <2> DEFINE a == m * SlotsPerCluster
             b == n * SlotsPerCluster
  <2>7. a \in Int /\ a + SlotsPerCluster <= b /\ b \in Nat
    BY <1>1, <2>3, <2>4
  <2> HIDE DEF a, b
  <2>8. start = On(v)!RootSlots + a /\ disk = On(v)!RootSlots + b
    BY <1>1, <2>6 DEF a, b
  <2> HIDE DEF start, disk
  <2> QED BY <1>0, <1>1, <2>5, <2>7, <2>8
<1> HIDE DEF start, disk
<1>4. PICK end \in start .. disk - 1 :
        /\ On(v)!SlotAt(end).kind = "end"
        /\ \A p \in start .. end - 1 : On(v)!SlotAt(p).kind # "end"
        /\ total \in Nat
        /\ (\A p \in start .. end - 1 : On(v)!SlotAt(p).kind # "deleted") => total = end - start
  BY <1>3, CountIs DEF disk
<1>5. \A k \in 0 .. total - 1 :
        k \div SlotsPerCluster # 0 => On(v)!ClusterRead(c, k \div SlotsPerCluster) # 0
  BY DEF On!Readable, start
<1> HIDE DEF total
<1>6. /\ On(v)!ChainSlots(c) = B /\ B \in Seq(SlotsOf(v)) /\ Len(B) = L /\ L \in Nat
  BY ChainIs
<1> DEFINE slotRead(k) ==
             On(v)!SlotAt(On(v)!fat16_cluster_to_sector(On(v)!ClusterRead(c, (k - 1) \div SlotsPerCluster))
                            + ((k - 1) % SlotsPerCluster))
<1>7. ASSUME NEW k \in 1 .. L
      PROVE  /\ start + (k - 1) \in 0 .. disk - 1 /\ B[k] = On(v)!SlotAt(start + (k - 1))
             /\ slotRead(k) = B[k]
  <2> DEFINE q == (k - 1) \div SlotsPerCluster
             m == (k - 1) % SlotsPerCluster
  <2>1. /\ On(v)!ClusterRead(c, q) = c + q /\ c + q \in DOMAIN v.data
        /\ m + 1 \in 1 .. SlotsPerCluster /\ B[k] = v.data[c + q][m + 1]
        /\ start + (k - 1) \in 0 .. disk - 1 /\ B[k] = On(v)!SlotAt(start + (k - 1))
    BY ChainSlot DEF start, disk
  <2>2. k - 1 \in Int /\ m \in Int
    BY <1>0, <1>6
  <2> HIDE DEF q, m, B, start, disk, L
  <2>3. m \in 0 .. SlotsPerCluster - 1
    BY <1>0, <2>1, <2>2
  <2>4. On(v)!SlotAt(On(v)!fat16_cluster_to_sector(c + q) + m) = v.data[c + q][m + 1]
    BY <2>1, <2>3, SlotInCluster
  <2> QED BY <2>1, <2>4 DEF q, m
<1> HIDE DEF slotRead
<1> HIDE DEF B
<1>8. start \in Nat /\ L >= 1
  <2>1. L >= 1
    BY <1>0 DEF Extent
  <2>2. start + (1 - 1) \in 0 .. disk - 1
    BY <1>6, <1>7, <2>1
  <2> QED BY <2>1, <2>2, <1>3
<1>9. total = end - start
  <2>1. start .. end - 1 \subseteq 0 .. disk - 1
    BY <1>1, <1>4, <1>8
  <2>2. \A p \in start .. end - 1 : On(v)!SlotAt(p).kind # "deleted"
    BY <2>1, TidyDisk DEF disk
  <2> QED BY <1>4, <2>2
<1>10. total <= L
  <2> SUFFICES ASSUME L <= total - 1 PROVE FALSE
    BY <1>4, <1>6
  <2>1. L \div SlotsPerCluster # 0 => On(v)!ClusterRead(c, L \div SlotsPerCluster) # 0
    BY <1>4, <1>5, <1>6
  <2>2. c \in ClusterOrEnd(v) /\ c # 0
    BY <1>1 DEF ClusterOrEnd
  <2>3. CASE v.chain[c] = 0
    <3>1. L = 1 * SlotsPerCluster + 0 /\ 1 \in Nat /\ 0 \in 0 .. SlotsPerCluster - 1
      BY <1>0, <2>3 DEF Extent
    <3>2. L \div SlotsPerCluster = 1
      BY <3>1, SlotQuotient
    <3>3. (1 * (1 + 1)) \div 2 = 1
      OBVIOUS
    <3>4. On(v)!ClusterRead(c, 1) = On(v)!Follow(c, 1)
      BY <3>3 DEF On!ClusterRead
    <3> QED BY <2>1, <2>2, <2>3, <3>2, <3>4, TidyChain
  <2>4. CASE v.chain[c] # 0
    <3>1. L = 2 * SlotsPerCluster + 0 /\ 2 \in Nat /\ 0 \in 0 .. SlotsPerCluster - 1
      BY <1>0, <2>4 DEF Extent
    <3>2. L \div SlotsPerCluster = 2
      BY <3>1, SlotQuotient
    <3>3. (2 * (2 + 1)) \div 2 = 3 /\ 3 \in Nat /\ 3 >= 2
      OBVIOUS
    <3>4. On(v)!ClusterRead(c, 2) = On(v)!Follow(c, 3)
      BY <3>3 DEF On!ClusterRead
    <3> QED BY <2>1, <2>2, <3>2, <3>3, <3>4, TidyChain
  <2> QED BY <2>3, <2>4
<1>11. ASSUME NEW k \in 1 .. total PROVE B[k].kind \notin {"deleted", "end"}
  <2>1. k \in 1 .. L /\ start + (k - 1) \in start .. end - 1
    BY <1>3, <1>4, <1>6, <1>9, <1>10
  <2>2. B[k] = On(v)!SlotAt(start + (k - 1)) /\ start + (k - 1) \in 0 .. disk - 1
    BY <1>7, <2>1
  <2>3. On(v)!SlotAt(start + (k - 1)).kind # "deleted"
    BY <2>2, TidyDisk DEF disk
  <2> QED BY <1>4, <2>1, <2>2, <2>3
<1>12. ASSUME total < L PROVE B[total + 1].kind = "end"
  <2>1. total + 1 \in 1 .. L /\ start + ((total + 1) - 1) = end
    BY <1>3, <1>4, <1>6, <1>9, <1>12
  <2> QED BY <1>4, <1>7, <2>1
<1>13. Lookup!LiveSlots(B) = {B[k] : k \in 1 .. total}
  <2>1. total \in 0 .. Len(B)
    BY <1>4, <1>6, <1>10
  <2>2. \A k \in 1 .. total : B[k].kind \notin {"deleted", "end"}
    BY <1>11
  <2>3. total < Len(B) => B[total + 1].kind = "end"
    BY <1>6, <1>12
  <2>4. B \in Seq(SlotsOf(v))
    BY <1>6
  <2> HIDE DEF L
  <2> QED BY <2>1, <2>2, <2>3, <2>4, LiveUpTo
<1>14. Listed(read) = {B[k] : k \in 1 .. total}
  <2>1. read = [k \in 1 .. total |-> slotRead(k)]
    BY DEF On!SlotsRead, slotRead
  <2>2. \A k \in 1 .. total : slotRead(k) = B[k]
    <3>1. \A k \in 1 .. total : k \in 1 .. L
      BY <1>4, <1>6, <1>10
    <3> QED BY <1>7, <3>1
  <2> HIDE DEF read
  <2>3. Len(read) = total /\ \A k \in 1 .. total : read[k] = B[k]
    BY <1>4, <2>1, <2>2
  <2> QED BY <2>3 DEF Listed
<1> QED BY <1>6, <1>13, <1>14 DEF total, start

(* The root directory is in memory as a whole.                             *)
LEMMA RootLoaded ==
  ASSUME NEW v \in Volumes, On(v)!TidyVolume
  PROVE  Listed(On(v)!root_directory) = Lookup!LiveSlots(v.root)
<1> DEFINE total == On(v)!total_items(0)
           disk == On(v)!DiskEnd
           R == v.root
<1>0. SlotsPerCluster \in Nat \ {0} /\ R \in Seq(SlotsOf(v)) /\ Len(R) \in Nat
  BY VolumesAssumption
<1>1. PICK n \in Nat \ {0} :
        /\ On(v)!RootSlots \in Nat /\ On(v)!RootSlots = Len(R) /\ n * SlotsPerCluster \in Nat
        /\ disk = On(v)!RootSlots + n * SlotsPerCluster
  BY DiskIs
<1>2. PICK k \in 1 .. Len(R) : R[k].kind = "end"
  BY VolumesAssumption
<1>3. ASSUME NEW j \in 1 .. Len(R)
      PROVE  On(v)!SlotAt(j - 1) = R[j] /\ j - 1 \in 0 .. disk - 1
  <2>1. /\ ~ (j - 1 < 0) /\ j - 1 < On(v)!RootSlots /\ (j - 1) + 1 = j
        /\ j - 1 \in 0 .. disk - 1
    BY <1>1
  <2> QED BY <2>1 DEF On!SlotAt
<1> HIDE DEF disk
<1>4. 0 \in Int /\ 0 <= disk - 1
  BY <1>1, <1>2
<1>5. PICK end \in 0 .. disk - 1 :
        /\ On(v)!SlotAt(end).kind = "end"
        /\ \A p \in 0 .. end - 1 : On(v)!SlotAt(p).kind # "end"
        /\ total \in Nat
        /\ (\A p \in 0 .. end - 1 : On(v)!SlotAt(p).kind # "deleted") => total = end - 0
  BY <1>4, CountIs DEF disk
<1> HIDE DEF total
<1>6. end <= k - 1
  <2> SUFFICES ASSUME k - 1 < end PROVE FALSE
    BY <1>5
  <2>1. k - 1 \in 0 .. end - 1
    BY <1>5
  <2> QED BY <2>1, <1>2, <1>3, <1>5
<1>7. total = end /\ total < Len(R)
  <2>1. 0 .. end - 1 \subseteq 0 .. disk - 1
    BY <1>1, <1>5
  <2>2. \A p \in 0 .. end - 1 : On(v)!SlotAt(p).kind # "deleted"
    BY <2>1, TidyDisk DEF disk
  <2> QED BY <1>0, <1>5, <1>6, <2>2
<1>8. ASSUME NEW m \in 1 .. total PROVE R[m].kind \notin {"deleted", "end"}
  <2>1. m \in 1 .. Len(R) /\ m - 1 \in 0 .. end - 1
    BY <1>0, <1>5, <1>7
  <2>2. On(v)!SlotAt(m - 1) = R[m] /\ m - 1 \in 0 .. disk - 1
    BY <1>3, <2>1
  <2>3. On(v)!SlotAt(m - 1).kind # "deleted"
    BY <2>2, TidyDisk DEF disk
  <2> QED BY <1>5, <2>1, <2>2, <2>3
<1>9. R[total + 1].kind = "end"
  <2>1. total + 1 \in 1 .. Len(R) /\ (total + 1) - 1 = end
    BY <1>0, <1>5, <1>7
  <2> QED BY <1>3, <1>5, <2>1
<1> HIDE DEF R
<1>10. Lookup!LiveSlots(R) = {R[m] : m \in 1 .. total}
  <2>1. total \in 0 .. Len(R) /\ \A m \in 1 .. total : R[m].kind \notin {"deleted", "end"}
    BY <1>0, <1>5, <1>7, <1>8
  <2> QED BY <1>0, <1>9, <2>1, LiveUpTo
<1>11. On(v)!root_directory = SubSeq(R, 1, total)
  BY DEF On!root_directory, total, R
<1>12. Len(SubSeq(R, 1, total)) = total /\ \A m \in 1 .. total : SubSeq(R, 1, total)[m] = R[m]
  BY <1>0, <1>5, <1>7
<1> QED BY <1>10, <1>11, <1>12 DEF Listed, R

(* What a directory holds are slots of the volume, and no two of them have *)
(* one name.                                                               *)
LEMMA DirectorySlots ==
  ASSUME NEW v \in Volumes, On(v)!TidyVolume
  PROVE  /\ Lookup!LiveSlots(v.root) \in SUBSET SlotsOf(v) /\ NamesDiffer(v.root)
         /\ \A s \in SlotsOf(v) :
              s.kind = "dir" =>
                /\ s.cluster \in ClusterOrEnd(v)
                /\ Lookup!LiveSlots(On(v)!ChainSlots(s.cluster)) \in SUBSET SlotsOf(v)
                /\ NamesDiffer(On(v)!ChainSlots(s.cluster))
<1>1. \A slots \in Seq(SlotsOf(v)) : Lookup!LiveSlots(slots) \in SUBSET SlotsOf(v)
  BY DEF Lookup!LiveSlots
<1>2. Lookup!LiveSlots(v.root) \in SUBSET SlotsOf(v) /\ NamesDiffer(v.root)
  <2>1. v.root \in Seq(SlotsOf(v))
    BY VolumesAssumption
  <2> QED BY <1>1, <2>1, SlotsAssumption
<1>3. ASSUME NEW s \in SlotsOf(v), s.kind = "dir"
      PROVE  /\ s.cluster \in ClusterOrEnd(v)
             /\ Lookup!LiveSlots(On(v)!ChainSlots(s.cluster)) \in SUBSET SlotsOf(v)
             /\ NamesDiffer(On(v)!ChainSlots(s.cluster))
  <2>1. /\ s.cluster \in ClusterOrEnd(v)
        /\ s.cluster # 0 => NamesDiffer(Beginning(v, s.cluster))
    BY <1>3, SlotsAssumption DEF ClusterOrEnd
  <2>2. CASE s.cluster = 0
    BY <2>1, <2>2, ChainOfNone DEF NamesDiffer
  <2>3. CASE s.cluster # 0
    <3>1. s.cluster \in DOMAIN v.data
      BY <2>1, <2>3 DEF ClusterOrEnd
    <3>2. /\ On(v)!ChainSlots(s.cluster) = Beginning(v, s.cluster)
          /\ Beginning(v, s.cluster) \in Seq(SlotsOf(v))
      BY <3>1, ChainIs
    <3> QED BY <1>1, <2>1, <2>3, <3>2
  <2> QED BY <2>2, <2>3
<1> QED BY <1>2, <1>3

-----------------------------------------------------------------------------
(* Where the k-th part of a path is looked for, when the parts before it   *)
(* name the slots of A.                                                    *)
From(v, k, A) ==
  IF k = 1 THEN Lookup!LiveSlots(v.root)
  ELSE UNION {Lookup!LiveSlots(On(v)!ChainSlots(s.cluster)) : s \in {t \in A : t.kind = "dir"}}

(* What the parts of a path name, one after the other.                     *)
Levels(v, p) ==
  {at \in [0 .. Len(p) -> SUBSET SlotsOf(v)] :
     /\ at[0] = {}
     /\ \A k \in 1 .. Len(p) : at[k] = {s \in From(v, k, at[k - 1]) : Lookup!Names(p[k], s)}}

(* Which names match does not depend on the volume.                        *)
LEMMA SameOperators ==
  ASSUME NEW v
  PROVE  /\ \A slots : On(v)!LiveSlots(slots) = Lookup!LiveSlots(slots)
         /\ \A text, s : On(v)!Names(text, s) <=> Lookup!Names(text, s)
<1>1. \A slots : On(v)!LiveSlots(slots) = Lookup!LiveSlots(slots)
  BY DEF On!LiveSlots, Lookup!LiveSlots
<1>2. \A text, s : On(v)!Names(text, s) <=> Lookup!Names(text, s)
  BY DEF On!Names, Lookup!Names, On!SameName, Lookup!SameName, On!tolower, Lookup!tolower
<1> QED BY <1>1, <1>2

(* What the parts of a path reach are its levels.                          *)
LEMMA ReachedIs ==
  ASSUME NEW v \in Volumes, On(v)!TidyVolume, NEW p, Len(p) \in Nat
  PROVE  On(v)!Reached(p) \in Levels(v, p) /\ On(v)!Named(p) = On(v)!Reached(p)[Len(p)]
<1> DEFINE n == Len(p)
           S == SUBSET SlotsOf(v)
           Level(k, A) == {s \in From(v, k, A) : Lookup!Names(p[k], s)}
           step == [x \in (1 .. n) \X S |-> Level(x[1], x[2])]
           Written(k, A) ==
             LET from == IF k = 1 THEN On(v)!LiveSlots(v.root)
                         ELSE UNION {On(v)!LiveSlots(On(v)!ChainSlots(s.cluster)) :
                                       s \in {t \in A : t.kind = "dir"}}
             IN  {s \in from : On(v)!Names(p[k], s)}
           Sat(f) == f = [k \in 0 .. n |-> IF k = 0 THEN {} ELSE Written(k, f[k - 1])]
           f == CHOOSE g : Sat(g)
<1>1. ASSUME NEW k, NEW A PROVE Written(k, A) = Level(k, A)
  <2> DEFINE from1 == IF k = 1 THEN On(v)!LiveSlots(v.root)
                      ELSE UNION {On(v)!LiveSlots(On(v)!ChainSlots(s.cluster)) :
                                       s \in {t \in A : t.kind = "dir"}}
  <2>1. from1 = From(v, k, A)
    BY SameOperators DEF From
  <2>2. Written(k, A) = {s \in from1 : On(v)!Names(p[k], s)}
    OBVIOUS
  <2> HIDE DEF from1, Written
  <2> QED BY <2>1, <2>2, SameOperators
<1>2. ASSUME NEW k \in 1 .. n, NEW A \in S PROVE Level(k, A) \in S
  <2>1. From(v, k, A) \in S
    <3>1. CASE k = 1
      BY <3>1, DirectorySlots DEF From
    <3>2. CASE k # 1
      <4>1. \A s \in {t \in A : t.kind = "dir"} : s \in SlotsOf(v) /\ s.kind = "dir"
        OBVIOUS
      <4>2. \A s \in {t \in A : t.kind = "dir"} :
              Lookup!LiveSlots(On(v)!ChainSlots(s.cluster)) \in SUBSET SlotsOf(v)
        BY <4>1, DirectorySlots
      <4> QED BY <3>2, <4>2 DEF From
    <3> QED BY <3>1, <3>2
  <2> QED BY <2>1
<1>3. step \in [(1 .. n) \X S -> S]
  <2> SUFFICES ASSUME NEW x \in (1 .. n) \X S PROVE Level(x[1], x[2]) \in S
    OBVIOUS
  <2>1. x[1] \in 1 .. n /\ x[2] \in S
    OBVIOUS
  <2> HIDE DEF Level, S
  <2> QED BY <2>1, <1>2
<1>4. PICK g \in Recursion(n, S, {}, step) : TRUE
  <2>1. {} \in S
    OBVIOUS
  <2> HIDE DEF step, S, n
  <2> QED BY <2>1, <1>3, RecursionExists DEF n
<1> HIDE DEF Written, Level
<1>5. ASSUME NEW k \in 1 .. n PROVE step[<<k, g[k - 1]>>] = Written(k, g[k - 1])
  <2>1. g[k - 1] \in S /\ <<k, g[k - 1]>> \in (1 .. n) \X S
    <3>1. k - 1 \in 0 .. n
      OBVIOUS
    <3> HIDE DEF step, S
    <3> QED BY <1>4, <3>1 DEF Recursion
  <2>2. step[<<k, g[k - 1]>>] = Level(k, g[k - 1])
    <3> HIDE DEF S
    <3> QED BY <2>1
  <2> HIDE DEF step
  <2> QED BY <2>2, <1>1
<1> HIDE DEF step
<1>6. Sat(g)
  <2>1. \A k \in 0 .. n : k = 0 \/ k \in 1 .. n
    OBVIOUS
  <2>2. g = [k \in 0 .. n |-> g[k]]
    BY <1>4 DEF Recursion
  <2>3. \A k \in 0 .. n : g[k] = IF k = 0 THEN {} ELSE step[<<k, g[k - 1]>>]
    BY <1>4 DEF Recursion
  <2> QED BY <1>5, <2>1, <2>2, <2>3
<1>7. Sat(f)
  <2> HIDE DEF Sat
  <2> QED BY <1>6
<1>8. On(v)!Reached(p) = f
  BY DEF On!Reached, Written
<1> HIDE DEF f
<1>9. /\ f[0] = {} /\ f = [k \in 0 .. n |-> f[k]]
      /\ \A k \in 1 .. n : f[k] = Level(k, f[k - 1])
  <2>1. f = [k \in 0 .. n |-> IF k = 0 THEN {} ELSE Written(k, f[k - 1])]
    BY <1>7
  <2>2. f = [k \in 0 .. n |-> f[k]]
    BY <2>1
  <2>3. f[0] = {}
    BY <2>1
  <2>4. ASSUME NEW k \in 1 .. n PROVE f[k] = Level(k, f[k - 1])
    <3>1. k \in 0 .. n /\ k # 0
      OBVIOUS
    <3>2. f[k] = Written(k, f[k - 1])
      BY <2>1, <3>1
    <3> QED BY <3>2, <1>1
  <2> QED BY <2>2, <2>3, <2>4
<1>10. \A k \in 0 .. n : f[k] \in S
  <2> DEFINE Wild == {k \in 0 .. n : f[k] \notin S}
  <2> SUFFICES ASSUME Wild # {} PROVE FALSE
    OBVIOUS
  <2>1. Wild \in SUBSET (0 .. (n + 1) - 1) /\ n + 1 \in Nat
    OBVIOUS
  <2>2. PICK m \in Wild : \A k \in Wild : m <= k
    <3> HIDE DEF Wild
    <3> QED BY <2>1, LeastExists
  <2>3. m # 0
    BY <2>2, <1>9
  <2>4. m \in 1 .. n /\ m - 1 \in 0 .. n
    BY <2>2, <2>3
  <2>5. f[m - 1] \in S
    BY <2>2, <2>4
  <2>6. f[m] \in S
    <3> HIDE DEF S
    <3> QED BY <2>4, <2>5, <1>2, <1>9
  <2> QED BY <2>2, <2>6
<1>11. f \in Levels(v, p)
  <2>1. f \in [0 .. n -> S]
    <3> HIDE DEF S
    <3> QED BY <1>9, <1>10
  <2>2. \A k \in 1 .. n : f[k] = {s \in From(v, k, f[k - 1]) : Lookup!Names(p[k], s)}
    BY <1>9 DEF Level
  <2> QED BY <1>9, <2>1, <2>2 DEF Levels
<1> QED BY <1>8, <1>11 DEF On!Named

(* Behind a part that names no directory nothing has a name.               *)
LEMMA NothingBehind ==
  ASSUME NEW v, NEW p, Len(p) \in Nat, NEW at \in Levels(v, p), NEW k \in 1 .. Len(p),
         \A s \in at[k] : s.kind # "dir",
         NEW j \in k + 1 .. Len(p)
  PROVE  at[j] = {}
<1> DEFINE Some == {m \in 0 .. Len(p) : m > k /\ at[m] # {}}
<1> SUFFICES ASSUME at[j] # {} PROVE FALSE
  OBVIOUS
<1>1. Some \in SUBSET (0 .. (Len(p) + 1) - 1) /\ Len(p) + 1 \in Nat /\ j \in Some
  OBVIOUS
<1>2. PICK m \in Some : \A i \in Some : m <= i
  <2> HIDE DEF Some
  <2> QED BY <1>1, LeastExists
<1>3. m \in k + 1 .. Len(p) /\ m - 1 \in k .. Len(p) /\ m # 1 /\ m \in 1 .. Len(p)
  BY <1>2
<1>4. \A s \in at[m - 1] : s.kind # "dir"
  <2>1. CASE m - 1 = k
    BY <2>1
  <2>2. CASE m - 1 # k
    <3>1. m - 1 \notin Some
      <4> HIDE DEF Some
      <4> QED BY <1>2, <1>3
    <3>2. at[m - 1] = {}
      BY <1>3, <2>2, <3>1
    <3> QED BY <3>2
  <2> QED BY <2>1, <2>2
<1>5. at[m] = {s \in From(v, m, at[m - 1]) : Lookup!Names(p[m], s)}
  BY <1>3 DEF Levels
<1>6. From(v, m, at[m - 1]) = {}
  BY <1>3, <1>4 DEF From
<1> QED BY <1>2, <1>5, <1>6

(* A file without an extension answers to its name only with a dot.        *)
Bare(s) == s.kind = "file" /\ s.ext = <<>>

(* The name that is compared is the one that names the slot.               *)
LEMMA NameIsMatched ==
  ASSUME NEW text, NEW s, s.kind \in {"file", "dir"}, s.kind = "dir" => s.ext = <<>>
  PROVE  /\ Lookup!SameName(Lookup!fat16_get_full_filename(s), text) => Lookup!Names(text, s)
         /\ Lookup!Names(text, s) =>
              Bare(s) \/ Lookup!SameName(Lookup!fat16_get_full_filename(s), text)
BY DEF Lookup!SameName, Lookup!fat16_get_full_filename, Lookup!Names, Bare

(* The smallest of a set of numbers is one of them.                        *)
LEMMA SmallestIs ==
  ASSUME NEW S \in SUBSET Nat, S # {}
  PROVE  Lookup!Smallest(S) \in S
<1>1. PICK n \in S : TRUE
  OBVIOUS
<1> DEFINE T == {x \in S : x <= n}
<1>2. T \in SUBSET (0 .. (n + 1) - 1) /\ T # {} /\ n + 1 \in Nat
  <2>1. n \in Nat /\ n \in T
    BY <1>1
  <2>2. \A x \in T : x \in 0 .. (n + 1) - 1
    BY <2>1
  <2> HIDE DEF T
  <2> QED BY <2>1, <2>2
<1>3. PICK m \in T : \A x \in T : m <= x
  <2> HIDE DEF T
  <2> QED BY <1>2, LeastExists
<1>4. m \in S /\ \A x \in S : m <= x
  BY <1>1, <1>3
<1> QED BY <1>4 DEF Lookup!Smallest
-----------------------------------------------------------------------------
(* Nothing but one slot, and files without an extension, is named by the   *)
(* parts up to the k-th.                                                   *)
StandsAt(v, p, slot, k) ==
  \A at \in Levels(v, p) :
    /\ slot \in at[k]
    /\ \A t \in at[k] : t = slot \/ Bare(t)

(* The directory in memory is the one that the parts so far name.          *)
Finding ==
  /\ part \in 1 .. Len(path)
  /\ current.type = "none" => part = 1 /\ Listed(listing) = Lookup!LiveSlots(vol.root)
  /\ current.type # "none" => part > 1 /\ StandsAt(vol, path, current.slot, part - 1)
  /\ current.type = "file" => current.slot.kind # "dir"
  /\ current.type = "directory" =>
       /\ current.slot \in SlotsOf(vol) /\ current.slot.kind = "dir"
       /\ Listed(listing) = Lookup!LiveSlots(On(vol)!ChainSlots(current.slot.cluster))

(* The walk goes down the list of the parser, once.                        *)
PathWalked ==
  /\ vol \in Volumes /\ oom \in BOOLEAN /\ Len(path) \in Nat
  /\ path = <<>> => pc = "idle" /\ answer = Lookup!Failed
  /\ path # <<>> => parsing = "done" /\ Accepted /\ path = root.parts
  /\ path # <<>> /\ On(vol)!TidyVolume /\ ~ On(vol)!ThroughClusterZero(path) /\ ~ oom =>
       /\ pc = "find" => Finding
       /\ pc = "opened" =>
            answer # Lookup!Failed /\ StandsAt(vol, path, current.slot, Len(path))
       /\ pc = "idle" /\ answer = Lookup!Failed =>
            \A at \in Levels(vol, path) : \A t \in at[Len(path)] : Bare(t)

(* The lookup runs on the volume of its state.                             *)
LEMMA OnThisVolume ==
  /\ Lookup!TidyVolume <=> On(vol)!TidyVolume
  /\ Lookup!root_directory = On(vol)!root_directory
  /\ \A c : Lookup!total_items(Lookup!fat16_cluster_to_sector(c)) = On(vol)!total_items(On(vol)!fat16_cluster_to_sector(c))
  /\ \A c, n : Lookup!Readable(c, n) <=> On(vol)!Readable(c, n)
  /\ \A c, n : Lookup!SlotsRead(c, n) = On(vol)!SlotsRead(c, n)
  /\ \A p : Lookup!Named(p) = On(vol)!Named(p)
  /\ \A p : Lookup!ThroughClusterZero(p) <=> On(vol)!ThroughClusterZero(p)
<1>1. Lookup!TidyVolume <=> On(vol)!TidyVolume
  BY DEF Lookup!TidyVolume, On!TidyVolume, Lookup!Tidy, On!Tidy, Lookup!Clusters, On!Clusters,
         Lookup!InOrder, On!InOrder, Lookup!Follow, On!Follow
<1>2. \A s : Lookup!total_items(s) = On(vol)!total_items(s)
  BY DEF Lookup!total_items, On!total_items, Lookup!Smallest, On!Smallest, Lookup!SlotAt, On!SlotAt,
         Lookup!DiskEnd, On!DiskEnd, Lookup!RootSlots, On!RootSlots, Lookup!Clusters, On!Clusters,
         Lookup!fat16_cluster_to_sector, On!fat16_cluster_to_sector,
         Lookup!Cardinality, On!Cardinality, Lookup!IsFiniteSet, On!IsFiniteSet
<1>3. Lookup!root_directory = On(vol)!root_directory
  BY <1>2 DEF Lookup!root_directory, On!root_directory
<1>4. \A c : Lookup!fat16_cluster_to_sector(c) = On(vol)!fat16_cluster_to_sector(c)
  BY DEF Lookup!fat16_cluster_to_sector, On!fat16_cluster_to_sector, Lookup!RootSlots, On!RootSlots
<1>5. \A c, n : Lookup!Follow(c, n) = On(vol)!Follow(c, n)
  BY DEF Lookup!Follow, On!Follow
<1>6. \A c, n : Lookup!ClusterRead(c, n) = On(vol)!ClusterRead(c, n)
  BY <1>5 DEF Lookup!ClusterRead, On!ClusterRead
<1>7. \A c, n : Lookup!Readable(c, n) <=> On(vol)!Readable(c, n)
  BY <1>6 DEF Lookup!Readable, On!Readable
<1>8. \A c, n : Lookup!SlotsRead(c, n) = On(vol)!SlotsRead(c, n)
  <2>1. \A p : Lookup!SlotAt(p) = On(vol)!SlotAt(p)
    BY DEF Lookup!SlotAt, On!SlotAt, Lookup!RootSlots, On!RootSlots
  <2> QED BY <1>4, <1>6, <2>1 DEF Lookup!SlotsRead, On!SlotsRead
<1>9. \A p : Lookup!Reached(p) = On(vol)!Reached(p)
  BY DEF Lookup!Reached, On!Reached, Lookup!LiveSlots, On!LiveSlots, Lookup!ChainSlots, On!ChainSlots,
         Lookup!Follow, On!Follow, Lookup!Clusters, On!Clusters, Lookup!Names, On!Names,
         Lookup!SameName, On!SameName, Lookup!tolower, On!tolower,
         Lookup!Cardinality, On!Cardinality, Lookup!IsFiniteSet, On!IsFiniteSet
<1>10. \A p : Lookup!Named(p) = On(vol)!Named(p)
  BY <1>9 DEF Lookup!Named, On!Named
<1>11. \A p : Lookup!ThroughClusterZero(p) <=> On(vol)!ThroughClusterZero(p)
  BY <1>9 DEF Lookup!ThroughClusterZero, On!ThroughClusterZero
<1> QED BY <1>1, <1>2, <1>3, <1>4, <1>7, <1>8, <1>10, <1>11

(* Neither deleted entries nor end markers are live.                       *)
LEMMA LiveSlotsLive ==
  ASSUME NEW slots, NEW s \in Lookup!LiveSlots(slots)
  PROVE  s.kind \notin {"deleted", "end"}
BY DEF Lookup!LiveSlots

(* The directory in memory is where the next part is looked for.           *)
LEMMA LookedThrough ==
  ASSUME vol \in Volumes, On(vol)!TidyVolume, Len(path) \in Nat,
         Finding, current.type \in {"none", "directory"}
  PROVE  /\ \A at \in Levels(vol, path) :
              at[part] = {s \in Listed(listing) : Lookup!Names(path[part], s)}
         /\ \A s \in Listed(listing) :
              /\ s \in SlotsOf(vol) /\ s.kind \in {"file", "dir"} /\ s.filename # Lookup!Failed
              /\ s.kind = "dir" => s.ext = <<>>
         /\ \A s, t \in Listed(listing) :
              Lookup!SameName(Lookup!fat16_get_full_filename(s), Lookup!fat16_get_full_filename(t))
                => s = t
<1>1. PICK slots :
        /\ Listed(listing) = Lookup!LiveSlots(slots) /\ NamesDiffer(slots)
        /\ Lookup!LiveSlots(slots) \in SUBSET SlotsOf(vol)
        /\ \A at \in Levels(vol, path) : From(vol, part, at[part - 1]) = Lookup!LiveSlots(slots)
  <2>1. CASE current.type = "none"
    <3>1. part = 1 /\ Listed(listing) = Lookup!LiveSlots(vol.root)
      BY <2>1 DEF Finding
    <3>2. \A A : From(vol, part, A) = Lookup!LiveSlots(vol.root)
      BY <3>1 DEF From
    <3> QED BY <3>1, <3>2, DirectorySlots
  <2>2. CASE current.type = "directory"
    <3> DEFINE s == current.slot
               slots == On(vol)!ChainSlots(s.cluster)
    <3>1. /\ part > 1 /\ StandsAt(vol, path, s, part - 1)
          /\ s \in SlotsOf(vol) /\ s.kind = "dir"
          /\ Listed(listing) = Lookup!LiveSlots(slots)
      BY <2>2 DEF Finding
    <3>2. Lookup!LiveSlots(slots) \in SUBSET SlotsOf(vol) /\ NamesDiffer(slots)
      BY <3>1, DirectorySlots
    <3>3. ASSUME NEW at \in Levels(vol, path)
          PROVE  From(vol, part, at[part - 1]) = Lookup!LiveSlots(slots)
      <4>1. {t \in at[part - 1] : t.kind = "dir"} = {s}
        BY <3>1 DEF StandsAt, Bare
      <4>2. From(vol, part, at[part - 1]) =
              UNION {Lookup!LiveSlots(On(vol)!ChainSlots(t.cluster)) : t \in {s}}
        <5>1. part # 1
          BY <3>1 DEF Finding
        <5> HIDE DEF s
        <5> QED BY <4>1, <5>1 DEF From
      <4> HIDE DEF s
      <4> QED BY <4>2
    <3> HIDE DEF slots, s
    <3> QED BY <3>1, <3>2, <3>3
  <2> QED BY <2>1, <2>2
<1>2. \A at \in Levels(vol, path) :
        at[part] = {s \in Listed(listing) : Lookup!Names(path[part], s)}
  <2>1. part \in 1 .. Len(path)
    BY DEF Finding
  <2> QED BY <1>1, <2>1 DEF Levels
<1>3. ASSUME NEW s \in Listed(listing)
      PROVE  /\ s \in SlotsOf(vol) /\ s.kind \in {"file", "dir"} /\ s.filename # Lookup!Failed
             /\ s.kind = "dir" => s.ext = <<>>
  <2>1. s \in SlotsOf(vol) /\ s.kind \notin {"deleted", "end"}
    BY <1>1, LiveSlotsLive
  <2> QED BY <2>1, SlotsAssumption
<1>4. \A s, t \in Listed(listing) :
        Lookup!SameName(Lookup!fat16_get_full_filename(s), Lookup!fat16_get_full_filename(t)) => s = t
  BY <1>1 DEF NamesDiffer
<1> QED BY <1>2, <1>3, <1>4

(* A part that is not found names nothing but files without an extension,  *)
(* and then nor does the path.                                             *)
LEMMA NotFoundIs ==
  ASSUME vol \in Volumes, On(vol)!TidyVolume, Len(path) \in Nat, LookupInv,
         Finding, Lookup!NotFound, NEW at \in Levels(vol, path)
  PROVE  \A t \in at[Len(path)] : Bare(t)
<1>0. part \in 1 .. Len(path) /\ part \in Nat
  BY DEF Finding
<1>1. CASE current.type \in {"none", "directory"}
  <2>1. Lookup!Matches(listing, path[part]) = {}
    BY <1>1 DEF Lookup!NotFound
  <2>2. \A t \in Listed(listing) :
          ~ Lookup!SameName(Lookup!fat16_get_full_filename(t), path[part])
    BY <2>1 DEF Lookup!Matches, Listed
  <2>3. ASSUME NEW t \in at[part] PROVE Bare(t)
    <3>1. t \in Listed(listing) /\ Lookup!Names(path[part], t)
      BY <1>1, LookedThrough
    <3>2. t.kind \in {"file", "dir"} /\ (t.kind = "dir" => t.ext = <<>>)
      BY <1>1, <3>1, LookedThrough
    <3> QED BY <2>2, <3>1, <3>2, NameIsMatched
  <2>4. CASE part = Len(path)
    BY <2>3, <2>4
  <2>5. CASE part # Len(path)
    <3>1. Len(path) \in part + 1 .. Len(path)
      BY <1>0, <2>5
    <3>2. \A t \in at[part] : t.kind # "dir"
      BY <2>3 DEF Bare
    <3>3. at[Len(path)] = {}
      BY <1>0, <3>1, <3>2, NothingBehind
    <3> QED BY <3>3
  <2> QED BY <2>4, <2>5
<1>2. CASE current.type \notin {"none", "directory"}
  <2>1. current.type = "file"
    BY <1>2 DEF LookupInv, Lookup!NotFound, Lookup!Unsound
  <2>2. /\ part > 1 /\ StandsAt(vol, path, current.slot, part - 1) /\ current.slot.kind # "dir"
    BY <2>1 DEF Finding
  <2>3. \A t \in at[part - 1] : t.kind # "dir"
    BY <2>2 DEF StandsAt, Bare
  <2>4. part - 1 \in 1 .. Len(path) /\ Len(path) \in (part - 1) + 1 .. Len(path)
    BY <1>0, <2>2
  <2>5. at[Len(path)] = {}
    BY <2>3, <2>4, NothingBehind
  <2> QED BY <2>5
<1> QED BY <1>1, <1>2

(* The first entry of that name is the only one.                           *)
LEMMA FoundIs ==
  ASSUME vol \in Volumes, On(vol)!TidyVolume, Len(path) \in Nat,
         Finding, current.type \in {"none", "directory"},
         Lookup!Matches(listing, path[part]) # {},
         NEW slot, slot = listing[Lookup!Smallest(Lookup!Matches(listing, path[part]))]
  PROVE  /\ slot \in SlotsOf(vol) /\ slot.filename # Lookup!Failed
         /\ StandsAt(vol, path, slot, part)
<1> DEFINE M == Lookup!Matches(listing, path[part])
           full(s) == Lookup!fat16_get_full_filename(s)
<1>1. M \in SUBSET Nat /\ M # {}
  BY DEF Lookup!Matches
<1>2. Lookup!Smallest(M) \in M
  <2> HIDE DEF M
  <2> QED BY <1>1, SmallestIs
<1>3. slot \in Listed(listing) /\ Lookup!SameName(full(slot), path[part])
  BY <1>2 DEF Lookup!Matches, Listed
<1>4. slot \in SlotsOf(vol) /\ slot.filename # Lookup!Failed
  BY <1>3, LookedThrough
<1>5. ASSUME NEW at \in Levels(vol, path)
      PROVE  slot \in at[part] /\ \A t \in at[part] : t = slot \/ Bare(t)
  <2>1. at[part] = {s \in Listed(listing) : Lookup!Names(path[part], s)}
    BY LookedThrough
  <2>2. \A s \in Listed(listing) : s.kind \in {"file", "dir"} /\ (s.kind = "dir" => s.ext = <<>>)
    BY LookedThrough
  <2>3. Lookup!Names(path[part], slot)
    BY <1>3, <2>2, NameIsMatched
  <2>4. ASSUME NEW t \in at[part], ~ Bare(t) PROVE t = slot
    <3>1. t \in Listed(listing) /\ Lookup!SameName(full(t), path[part])
      BY <2>1, <2>2, <2>4, NameIsMatched
    <3>2. Lookup!SameName(full(t), full(slot))
      BY <1>3, <3>1 DEF Lookup!SameName
    <3> QED BY <1>3, <3>1, <3>2, LookedThrough
  <2> QED BY <1>3, <2>1, <2>3, <2>4
<1> QED BY <1>4, <1>5 DEF StandsAt

-----------------------------------------------------------------------------
(* fopen goes on only with a list that the parser has made.                *)
LEMMA AcceptedIs ==
  ASSUME ParserInv, Accepted
  PROVE  /\ root.parts # <<>> /\ Len(root.parts) \in Nat /\ Len(root.parts) >= 1
         /\ Begun /\ root.drive = Drive
<1>1. Begun /\ root.parts # <<>> /\ root.drive = Drive
  BY DEF ParserInv, Accepted
<1>2. root.parts \in Seq(Seq(Characters))
  BY <1>1 DEF Begun
<1>3. Len(root.parts) \in Nat /\ Len(root.parts) # 0
  BY <1>1, <1>2, EmptySeq
<1> QED BY <1>1, <1>3

(* fat16_open starts in the root directory.                                *)
LEMMA OpenWalked ==
  ASSUME PathWalked, ParserInv, OpenPath
  PROVE  PathWalked'
<1>1. /\ parsing = "done" /\ Accepted /\ path = <<>> /\ pc = "idle"
      /\ path' = root.parts /\ part' = 1 /\ current' = Lookup!NoItem /\ vol' = vol
      /\ root' = root /\ parsing' = parsing
      /\ \/ pc' = "find" /\ oom' = FALSE /\ listing' = Lookup!root_directory
         \/ oom' = TRUE
  BY DEF OpenPath, Lookup!fat16_open, parser
<1>2. path' # <<>> /\ Len(path') \in Nat /\ Len(path') >= 1
  BY <1>1, AcceptedIs
<1>3. Accepted'
  BY <1>1 DEF Accepted, Parser!NULL
<1>4. current'.type = "none"
  BY <1>1 DEF Lookup!NoItem
<1>5. ASSUME On(vol)!TidyVolume, pc' = "find", listing' = Lookup!root_directory PROVE Finding'
  <2>1. Listed(listing') = Lookup!LiveSlots(vol'.root)
    BY <1>1, <1>5, OnThisVolume, RootLoaded DEF PathWalked
  <2>2. part' \in 1 .. Len(path')
    BY <1>1, <1>2
  <2> QED BY <1>1, <1>4, <2>1, <2>2 DEF Finding
<1>6. vol' \in Volumes /\ oom' \in BOOLEAN
  BY <1>1 DEF PathWalked
<1>7. CASE pc' = "find" /\ oom' = FALSE /\ listing' = Lookup!root_directory
  <2>1. On(vol)!TidyVolume => Finding'
    BY <1>5, <1>7
  <2> QED BY <1>1, <1>2, <1>3, <1>6, <1>7, <2>1 DEF PathWalked
<1>8. CASE oom' = TRUE
  BY <1>1, <1>2, <1>3, <1>6, <1>8 DEF PathWalked
<1> QED BY <1>1, <1>7, <1>8

(* What a step of the walk leaves alone.                                   *)
LEMMA WalkKeeps ==
  ASSUME PathWalked, Walk
  PROVE  /\ vol' = vol /\ path' = path /\ path # <<>> /\ pc \in {"find", "opened"}
         /\ root' = root /\ parsing' = parsing /\ Accepted' /\ oom' \in BOOLEAN
         /\ oom => oom'
<1>1. root' = root /\ parsing' = parsing
  BY DEF Walk, parser
<1>2. /\ vol' = vol /\ path' = path /\ pc \in {"find", "opened"} /\ oom' \in BOOLEAN
      /\ oom => oom'
  <2>1. CASE Lookup!NotFound
    BY <2>1 DEF Lookup!NotFound, Lookup!GiveUp, PathWalked
  <2>2. CASE Lookup!NoMemory
    BY <2>2 DEF Lookup!NoMemory, Lookup!GiveUp
  <2>3. CASE Lookup!Found
    <3>1. PICK slot : \E type \in {Lookup!Loaded(slot), Lookup!Starved(slot)} :
            oom' = (oom \/ type # Lookup!Loaded(slot))
      BY <2>3 DEF Lookup!Found
    <3>2. PICK type : oom' = (oom \/ type # Lookup!Loaded(slot))
      BY <3>1
    <3>3. oom' \in BOOLEAN /\ (oom => oom')
      <4>1. (oom \/ type # Lookup!Loaded(slot)) \in BOOLEAN
        OBVIOUS
      <4> QED BY <3>2, <4>1, Zenon
    <3>4. vol' = vol /\ path' = path /\ pc = "find"
      BY <2>3 DEF Lookup!Found
    <3> QED BY <3>3, <3>4
  <2>4. CASE Lookup!FollowUnsound
    BY <2>4 DEF Lookup!FollowUnsound, PathWalked
  <2>5. CASE Lookup!fat16_close
    BY <2>5 DEF Lookup!fat16_close, PathWalked
  <2> QED BY <2>1, <2>2, <2>3, <2>4, <2>5 DEF Walk, Lookup!Step
<1>3. path # <<>>
  BY <1>2 DEF PathWalked
<1>4. Accepted'
  BY <1>1, <1>3 DEF PathWalked, Accepted, Parser!NULL
<1> QED BY <1>1, <1>2, <1>3, <1>4

(* The entry found is what the parts so far name, and when it is a         *)
(* directory, what is loaded of it is what is in it.                       *)
LEMMA FoundWalked ==
  ASSUME PathWalked, LookupInv, On(vol)!TidyVolume, ~ On(vol)!ThroughClusterZero(path),
         path # <<>>, Lookup!Found, ~ oom'
  PROVE  /\ pc' = "find" => Finding'
         /\ pc' = "opened" =>
              answer' # Lookup!Failed /\ StandsAt(vol, path, current'.slot, Len(path))
         /\ pc' \in {"find", "opened"}
<1> DEFINE slot == listing[Lookup!Smallest(Lookup!Matches(listing, path[part]))]
<1>1. /\ pc = "find" /\ current.type \in {"none", "directory"}
      /\ Lookup!Matches(listing, path[part]) # {}
      /\ vol' = vol /\ path' = path
      /\ IF part = Len(path)
         THEN pc' = "opened" /\ answer' = current'.slot.filename
         ELSE part' = part + 1 /\ pc' = pc
  BY DEF Lookup!Found, Lookup!LastPart
<1>2. PICK type \in {Lookup!Loaded(slot), Lookup!Starved(slot)} :
        /\ current' = [type |-> type, slot |-> slot, part |-> part]
        /\ listing' = IF type = "directory"
                      THEN Lookup!SlotsRead(slot.cluster, Lookup!CountOf(slot)) ELSE <<>>
        /\ oom' = (oom \/ type # Lookup!Loaded(slot))
  BY DEF Lookup!Found
<1> HIDE DEF slot
<1>3. ~ oom /\ type = Lookup!Loaded(slot)
  BY <1>2, Zenon
<1>4. /\ vol \in Volumes /\ Len(path) \in Nat /\ Finding /\ part \in 1 .. Len(path)
  BY <1>1, <1>3 DEF PathWalked, Finding
<1>5. /\ slot \in SlotsOf(vol) /\ slot.filename # Lookup!Failed /\ StandsAt(vol, path, slot, part)
  BY <1>1, <1>4, FoundIs DEF slot
<1>6. current'.type = type /\ current'.slot = slot
  BY <1>2
<1>7. CASE part = Len(path)
  BY <1>1, <1>5, <1>6, <1>7
<1>8. CASE part # Len(path)
  <2>1. part' \in 1 .. Len(path) /\ part' > 1 /\ part' - 1 = part
    BY <1>1, <1>4, <1>8
  <2>2. type \in {"file", "directory", "broken"}
    BY <1>3 DEF Lookup!Loaded
  <2>3. type = "file" => slot.kind # "dir"
    BY <1>3 DEF Lookup!Loaded
  <2>4. ASSUME type = "directory"
        PROVE  /\ slot.kind = "dir"
               /\ Listed(listing') = Lookup!LiveSlots(On(vol)!ChainSlots(slot.cluster))
    <3>1. slot.kind = "dir" /\ Lookup!Readable(slot.cluster, Lookup!CountOf(slot))
      BY <1>3, <2>4 DEF Lookup!Loaded
    <3>2. Lookup!CountOf(slot) = On(vol)!total_items(On(vol)!fat16_cluster_to_sector(slot.cluster))
      BY OnThisVolume DEF Lookup!CountOf
    <3>3. slot.cluster \in DOMAIN vol.data
      <4>1. slot.cluster \in ClusterOrEnd(vol)
        BY <1>4, <1>5, <3>1, DirectorySlots
      <4>2. slot \in On(vol)!Reached(path)[part]
        BY <1>4, <1>5, ReachedIs DEF StandsAt
      <4>3. part \in 1 .. Len(path) - 1
        BY <1>4, <1>8
      <4>4. slot.cluster # 0
        BY <3>1, <4>2, <4>3 DEF On!ThroughClusterZero
      <4> QED BY <4>1, <4>4 DEF ClusterOrEnd
    <3>4. listing' = On(vol)!SlotsRead(slot.cluster, Lookup!CountOf(slot))
      BY <1>2, <2>4, OnThisVolume
    <3>5. On(vol)!Readable(slot.cluster, Lookup!CountOf(slot))
      BY <3>1, OnThisVolume
    <3> QED BY <1>4, <3>1, <3>2, <3>3, <3>4, <3>5, DirectoryLoaded
  <2>5. Finding'
    BY <1>1, <1>5, <1>6, <2>1, <2>2, <2>3, <2>4 DEF Finding
  <2> QED BY <1>1, <1>8, <2>5
<1> QED BY <1>7, <1>8

(* Every step of the walk keeps to the path.                               *)
LEMMA WalkWalked ==
  ASSUME PathWalked, LookupInv, Walk
  PROVE  PathWalked'
<1>1. /\ vol' = vol /\ path' = path /\ path # <<>> /\ pc \in {"find", "opened"}
      /\ root' = root /\ parsing' = parsing /\ Accepted' /\ oom' \in BOOLEAN
      /\ oom => oom'
  BY WalkKeeps
<1>2. vol' \in Volumes /\ Len(path') \in Nat /\ parsing' = "done" /\ path' = root'.parts
  BY <1>1 DEF PathWalked
<1> SUFFICES ASSUME On(vol)!TidyVolume, ~ On(vol)!ThroughClusterZero(path), ~ oom'
             PROVE  /\ pc' = "find" => Finding'
                    /\ pc' = "opened" =>
                         answer' # Lookup!Failed /\ StandsAt(vol, path, current'.slot, Len(path))
                    /\ pc' = "idle" /\ answer' = Lookup!Failed =>
                         \A at \in Levels(vol, path) : \A t \in at[Len(path)] : Bare(t)
  BY <1>1, <1>2 DEF PathWalked
<1>3. /\ ~ oom /\ vol \in Volumes /\ Len(path) \in Nat
      /\ pc = "find" => Finding
      /\ pc = "opened" => answer # Lookup!Failed
  BY <1>1 DEF PathWalked
<1>4. CASE Lookup!NotFound
  <2>1. pc = "find" /\ pc' = "idle"
    BY <1>4 DEF Lookup!NotFound, Lookup!GiveUp
  <2> QED BY <1>3, <1>4, <2>1, NotFoundIs
<1>5. CASE Lookup!NoMemory
  BY <1>5 DEF Lookup!NoMemory
<1>6. CASE Lookup!Found
  BY <1>1, <1>6, FoundWalked
<1>7. CASE Lookup!FollowUnsound
  BY <1>7 DEF Lookup!FollowUnsound
<1>8. CASE Lookup!fat16_close
  BY <1>3, <1>8 DEF Lookup!fat16_close
<1> QED BY <1>4, <1>5, <1>6, <1>7, <1>8 DEF Walk, Lookup!Step

(* So does every step of the call.                                         *)
LEMMA NextWalked ==
  ASSUME PathWalked, CallInv, [CallNext]_callVars
  PROVE  PathWalked'
<1>1. ASSUME UNCHANGED lookup, path = <<>> \/ UNCHANGED parser PROVE PathWalked'
  <2>1. /\ vol' = vol /\ path' = path /\ pc' = pc /\ part' = part /\ current' = current
        /\ listing' = listing /\ oom' = oom /\ answer' = answer
    BY <1>1 DEF lookup
  <2>2. CASE path = <<>>
    BY <2>1, <2>2 DEF PathWalked
  <2>3. CASE UNCHANGED parser
    <3>1. root' = root /\ parsing' = parsing /\ Accepted' = Accepted
      BY <2>3 DEF parser, Accepted, Parser!NULL
    <3>2. Finding' = Finding
      BY <2>1 DEF Finding
    <3> QED BY <2>1, <3>1, <3>2 DEF PathWalked
  <2> QED BY <1>1, <2>2, <2>3
<1>2. ASSUME NEW f \in Inputs, ParsePath(f) PROVE PathWalked'
  <2>1. UNCHANGED lookup /\ parsing # "done"
    BY <1>2 DEF ParsePath, Parser!pathparser_parse
  <2> QED BY <1>1, <2>1 DEF PathWalked
<1>3. CASE Parse
  <2>1. UNCHANGED lookup /\ parsing # "done"
    BY <1>3 DEF Parse, Parser!Step, Parser!NextPart, Parser!Copy, Parser!Empty, Parser!Linked, Parser!Lost
  <2> QED BY <1>1, <2>1 DEF PathWalked
<1>4. CASE OpenPath
  BY <1>4, OpenWalked DEF CallInv
<1>5. CASE Walk
  BY <1>5, WalkWalked DEF CallInv
<1>6. CASE UNCHANGED callVars
  BY <1>1, <1>6 DEF callVars
<1> QED BY <1>2, <1>3, <1>4, <1>5, <1>6 DEF CallNext

(* What the walk found or did not find is what the string says.            *)
LEMMA WalkedIsNamed ==
  ASSUME PathWalked, CallInv
  PROVE  OpensTheFileNamed
<1> SUFFICES ASSUME Lookup!TidyVolume, Granted,
                    Parser!Legal(filename) => ~ Lookup!ThroughClusterZero(Parser!Spelt(filename))
             PROVE
      /\ pc = "opened" => current.slot \in Target
      /\ NothingOpened => \A slot \in Target : slot.kind = "file" /\ slot.ext = <<>>
  BY DEF OpensTheFileNamed
<1>1. On(vol)!TidyVolume /\ ~ unparsed /\ ~ oom /\ vol \in Volumes /\ ParserInv
  BY OnThisVolume DEF Granted, PathWalked, CallInv
<1>2. CASE path # <<>>
  <2>1. parsing = "done" /\ Accepted /\ path = root.parts /\ Len(path) \in Nat
    BY <1>2 DEF PathWalked
  <2>2. Parser!Legal(filename) /\ filename[1] = Drive /\ path = Parser!Spelt(filename)
    <3>1. Begun /\ root.drive = Drive
      BY <1>1, <2>1, AcceptedIs
    <3>2. Parser!Legal(filename) /\ filename[1] = Drive
      BY <3>1 DEF Begun
    <3>3. root.parts = Parser!Spelt(filename)
      BY <1>1, <2>1, <3>2 DEF ParserInv, Parser!ListIsPath
    <3> QED BY <2>1, <3>2, <3>3
  <2>3. Target = On(vol)!Named(path)
    BY <2>2, OnThisVolume DEF Target
  <2>4. PICK at \in Levels(vol, path) : On(vol)!Named(path) = at[Len(path)]
    BY <1>1, <2>1, ReachedIs
  <2>5. /\ pc = "opened" => StandsAt(vol, path, current.slot, Len(path))
        /\ pc = "idle" /\ answer = Lookup!Failed => \A t \in at[Len(path)] : Bare(t)
    <3>1. ~ On(vol)!ThroughClusterZero(path)
      BY <2>2, OnThisVolume
    <3> QED BY <1>1, <1>2, <3>1 DEF PathWalked
  <2>6. pc = "opened" => current.slot \in Target
    BY <2>3, <2>4, <2>5 DEF StandsAt
  <2>7. NothingOpened => \A t \in Target : Bare(t)
    BY <2>3, <2>4, <2>5 DEF NothingOpened
  <2> QED BY <2>6, <2>7 DEF Bare
<1>3. CASE path = <<>>
  <2>1. pc = "idle"
    BY <1>3 DEF PathWalked
  <2>2. ASSUME NothingOpened PROVE Target = {}
    <3>1. parsing = "done" /\ ~ Accepted
      BY <1>3, <2>2 DEF NothingOpened
    <3> SUFFICES ASSUME Parser!Legal(filename), filename[1] = Drive
                 PROVE  Lookup!Named(Parser!Spelt(filename)) = {}
      BY DEF Target
    <3>2. /\ root # Parser!NULL /\ root.parts = Parser!Spelt(filename) /\ root.drive = filename[1]
      BY <1>1, <3>1 DEF ParserInv, Parser!ListIsPath
    <3>3. Parser!Spelt(filename) = <<>>
      BY <3>1, <3>2 DEF Accepted
    <3>4. Len(<<>>) = 0 /\ 0 \in Nat
      OBVIOUS
    <3>5. PICK at \in Levels(vol, <<>>) : On(vol)!Named(<<>>) = at[0]
      BY <1>1, <3>4, ReachedIs
    <3>6. at[0] = {}
      BY DEF Levels
    <3> QED BY <3>3, <3>5, <3>6, OnThisVolume
  <2> QED BY <2>1, <2>2
<1> QED BY <1>2, <1>3

(* The walk so far is the way the path names, in every state of the call.  *)
LEMMA CallWalked == CallSpec => []PathWalked
<1>1. CallInit => PathWalked
  <2> SUFFICES ASSUME CallInit PROVE PathWalked
    OBVIOUS
  <2>1. vol \in Volumes /\ path = <<>> /\ pc = "idle" /\ oom = FALSE /\ answer = Lookup!Failed
    BY DEF CallInit, Lookup!Init
  <2>2. Len(path) \in Nat /\ oom \in BOOLEAN
    BY <2>1
  <2> QED BY <2>1, <2>2 DEF PathWalked
<1>2. PathWalked /\ CallInv /\ [CallNext]_callVars => PathWalked'
  BY NextWalked
<1> QED BY <1>1, <1>2, FopenInvariance, PTL DEF CallSpec

(* On a tidy volume, that is one whose directories have one or two         *)
(* clusters, in order, and no deleted entries, fopen with its memory       *)
(* granted opens nothing but what its string names, in whatever case, and  *)
(* returns without a file only when nothing but files without an extension *)
(* have that name: for every path that does not go on through the ".." of  *)
(* a directory in the root, every volume with its chains and every cluster *)
(* size.                                                                   *)
THEOREM FopenOpensTheFileNamed == CallSpec => []OpensTheFileNamed
<1>1. PathWalked /\ CallInv => OpensTheFileNamed
  BY WalkedIsNamed
<1> QED BY <1>1, CallWalked, FopenInvariance, PTL

(* fopen parses, opens, walks and closes, in this order.                   *)
Stage ==
  CASE parsing \in {"part", "char"} -> 2
    [] parsing = "done" /\ path = <<>> -> 1
    [] OTHER -> 0

(* What is still to be done of a stage, at most: a character is copied or  *)
(* ends a name, which is linked before the next one begins; and each part  *)
(* is looked for once.                                                     *)
ToDo ==
  CASE parsing \in {"part", "char"} ->
         4 * (Len(filename) + 1 - place)
           + (IF parsing = "part" THEN 2 ELSE IF length > 0 THEN 3 ELSE 1)
    [] parsing \notin {"part", "char"} /\ pc = "find" -> (Len(path) - part) + 2
    [] parsing \notin {"part", "char"} /\ pc = "opened" -> 1
    [] OTHER -> 0

(* The part that is looked for is one of the path.                         *)
OnPath == pc = "find" => part \in 1 .. Len(path)

(* It stays one, also when the path changes.                               *)
LEMMA NextOnPath ==
  ASSUME PathWalked, CallInv, OnPath, [CallNext]_callVars
  PROVE  OnPath'
<1>1. CASE UNCHANGED lookup
  BY <1>1 DEF lookup, OnPath
<1>2. CASE OpenPath
  <2>1. Len(root.parts) \in Nat /\ Len(root.parts) >= 1
    BY <1>2, AcceptedIs DEF OpenPath, CallInv
  <2>2. path' = root.parts /\ part' = 1
    BY <1>2 DEF OpenPath, Lookup!fat16_open
  <2> QED BY <2>1, <2>2 DEF OnPath
<1>3. CASE Walk
  <2>1. path' = path /\ Len(path) \in Nat
    BY <1>3, WalkKeeps DEF PathWalked
  <2>2. pc' = "find" => pc = "find" /\ part # Len(path) /\ part' = part + 1
    BY <1>3 DEF Walk, Lookup!Step, Lookup!NotFound, Lookup!NoMemory, Lookup!GiveUp, Lookup!Found,
                Lookup!FollowUnsound, Lookup!fat16_close, Lookup!LastPart
  <2> QED BY <2>1, <2>2 DEF OnPath
<1> QED BY <1>1, <1>2, <1>3 DEF CallNext, ParsePath, Parse, callVars

(* The count is one.                                                       *)
LEMMA ToDoIs ==
  ASSUME PathWalked, CallInv, OnPath
  PROVE  ToDo \in Nat
<1>1. Len(filename) \in Nat /\ place \in Nat /\ place <= Len(filename) + 1
  BY DEF CallInv, ParserInv
<1>2. Len(path) \in Nat
  BY DEF PathWalked
<1>3. 4 * (Len(filename) + 1 - place) \in Nat
  BY <1>1
<1> DEFINE chars == 4 * (Len(filename) + 1 - place)
<1> HIDE DEF chars
<1>4. CASE parsing \in {"part", "char"}
  BY <1>3, <1>4 DEF ToDo, chars
<1>5. CASE parsing \notin {"part", "char"}
  BY <1>2, <1>5 DEF ToDo, OnPath
<1> QED BY <1>4, <1>5

(* A step of the parser gets on in the string, or ends it.                 *)
LEMMA LessToParse ==
  ASSUME PathWalked, CallInv, CallInv', Parse
  PROVE  \/ Stage' < Stage
         \/ Stage' = Stage /\ ToDo' < ToDo
<1>1. /\ Len(filename) \in Nat /\ place \in Nat /\ place <= Len(filename) + 1
      /\ place' \in Nat /\ place' <= Len(filename') + 1 /\ length \in Nat /\ length' \in Nat
  BY DEF CallInv, ParserInv
<1>2. filename' = filename /\ parsing \in {"part", "char"} /\ path = <<>> /\ path' = path
  <2>1. filename' = filename /\ parsing \in {"part", "char"} /\ path' = path
    BY DEF Parse, Parser!Step, Parser!NextPart, Parser!Copy, Parser!Empty, Parser!Linked, Parser!Lost,
           lookup
  <2> QED BY <2>1 DEF PathWalked
<1> DEFINE here == Len(filename) + 1 - place
           there == Len(filename) + 1 - place'
<1>3. here \in Nat /\ there \in Nat
  BY <1>1, <1>2
<1>4. /\ Stage = 2
      /\ ToDo = 4 * here + (IF parsing = "part" THEN 2 ELSE IF length > 0 THEN 3 ELSE 1)
  BY <1>2 DEF Stage, ToDo
<1>5. parsing' \in {"part", "char"} =>
        /\ Stage' = 2
        /\ ToDo' = 4 * there + (IF parsing' = "part" THEN 2 ELSE IF length' > 0 THEN 3 ELSE 1)
  BY <1>2 DEF Stage, ToDo
<1>6. CASE parsing' = "done"
  BY <1>2, <1>4, <1>6 DEF Stage
<1>7. CASE parsing = "part" /\ parsing' = "char" /\ place' = place /\ length' = 0
  <2>1. here = there
    BY <1>7
  <2> HIDE DEF here, there
  <2> QED BY <1>3, <1>4, <1>5, <1>7, <2>1
<1>8. CASE parsing = "char" /\ parsing' = "char" /\ place' = place + 1
  <2>1. there = here - 1
    BY <1>1, <1>8
  <2> HIDE DEF here, there
  <2> QED BY <1>3, <1>4, <1>5, <1>8, <2>1
<1>9. CASE parsing = "char" /\ parsing' = "part" /\ place' \in {place, place + 1} /\ length > 0
  <2>1. there <= here
    BY <1>1, <1>9
  <2> HIDE DEF here, there
  <2> QED BY <1>3, <1>4, <1>5, <1>9, <2>1
<1>10. \/ parsing' = "done"
       \/ parsing = "part" /\ parsing' = "char" /\ place' = place /\ length' = 0
       \/ parsing = "char" /\ parsing' = "char" /\ place' = place + 1
       \/ parsing = "char" /\ parsing' = "part" /\ place' \in {place, place + 1} /\ length > 0
  <2>1. CASE Parser!NextPart
    BY <2>1 DEF Parser!NextPart
  <2>2. CASE Parser!Copy
    BY <2>2 DEF Parser!Copy
  <2>3. CASE Parser!Empty
    BY <2>3 DEF Parser!Empty
  <2>4. CASE Parser!Linked
    <3>1. Parser!Slash \in {0, 1}
      BY DEF Parser!Slash
    <3>2. place' = place + Parser!Slash
      BY <2>4 DEF Parser!Linked
    <3>3. parsing = "char" /\ parsing' = "part" /\ length > 0
      BY <2>4 DEF Parser!Linked
    <3> QED BY <1>1, <3>1, <3>2, <3>3
  <2>5. CASE Parser!Lost
    BY <2>5 DEF Parser!Lost
  <2> QED BY <2>1, <2>2, <2>3, <2>4, <2>5 DEF Parse, Parser!Step
<1> HIDE DEF here, there
<1> QED BY <1>6, <1>7, <1>8, <1>9, <1>10

(* A step of the walk gets on in the path, or ends it.                     *)
LEMMA LessToWalk ==
  ASSUME PathWalked, OnPath, Walk
  PROVE  Stage' = Stage /\ ToDo' < ToDo
<1>1. /\ path' = path /\ path # <<>> /\ parsing' = parsing /\ parsing = "done"
      /\ Len(path) \in Nat /\ pc \in {"find", "opened"}
  BY WalkKeeps DEF PathWalked
<1>2. Stage' = Stage
  BY <1>1 DEF Stage
<1>3. \/ pc' \in {"idle", "undefined"}
      \/ pc = "find" /\ pc' = "opened"
      \/ pc = "find" /\ pc' = "find" /\ part # Len(path) /\ part' = part + 1
  BY <1>1 DEF Walk, Lookup!Step, Lookup!NotFound, Lookup!NoMemory, Lookup!GiveUp, Lookup!Found,
                Lookup!FollowUnsound, Lookup!fat16_close, Lookup!LastPart
<1>4. ToDo' < ToDo
  BY <1>1, <1>3 DEF ToDo, OnPath
<1> QED BY <1>2, <1>4

(* fopen gets on: each step of path_parser.c and of the walk in fat16.c    *)
(* goes to a later stage of the call or leaves less to do in this one, for *)
(* every string and every volume; no part of the path is looked for twice. *)
THEOREM FopenGetsOn ==
  CallSpec =>
    /\ [](Stage \in Nat /\ ToDo \in Nat)
    /\ [][Parse \/ OpenPath \/ Walk => Stage' < Stage \/ (Stage' = Stage /\ ToDo' < ToDo)]_callVars
<1>1. CallInit => OnPath
  BY DEF CallInit, Lookup!Init, OnPath
<1>2. PathWalked /\ CallInv /\ OnPath /\ [CallNext]_callVars => OnPath'
  BY NextOnPath
<1>3. CallSpec => [](PathWalked /\ CallInv /\ OnPath)
  BY <1>1, <1>2, CallWalked, FopenInvariance, PTL DEF CallSpec
<1>4. PathWalked /\ CallInv /\ OnPath => Stage \in Nat /\ ToDo \in Nat
  BY ToDoIs DEF Stage
<1>5. ASSUME PathWalked, CallInv, OnPath, CallInv', [CallNext]_callVars
      PROVE  [Parse \/ OpenPath \/ Walk => Stage' < Stage \/ (Stage' = Stage /\ ToDo' < ToDo)]_callVars
  <2>1. CASE OpenPath
    <3>1. parsing = "done" /\ path = <<>> /\ path' = root.parts /\ root.parts # <<>> /\ parsing' = parsing
      BY <2>1 DEF OpenPath, Accepted, Lookup!fat16_open, parser
    <3> QED BY <3>1 DEF Stage
  <2> QED BY <1>5, <2>1, LessToParse, LessToWalk
<1> QED BY <1>3, <1>4, <1>5, PTL DEF CallSpec
=============================================================================
