-------------------------- MODULE Fat16ReadProofs ---------------------------
(***************************************************************************)
(* Proofs about Fat16Read, for every cluster size, volume, seek offset and *)
(* size and count of items.                                                *)
(***************************************************************************)
EXTENDS Fat16Read, TLAPS, SequenceTheorems

Reading == pc \in {"walk", "chunk"}

(* The clusters that may be read: of the file's own only as long as the    *)
(* code knows the end of its chain.                                        *)
Within == IF EndKnown THEN InFile ELSE Nat

(* Where the descriptor and the call stand in the file, and how much has   *)
(* been written; a byte that has is in one of the file's clusters.         *)
ReadInv ==
  /\ vol \in Volumes /\ pc \in {"idle", "item", "walk", "chunk"}
  /\ pos \in 0 .. vol.filesize /\ offset \in 0 .. vol.filesize
  /\ size \in Nat /\ read \in Nat
  /\ out \in Seq(Within \X Nat) /\ read * size <= Len(out)
  /\ pc # "idle" => offset = pos + read * size /\ size > 0
  /\ pc = "item" => Len(out) = read * size

(* The walk stays on the chain if its end is known, and what is left of    *)
(* the item, total, lies behind at.                                        *)
WalkInv ==
  Reading =>
    /\ target \in Within
    /\ offset + size <= vol.filesize
    /\ total \in 1 .. size /\ at = offset + (size - total)
    /\ Len(out) = read * size + (size - total)
    /\ i \in 0 .. at \div ClusterBytes
    /\ pc = "chunk" => i = at \div ClusterBytes

(* For an item that is read right, the walk began at the first cluster, or *)
(* at it again for the second, and what has been read of it is right.      *)
ShortInv ==
  Reading /\ Short(offset, size) =>
    /\ i < Len(vol.chain) /\ target = vol.chain[i + 1]
    /\ total = size \/ (at = ClusterBytes /\ FirstTwoClusters(offset, size))
    /\ \A k \in 0 .. size - total - 1 : out[read * size + k + 1] = FileByte(offset + k)

IInv == ReadInv /\ WalkInv /\ ShortInv /\ ShortReadsRight
-----------------------------------------------------------------------------
(* Quotient and remainder by the size of a cluster, and only they.         *)
LEMMA Divided ==
  ASSUME NEW p \in Nat
  PROVE  /\ p \div ClusterBytes \in Nat /\ p % ClusterBytes \in 0 .. ClusterBytes - 1
         /\ p = (p \div ClusterBytes) * ClusterBytes + (p % ClusterBytes)
BY Fat16Assumption

LEMMA Division ==
  ASSUME NEW q \in Int, NEW r \in 0 .. ClusterBytes - 1
  PROVE  /\ (q * ClusterBytes + r) \div ClusterBytes = q
         /\ (q * ClusterBytes + r) % ClusterBytes = r
BY Fat16Assumption

(* A number that fits a word is left alone.                                *)
LEMMA Small ==
  ASSUME NEW n \in Nat, NEW m \in 0 .. n - 1
  PROVE  m % n = m
OBVIOUS

(* A number below the size of a cluster, or within one cluster of it.      *)
LEMMA FirstQuotients ==
  ASSUME NEW p \in Nat
  PROVE  /\ p < ClusterBytes => p \div ClusterBytes = 0 /\ p % ClusterBytes = p
         /\ p \in ClusterBytes .. 2 * ClusterBytes - 1 =>
              p \div ClusterBytes = 1 /\ p % ClusterBytes = p - ClusterBytes
<1>0. ClusterBytes \in Nat \ {0}
  BY Fat16Assumption
<1>1. CASE p < ClusterBytes
  <2>1. p = 0 * ClusterBytes + p /\ p \in 0 .. ClusterBytes - 1
    BY <1>0, <1>1
  <2>2. (0 * ClusterBytes + p) \div ClusterBytes = 0 /\ (0 * ClusterBytes + p) % ClusterBytes = p
    BY <2>1, Division
  <2> QED BY <1>0, <1>1, <2>1, <2>2
<1>2. CASE p \in ClusterBytes .. 2 * ClusterBytes - 1
  <2> DEFINE r == p - ClusterBytes
  <2>1. p = 1 * ClusterBytes + r /\ r \in 0 .. ClusterBytes - 1
    BY <1>0, <1>2
  <2>2. (1 * ClusterBytes + r) \div ClusterBytes = 1 /\ (1 * ClusterBytes + r) % ClusterBytes = r
    BY <2>1, Division
  <2> QED BY <1>0, <1>2, <2>1, <2>2
<1> QED BY <1>1, <1>2

(* The bytes that the disk stream delivers from within a cluster.          *)
LEMMA ClusterRead ==
  ASSUME NEW c \in Within, c \in Nat, NEW o \in Nat, NEW n \in Nat, o + n <= ClusterBytes
  PROVE  LET bytes == diskstream_read(starting_pos(c, o), n)
         IN  /\ bytes \in Seq(Within \X Nat) /\ Len(bytes) = n
             /\ \A k \in 1 .. n : bytes[k] = <<c, o + k - 1>>
<1> DEFINE bytes == diskstream_read(starting_pos(c, o), n)
<1>0. ClusterBytes \in Nat \ {0} /\ c - 2 \in Int /\ 2 + (c - 2) = c
  BY Fat16Assumption
<1>1. ASSUME NEW k \in 1 .. n
      PROVE  bytes[k] = <<c, o + k - 1>> /\ o + k - 1 \in Nat
  <2>1. o + k - 1 \in 0 .. ClusterBytes - 1
    BY <1>0
  <2> DEFINE p == starting_pos(c, o) + k - 1
  <2>2. p = (c - 2) * ClusterBytes + (o + k - 1)
    <3>1. (c - 2) * ClusterBytes \in Int
      BY <1>0
    <3> QED BY <3>1 DEF starting_pos
  <2>3. bytes[k] = <<2 + p \div ClusterBytes, p % ClusterBytes>>
    BY DEF diskstream_read
  <2> HIDE DEF p
  <2>4. p \div ClusterBytes = c - 2 /\ p % ClusterBytes = o + k - 1
    BY <1>0, <2>1, <2>2, Division
  <2> QED BY <1>0, <2>1, <2>3, <2>4
<1>2. bytes \in [1 .. n -> Within \X Nat]
  <2>1. bytes = [k \in 1 .. n |-> bytes[k]]
    BY DEF diskstream_read
  <2>2. \A k \in 1 .. n : bytes[k] \in Within \X Nat
    BY <1>1
  <2> HIDE DEF bytes
  <2> QED BY <2>1, <2>2
<1>3. bytes \in Seq(Within \X Nat)
  BY <1>2, SeqDef
<1>4. Len(bytes) = n
  BY <1>2, <1>3, LenProperties
<1> QED BY <1>1, <1>3, <1>4

(* What the table holds for the n-th cluster of the file.                  *)
LEMMA NextInChain ==
  ASSUME vol \in Volumes, NEW n \in 1 .. Len(vol.chain)
  PROVE  /\ vol.chain[n] \in InFile /\ vol.chain[n] \in DataClusters
         /\ n < Len(vol.chain) =>
              /\ fat16_get_fat_entry_for_cluster(vol.chain[n]) = vol.chain[n + 1]
              /\ vol.chain[n + 1] \in InFile
         /\ n = Len(vol.chain) =>
              /\ fat16_get_fat_entry_for_cluster(vol.chain[n]) = vol.mark
              /\ EndKnown => WalkFails(vol.mark)
<1>1. /\ vol.chain \in Seq(DataClusters)
      /\ \A m \in 1 .. Len(vol.chain) : vol.chain[m] = vol.chain[n] => m = n
  BY Fat16Assumption
<1>2. Len(vol.chain) \in Nat /\ \A m \in 1 .. Len(vol.chain) : vol.chain[m] \in DataClusters
  BY <1>1, LenProperties, ElementOfSeq
<1>3. vol.chain[n] \in InFile
  BY DEF InFile
<1>4. (CHOOSE m \in 1 .. Len(vol.chain) : vol.chain[m] = vol.chain[n]) = n
  BY <1>1
<1>5. vol.chain[n] \notin BeyondTable
  <2>1. DataClusters \cap BeyondTable = {}
    BY SMT DEF BeyondTable, DataClusters
  <2> QED BY <1>2, <2>1
<1>6. fat16_get_fat_entry_for_cluster(vol.chain[n]) =
        IF n = Len(vol.chain) THEN vol.mark ELSE vol.chain[n + 1]
  BY <1>3, <1>4, <1>5 DEF fat16_get_fat_entry_for_cluster
<1>7. n < Len(vol.chain) => vol.chain[n + 1] \in InFile
  BY <1>2 DEF InFile
<1> QED BY <1>2, <1>3, <1>6, <1>7 DEF WalkFails, EndKnown

(* Every entry is a number.                                                *)
LEMMA Entries ==
  ASSUME vol \in Volumes, NEW c
  PROVE  fat16_get_fat_entry_for_cluster(c) \in Nat
<1>1. /\ vol.chain \in Seq(DataClusters) /\ vol.mark \in Marks
      /\ vol.beyond \in [BeyondTable -> uint16]
  BY Fat16Assumption
<1>2. CASE c \in BeyondTable
  <2>1. vol.beyond[c] \in uint16
    BY <1>1, <1>2
  <2>2. fat16_get_fat_entry_for_cluster(c) = vol.beyond[c]
    BY <1>2 DEF fat16_get_fat_entry_for_cluster
  <2>3. uint16 \subseteq Nat
    BY SMT DEF uint16
  <2> QED BY <2>1, <2>2, <2>3
<1>3. CASE c \notin BeyondTable /\ c \in InFile
  <2>1. PICK n \in 1 .. Len(vol.chain) : c = vol.chain[n]
    BY <1>3 DEF InFile
  <2>2. /\ n = Len(vol.chain) => fat16_get_fat_entry_for_cluster(c) = vol.mark
        /\ n < Len(vol.chain) => fat16_get_fat_entry_for_cluster(c) = vol.chain[n + 1]
    BY <2>1, NextInChain
  <2>3. Len(vol.chain) \in Nat /\ \A m \in 1 .. Len(vol.chain) : vol.chain[m] \in DataClusters
    BY <1>1, LenProperties, ElementOfSeq
  <2>4. n < Len(vol.chain) => vol.chain[n + 1] \in DataClusters
    BY <2>3
  <2>5. Marks \subseteq Nat /\ DataClusters \subseteq Nat
    BY SMT DEF Marks, FREE, BeyondTable, DataClusters
  <2>6. n = Len(vol.chain) \/ n < Len(vol.chain)
    BY <2>3
  <2> QED BY <1>1, <2>2, <2>4, <2>5, <2>6
<1>4. CASE c \notin BeyondTable /\ c \notin InFile
  BY <1>4 DEF fat16_get_fat_entry_for_cluster, FREE
<1> QED BY <1>2, <1>3, <1>4

(* What may be read is a cluster that has a number.                        *)
LEMMA WithinNat ==
  ASSUME vol \in Volumes
  PROVE  Within \subseteq Nat /\ InFile \subseteq Within
<1>1. vol.chain \in Seq(DataClusters)
  BY Fat16Assumption
<1>2. InFile \subseteq DataClusters
  BY <1>1, ElementOfSeq DEF InFile
<1>3. DataClusters \subseteq Nat
  BY SMT DEF DataClusters
<1> QED BY <1>2, <1>3 DEF Within

(* Positions in order lie in clusters in order.                            *)
LEMMA Ordered ==
  ASSUME NEW p \in Nat, NEW r \in Nat, p <= r
  PROVE  p \div ClusterBytes <= r \div ClusterBytes
<1> DEFINE a == p \div ClusterBytes
           b == r \div ClusterBytes
           e == p % ClusterBytes
           f == r % ClusterBytes
<1>1. /\ a \in Nat /\ b \in Nat /\ ClusterBytes \in Nat \ {0}
      /\ e \in 0 .. ClusterBytes - 1 /\ f \in 0 .. ClusterBytes - 1
      /\ p = a * ClusterBytes + e /\ r = b * ClusterBytes + f
  BY Divided, Fat16Assumption
<1> HIDE DEF a, b, e, f
<1>2. ASSUME a > b PROVE FALSE
  <2>1. PICK d \in Nat : a = b + 1 + d
    <3>1. a - b - 1 \in Nat /\ a = b + 1 + (a - b - 1)
      BY <1>1, <1>2
    <3> QED BY <3>1
  <2>2. a * ClusterBytes = b * ClusterBytes + ClusterBytes + d * ClusterBytes
    BY <1>1, <2>1
  <2>3. d * ClusterBytes \in Nat /\ b * ClusterBytes \in Nat
    BY <1>1, <2>1
  <2> DEFINE x == b * ClusterBytes
             y == d * ClusterBytes
             z == a * ClusterBytes
  <2> HIDE DEF x, y, z
  <2>4. x \in Nat /\ y \in Nat /\ z = x + ClusterBytes + y
    BY <2>2, <2>3 DEF x, y, z
  <2>5. p = z + e /\ r = x + f
    BY <1>1 DEF x, z
  <2> QED BY <1>1, <2>4, <2>5
<1>3. a <= b
  BY <1>1, <1>2
<1> QED BY <1>3 DEF a, b

(* A short item is on the part of the chain that is there, or the code     *)
(* knows where that ends.                                                  *)
LEMMA ShortOnChain ==
  ASSUME vol \in Volumes, Short(offset, size), ~ EndKnown, NEW p \in Nat,
         offset \in Nat, size \in Nat, size > 0, p <= offset + size - 1
  PROVE  p \div ClusterBytes < Len(vol.chain)
<1>1. (offset + size - 1) \div ClusterBytes < Len(vol.chain)
  BY DEF Short, InChain
<1>2. offset + size - 1 \in Nat /\ ClusterBytes \in Nat \ {0}
  BY Fat16Assumption
<1>3. p \div ClusterBytes <= (offset + size - 1) \div ClusterBytes
  BY <1>2, Ordered
<1> DEFINE q == p \div ClusterBytes
           last == (offset + size - 1) \div ClusterBytes
<1>4. q \in Nat /\ last \in Nat
  BY <1>2, Divided
<1>5. Len(vol.chain) \in Nat
  BY Fat16Assumption, LenProperties
<1> HIDE DEF q, last
<1> QED BY <1>1, <1>3, <1>4, <1>5 DEF q, last
-----------------------------------------------------------------------------
(* What is a number, and how large.                                        *)
LEMMA Numbers ==
  ASSUME IInv
  PROVE  /\ ClusterBytes \in Nat \ {0} /\ vol.filesize \in Nat /\ vol.filesize < Word /\ Word \in Nat
         /\ pos \in Nat /\ offset \in Nat /\ offset <= vol.filesize
         /\ size \in Nat /\ read \in Nat /\ read * size \in Nat /\ Len(out) \in Nat
<1>1. /\ ClusterBytes \in Nat \ {0} /\ vol.filesize \in Nat /\ vol.filesize < Word /\ Word \in Nat
  BY Fat16Assumption DEF IInv, ReadInv
<1>2. /\ pos \in Nat /\ offset \in Nat /\ offset <= vol.filesize /\ size \in Nat /\ read \in Nat
  BY <1>1 DEF IInv, ReadInv
<1>3. read * size \in Nat
  BY <1>2
<1>4. Len(out) \in Nat
  BY LenProperties DEF IInv, ReadInv
<1> QED BY <1>1, <1>2, <1>3, <1>4

(* What has been read right stays so while out, offset and read do.        *)
LEMMA SameItems ==
  ASSUME ShortReadsRight, UNCHANGED <<vol, size, offset, read, out>>
  PROVE  ShortReadsRight'
BY DEF ShortReadsRight, ItemRight, ItemFrom, FileByte, Short, OneCluster, FirstTwoClusters, InChain, EndKnown

LEMMA InitIInv == Init => IInv
<1> SUFFICES ASSUME Init PROVE IInv
  OBVIOUS
<1>1. vol.filesize \in Nat
  BY Fat16Assumption DEF Init
<1>2. ReadInv
  <2>1. 0 \in 0 .. vol.filesize
    BY <1>1
  <2>2. out \in Seq(Within \X Nat) /\ Len(out) = 0
    BY EmptySeq DEF Init
  <2> QED BY <2>1, <2>2 DEF Init, ReadInv
<1>3. WalkInv /\ ShortInv
  BY DEF Init, WalkInv, ShortInv, Reading
<1>4. ShortReadsRight
  BY DEF Init, ShortReadsRight
<1> QED BY <1>2, <1>3, <1>4 DEF IInv

LEMMA SeekIInv ==
  ASSUME IInv, NEW o \in SeekOffsets, fat16_seek(o)
  PROVE  IInv'
<1>1. pc = "idle" /\ vol' = vol /\ pc' = pc /\ call' = call
  BY DEF fat16_seek
<1>2. /\ size' = size /\ offset' = offset /\ read' = read /\ out' = out
  BY <1>1 DEF call
<1>3. pos' \in 0 .. vol.filesize
  <2>1. CASE SeekSet(o)
    BY <2>1, Numbers, Fat16Assumption DEF SeekSet
  <2>2. CASE SeekCur(o)
    <3>1. pos + o \in Nat
      BY Numbers, Fat16Assumption
    <3>2. Word \in Nat \ {0}
      BY Numbers
    <3>3. (pos + o) % Word \in Nat
      BY <3>1, <3>2
    <3> QED BY <2>2, <3>3, Numbers DEF SeekCur
  <2> QED BY <2>1, <2>2 DEF fat16_seek
<1>4. ReadInv'
  BY <1>1, <1>2, <1>3 DEF IInv, ReadInv, InFile, Within, EndKnown
<1>5. WalkInv' /\ ShortInv'
  BY <1>1 DEF WalkInv, ShortInv, Reading
<1>6. ShortReadsRight'
  BY <1>1, <1>2, SameItems DEF IInv
<1> QED BY <1>4, <1>5, <1>6 DEF IInv

LEMMA ReadIInv ==
  ASSUME IInv, NEW s \in ItemSizes, NEW n \in ItemCounts, fat16_read(s, n)
  PROVE  IInv'
<1>1. /\ pc' = "item" /\ size' = s /\ offset' = pos /\ read' = 0 /\ out' = <<>>
      /\ vol' = vol /\ pos' = pos
  BY DEF fat16_read
<1>2. s \in Nat \ {0} /\ read' * size' = 0
  BY <1>1, Fat16Assumption
<1>3. out' \in Seq(Within \X Nat) /\ Len(out') = 0
  BY <1>1, EmptySeq
<1>4. offset' = pos' + read' * size'
  BY <1>1, <1>2, Numbers
<1>5. ReadInv'
  BY <1>1, <1>2, <1>3, <1>4 DEF IInv, ReadInv, InFile, Within, EndKnown
<1>6. WalkInv' /\ ShortInv' /\ ShortReadsRight'
  BY <1>1 DEF WalkInv, ShortInv, Reading, ShortReadsRight
<1> QED BY <1>5, <1>6 DEF IInv

LEMMA ItemsDoneIInv ==
  ASSUME IInv, ItemsDone
  PROVE  IInv'
<1>1. pc' = "idle" /\ vol' = vol /\ pos' = pos /\ call' = call
  BY DEF ItemsDone, Return
<1>2. size' = size /\ offset' = offset /\ read' = read /\ out' = out
  BY <1>1 DEF call
<1>3. ReadInv'
  BY <1>1, <1>2 DEF IInv, ReadInv, InFile, Within, EndKnown
<1>4. WalkInv' /\ ShortInv'
  BY <1>1 DEF WalkInv, ShortInv, Reading
<1> QED BY <1>1, <1>2, <1>3, <1>4, SameItems DEF IInv

(* An item is begun only if the file still holds that many bytes; so the   *)
(* file has a first cluster.                                               *)
LEMMA ItemIInv ==
  ASSUME IInv, Item
  PROVE  IInv'
<1>1. /\ pc = "item" /\ pc' = "walk" /\ vol' = vol /\ pos' = pos /\ size' = size
      /\ offset' = offset /\ read' = read /\ out' = out
      /\ target' = FirstCluster /\ at' = offset /\ total' = size /\ i' = 0
      /\ size <= (vol.filesize - offset) % Word
  BY DEF Item, Fits
<1>2. size > 0 /\ Len(out) = read * size
  BY <1>1 DEF IInv, ReadInv
<1>3. offset + size <= vol.filesize
  <2>1. vol.filesize - offset \in 0 .. Word - 1
    BY Numbers
  <2>2. (vol.filesize - offset) % Word = vol.filesize - offset
    BY <2>1, Numbers, Small
  <2> QED BY <1>1, <2>2, Numbers
<1>4. vol.chain # <<>> /\ vol.chain \in Seq(DataClusters)
  <2>1. vol.filesize # 0
    BY <1>2, <1>3, Numbers
  <2> QED BY <2>1, Fat16Assumption DEF IInv, ReadInv
<1>5. 1 \in 1 .. Len(vol.chain) /\ target' = vol.chain[1] /\ target' \in Within
  <2>1. Len(vol.chain) \in Nat /\ Len(vol.chain) # 0
    BY <1>4, LenProperties, EmptySeq
  <2>2. 1 \in 1 .. Len(vol.chain)
    BY <2>1
  <2>3. target' = vol.chain[1] /\ target' \in InFile
    BY <1>1, <1>4, <2>2 DEF FirstCluster, InFile
  <2> QED BY <2>2, <2>3, WithinNat DEF IInv, ReadInv
<1>6. at' \div ClusterBytes \in Nat
  BY <1>1, Numbers, Divided
<1>7. ReadInv'
  BY <1>1, <1>2 DEF IInv, ReadInv, InFile, Within, EndKnown
<1>8. WalkInv'
  <2>1. /\ total' \in 1 .. size' /\ at' = offset' + (size' - total')
        /\ Len(out') = read' * size' + (size' - total')
    BY <1>1, <1>2, Numbers
  <2>2. i' \in 0 .. at' \div ClusterBytes
    BY <1>1, <1>6
  <2>3. Within' = Within /\ offset' + size' <= vol'.filesize
    BY <1>1, <1>3 DEF InFile, Within, EndKnown
  <2> QED BY <1>1, <1>5, <2>1, <2>2, <2>3 DEF WalkInv
<1>9. ShortInv'
  <2>1. i' < Len(vol'.chain) /\ target' = vol'.chain[i' + 1]
    BY <1>1, <1>5
  <2>2. 0 .. size' - total' - 1 = {}
    BY <1>1, Numbers
  <2> QED BY <1>1, <2>1, <2>2 DEF ShortInv
<1> QED BY <1>1, <1>7, <1>8, <1>9, SameItems DEF IInv

(* A step along the chain ends on the next cluster of the file.            *)
LEMMA WalkIInv ==
  ASSUME IInv, Walk
  PROVE  IInv'
<1>1. /\ pc = "walk" /\ i < at \div ClusterBytes /\ vol' = vol /\ pos' = pos /\ size' = size
      /\ offset' = offset /\ read' = read /\ out' = out /\ at' = at /\ total' = total
  BY DEF Walk
<1>2. /\ target \in Within /\ i \in Nat /\ at \in Nat /\ at \div ClusterBytes \in Nat
  <2>1. target \in Within /\ total \in 1 .. size /\ at = offset + (size - total)
        /\ i \in 0 .. at \div ClusterBytes
    BY <1>1 DEF IInv, WalkInv, Reading
  <2>2. at \in Nat
    BY <2>1, Numbers
  <2> QED BY <2>1, <2>2, Divided
<1>3. Within' = Within
  BY <1>1 DEF Within, InFile, EndKnown
<1>4. ReadInv' /\ ShortReadsRight'
  <2>1. pc' \in {"idle", "walk"}
    BY <1>1 DEF Walk, Return
  <2> QED BY <1>1, <1>3, <2>1, SameItems DEF IInv, ReadInv
<1> DEFINE entry == fat16_get_fat_entry_for_cluster(target)
<1>5. CASE WalkFails(entry)
  BY <1>1, <1>4, <1>5 DEF Walk, Return, IInv, WalkInv, ShortInv, Reading
<1>6. CASE ~ WalkFails(entry)
  <2>1. target' = entry /\ i' = i + 1 /\ pc' = "walk"
    BY <1>1, <1>6 DEF Walk
  <2>2. vol \in Volumes
    BY DEF IInv, ReadInv
  <2>3. ASSUME NEW m \in 1 .. Len(vol.chain), target = vol.chain[m],
               EndKnown \/ m < Len(vol.chain)
        PROVE  m < Len(vol.chain) /\ target' = vol.chain[m + 1] /\ target' \in InFile
    <3>1. m # Len(vol.chain)
      <4>1. Len(vol.chain) \in Nat
        BY <2>2, Fat16Assumption, LenProperties
      <4> QED BY <1>6, <2>2, <2>3, <4>1, NextInChain
    <3>2. m < Len(vol.chain)
      <4>1. Len(vol.chain) \in Nat
        BY <2>2, Fat16Assumption, LenProperties
      <4> QED BY <3>1, <4>1
    <3> QED BY <2>1, <2>2, <2>3, <3>2, NextInChain
  <2>4. target' \in Within'
    <3>1. CASE EndKnown
      <4>1. PICK m \in 1 .. Len(vol.chain) : target = vol.chain[m]
        BY <1>2, <3>1 DEF Within, InFile
      <4> QED BY <1>3, <2>2, <2>3, <3>1, <4>1, WithinNat
    <3>2. CASE ~ EndKnown
      BY <1>3, <2>1, <2>2, <3>2, Entries DEF Within
    <3> QED BY <3>1, <3>2
  <2>5. i' \in 0 .. at' \div ClusterBytes
    BY <1>1, <1>2, <2>1
  <2>6. WalkInv'
    BY <1>1, <2>1, <2>4, <2>5 DEF IInv, WalkInv, Reading
  <2>7. Short(offset, size) => i' < Len(vol.chain) /\ target' = vol.chain[i' + 1]
    <3> SUFFICES ASSUME Short(offset, size)
                 PROVE  i' < Len(vol.chain) /\ target' = vol.chain[i' + 1]
      OBVIOUS
    <3>1. i < Len(vol.chain) /\ target = vol.chain[i + 1]
      BY <1>1 DEF IInv, ShortInv, Reading
    <3>2. Len(vol.chain) \in Nat
      BY <2>2, Fat16Assumption, LenProperties
    <3>3. i + 1 \in 1 .. Len(vol.chain)
      BY <1>2, <3>1, <3>2
    <3>4. EndKnown \/ i + 1 < Len(vol.chain)
      <4>1. CASE ~ EndKnown
        <5>1. at <= offset + size - 1 /\ offset \in Nat /\ size \in Nat /\ size > 0
          <6>1. total \in 1 .. size /\ at = offset + (size - total)
            BY <1>1 DEF IInv, WalkInv, Reading
          <6> QED BY <6>1, Numbers
        <5>2. at \div ClusterBytes < Len(vol.chain)
          BY <1>2, <2>2, <4>1, <5>1, ShortOnChain
        <5> QED BY <1>1, <1>2, <3>2, <5>2
      <4> QED BY <4>1
    <3> QED BY <2>1, <2>3, <3>1, <3>3, <3>4
  <2>8. ShortInv'
    BY <1>1, <2>1, <2>7
       DEF IInv, ShortInv, Reading, Short, OneCluster, FirstTwoClusters, InChain, EndKnown, FileByte
  <2> QED BY <1>4, <2>6, <2>8 DEF IInv
<1> QED BY <1>5, <1>6

LEMMA WalkEndIInv ==
  ASSUME IInv, WalkEnd
  PROVE  IInv'
<1>1. /\ pc = "walk" /\ pc' = "chunk" /\ i >= at \div ClusterBytes
      /\ vol' = vol /\ pos' = pos /\ call' = call
  BY DEF WalkEnd
<1>2. /\ size' = size /\ nmemb' = nmemb /\ offset' = offset /\ read' = read /\ out' = out
      /\ at' = at /\ total' = total /\ target' = target /\ i' = i
  BY <1>1 DEF call
<1>3. i = at \div ClusterBytes
  <2>1. total \in 1 .. size /\ at = offset + (size - total) /\ i \in 0 .. at \div ClusterBytes
    BY <1>1 DEF IInv, WalkInv, Reading
  <2>2. at \in Nat
    BY <2>1, Numbers
  <2>3. at \div ClusterBytes \in Nat
    BY <2>2, Divided
  <2> QED BY <1>1, <2>1, <2>3
<1>4. ReadInv' /\ WalkInv'
  BY <1>1, <1>2, <1>3 DEF IInv, ReadInv, WalkInv, Reading, InFile, Within, EndKnown
<1>5. ShortInv'
  BY <1>1, <1>2 DEF IInv, ShortInv, Reading, Short, OneCluster, FirstTwoClusters, InChain, EndKnown, FileByte
<1> QED BY <1>1, <1>2, <1>4, <1>5, SameItems DEF IInv
-----------------------------------------------------------------------------
(* A chunk is what is left of the item or of the cluster, and never empty. *)
LEMMA ChunkBounds ==
  ASSUME IInv, pc = "chunk"
  PROVE  /\ total \in 1 .. size /\ at \in Nat /\ at = offset + (size - total)
         /\ at % ClusterBytes \in 0 .. ClusterBytes - 1
         /\ total_to_read \in 1 .. total /\ (at % ClusterBytes) + total_to_read <= ClusterBytes
         /\ total_to_read = total \/ (at % ClusterBytes) + total_to_read = ClusterBytes
<1>1. total \in 1 .. size /\ at = offset + (size - total)
  BY DEF IInv, WalkInv, Reading
<1>2. at \in Nat
  BY <1>1, Numbers
<1>3. at % ClusterBytes \in 0 .. ClusterBytes - 1
  BY <1>2, Divided
<1> DEFINE o == at % ClusterBytes
<1>4. total_to_read = IF total > ClusterBytes - o THEN ClusterBytes - o ELSE total
  BY DEF total_to_read, Smaller
<1> HIDE DEF o
<1>5. o \in 0 .. ClusterBytes - 1
  BY <1>3 DEF o
<1>6. /\ total_to_read \in 1 .. total /\ o + total_to_read <= ClusterBytes
      /\ total_to_read = total \/ o + total_to_read = ClusterBytes
  <2>1. total \in Nat \ {0} /\ ClusterBytes \in Nat \ {0}
    BY <1>1, Numbers
  <2>2. ClusterBytes - o \in Nat \ {0} /\ o \in Nat
    BY <1>5, <2>1
  <2> QED BY <1>4, <2>1, <2>2
<1> QED BY <1>1, <1>2, <1>3, <1>6 DEF o

(* What it adds to the caller's buffer.                                    *)
LEMMA ChunkAdds ==
  ASSUME IInv, pc = "chunk", ReadChunk
  PROVE  /\ out' \in Seq(Within \X Nat) /\ Len(out') = Len(out) + total_to_read
         /\ \A k \in 1 .. Len(out) : out'[k] = out[k]
         /\ \A k \in 1 .. total_to_read :
              out'[Len(out) + k] = <<target, (at % ClusterBytes) + k - 1>>
<1> DEFINE o == at % ClusterBytes
           bytes == diskstream_read(starting_pos(target, o), total_to_read)
<1>1. target \in Within /\ target \in Nat
  <2>1. target \in Within /\ vol \in Volumes
    BY DEF IInv, ReadInv, WalkInv, Reading
  <2> QED BY <2>1, WithinNat
<1>2. o \in Nat /\ total_to_read \in Nat /\ o + total_to_read <= ClusterBytes
  BY ChunkBounds, Numbers
<1>3. /\ bytes \in Seq(Within \X Nat) /\ Len(bytes) = total_to_read
      /\ \A k \in 1 .. total_to_read : bytes[k] = <<target, o + k - 1>>
  BY <1>1, <1>2, ClusterRead
<1>4. out' = out \o bytes /\ out \in Seq(Within \X Nat)
  BY DEF ReadChunk, IInv, ReadInv
<1> HIDE DEF bytes, o
<1>5. /\ out' \in Seq(Within \X Nat) /\ Len(out') = Len(out) + Len(bytes)
      /\ \A k \in 1 .. Len(out) + Len(bytes) :
           out'[k] = IF k <= Len(out) THEN out[k] ELSE bytes[k - Len(out)]
  BY <1>3, <1>4, ConcatProperties
<1>6. Len(out) \in Nat
  BY Numbers
<1>7. \A k \in 1 .. Len(out) : out'[k] = out[k]
  BY <1>2, <1>3, <1>5, <1>6
<1>8. ASSUME NEW k \in 1 .. total_to_read
      PROVE  out'[Len(out) + k] = <<target, o + k - 1>>
  <2>1. /\ Len(out) + k \in 1 .. Len(out) + Len(bytes) /\ ~ (Len(out) + k <= Len(out))
        /\ (Len(out) + k) - Len(out) = k
    BY <1>2, <1>3, <1>6
  <2>2. out'[Len(out) + k] = bytes[k]
    BY <1>5, <2>1
  <2> QED BY <1>3, <2>2
<1> QED BY <1>3, <1>5, <1>7, <1>8 DEF o

(* For an item that ShortReadsRight speaks of it is what the file has next.*)
LEMMA ChunkRight ==
  ASSUME IInv, pc = "chunk", ReadChunk, Short(offset, size),
         NEW k \in 0 .. size - total + total_to_read - 1
  PROVE  out'[read * size + k + 1] = FileByte(offset + k)
<1> DEFINE q == at \div ClusterBytes
           r == at % ClusterBytes
           n == total_to_read
           done == size - total
<1>1. /\ ClusterBytes \in Nat \ {0} /\ offset \in Nat /\ read * size \in Nat /\ Len(out) \in Nat
      /\ q \in Nat /\ at = q * ClusterBytes + r /\ q * ClusterBytes \in Nat
      /\ r \in 0 .. ClusterBytes - 1 /\ r + n <= ClusterBytes
  <2>1. ClusterBytes \in Nat \ {0} /\ offset \in Nat /\ read * size \in Nat /\ Len(out) \in Nat
    BY Numbers
  <2>2. q \in Nat /\ at = q * ClusterBytes + r
    BY ChunkBounds, Divided
  <2>3. q * ClusterBytes \in Nat
    BY <2>1, <2>2
  <2> QED BY <2>1, <2>2, <2>3, ChunkBounds
<1>2. done \in Nat /\ n \in Nat /\ at = offset + done /\ k \in 0 .. done + n - 1
  <2>1. total \in 1 .. size /\ at = offset + (size - total) /\ n \in 1 .. total /\ size \in Nat
    BY ChunkBounds, Numbers
  <2>2. k \in 0 .. size - total + n - 1
    OBVIOUS
  <2> HIDE DEF n
  <2> QED BY <2>1, <2>2
<1>3. Len(out) = read * size + done /\ i = q
  BY DEF IInv, WalkInv, Reading
<1>4. target = vol.chain[q + 1]
  BY <1>3 DEF IInv, ShortInv, Reading
<1>5. \A j \in 0 .. done - 1 : out[read * size + j + 1] = FileByte(offset + j)
  BY DEF IInv, ShortInv, Reading
<1>6. /\ \A j \in 1 .. Len(out) : out'[j] = out[j]
      /\ \A j \in 1 .. n : out'[Len(out) + j] = <<target, r + j - 1>>
  BY ChunkAdds
<1> DEFINE before == read * size
<1> HIDE DEF q, r, n, done, before
<1>7. CASE k < done
  <2>1. k \in 0 .. done - 1 /\ before + k + 1 \in 1 .. Len(out)
    BY <1>1, <1>2, <1>3, <1>7 DEF before
  <2> QED BY <1>5, <1>6, <2>1 DEF before
<1>8. CASE k >= done
  <2>1. PICK m \in 0 .. n - 1 : k = done + m
    <3>1. k - done \in 0 .. n - 1 /\ k = done + (k - done)
      BY <1>2, <1>8
    <3> QED BY <3>1
  <2>2. /\ before + k + 1 = Len(out) + (m + 1) /\ offset + k = q * ClusterBytes + (r + m)
        /\ m + 1 \in 1 .. n /\ r + m \in 0 .. ClusterBytes - 1 /\ r + (m + 1) - 1 = r + m
    BY <1>1, <1>2, <1>3, <2>1 DEF before
  <2>3. out'[before + k + 1] = <<target, r + m>>
    BY <1>6, <2>2
  <2>4. (offset + k) \div ClusterBytes = q /\ (offset + k) % ClusterBytes = r + m
    <3>1. q \in Int
      BY <1>1
    <3>2. /\ (q * ClusterBytes + (r + m)) \div ClusterBytes = q
          /\ (q * ClusterBytes + (r + m)) % ClusterBytes = r + m
      BY <2>2, <3>1, Division
    <3> QED BY <2>2, <3>2
  <2> QED BY <1>4, <2>3, <2>4 DEF FileByte, before
<1> QED BY <1>1, <1>2, <1>7, <1>8

(* The bytes of an item that has been read lie before those of the next.   *)
LEMMA ItemIndex ==
  ASSUME NEW n \in Nat, NEW s \in Nat, NEW j \in 0 .. n - 1, NEW k \in 0 .. s - 1
  PROVE  j * s + k + 1 \in 1 .. n * s
<1>1. (j + 1) * s <= n * s /\ (j + 1) * s = j * s + s /\ j * s \in Nat /\ n * s \in Nat
  <2>1. n - (j + 1) \in Nat
    OBVIOUS
  <2>2. (n - (j + 1)) * s \in Nat
    BY <2>1
  <2>3. n * s = (j + 1) * s + (n - (j + 1)) * s
    OBVIOUS
  <2>4. (j + 1) * s = j * s + s /\ j * s \in Nat /\ n * s \in Nat
    OBVIOUS
  <2> QED BY <2>2, <2>3, <2>4
<1> QED BY <1>1

(* A chunk does not touch them.                                            *)
LEMMA ChunkKeepsItems ==
  ASSUME IInv, pc = "chunk", ReadChunk, vol' = vol, size' = size,
         NEW j \in 0 .. read - 1, NEW p, ItemFrom(j) = p,
         Short(p, size),
         NEW k \in 0 .. size - 1
  PROVE  out'[j * size + k + 1] = FileByte(p + k)
<1>1. out[j * size + k + 1] = FileByte(p + k)
  BY DEF IInv, ShortReadsRight, ItemRight
<1>2. j * size + k + 1 \in 1 .. read * size /\ read * size <= Len(out)
  BY ItemIndex, Numbers DEF IInv, ReadInv
<1>3. j * size + k + 1 \in 1 .. Len(out)
  BY <1>2, Numbers
<1> QED BY <1>1, <1>3, ChunkAdds
-----------------------------------------------------------------------------
(* A short item is continued only from the first cluster, and so found in  *)
(* the second.                                                             *)
LEMMA ShortContinues ==
  ASSUME IInv, pc = "chunk", Short(offset, size), total > total_to_read
  PROVE  /\ FirstTwoClusters(offset, size) /\ at + total_to_read = ClusterBytes
         /\ target = vol.chain[1] /\ 0 < Len(vol.chain)
<1> DEFINE o == at % ClusterBytes
           n == total_to_read
<1>1. /\ ClusterBytes \in Nat \ {0} /\ offset \in Nat /\ size \in Nat
      /\ total \in 1 .. size /\ at \in Nat /\ at = offset + (size - total)
      /\ o \in 0 .. ClusterBytes - 1 /\ n \in 1 .. total /\ o + n = ClusterBytes
  <2>1. ClusterBytes \in Nat \ {0} /\ offset \in Nat /\ size \in Nat
    BY Numbers
  <2>2. /\ total \in 1 .. size /\ at \in Nat /\ at = offset + (size - total)
        /\ o \in 0 .. ClusterBytes - 1 /\ n \in 1 .. total
        /\ n = total \/ o + n = ClusterBytes
    BY ChunkBounds
  <2>3. n # total
    <3> HIDE DEF n
    <3>1. total > n
      BY DEF n
    <3> QED BY <2>1, <2>2, <3>1
  <2> QED BY <2>1, <2>2, <2>3
<1>2. /\ i < Len(vol.chain) /\ target = vol.chain[i + 1] /\ i = at \div ClusterBytes
      /\ total = size \/ (at = ClusterBytes /\ FirstTwoClusters(offset, size))
  BY DEF IInv, ShortInv, WalkInv, Reading
<1>3. total > n
  OBVIOUS
<1> HIDE DEF n
<1>4. ASSUME at = ClusterBytes, FirstTwoClusters(offset, size) PROVE FALSE
  <2>1. o = 0
    BY <1>1, <1>4, FirstQuotients
  <2>2. offset + size <= 2 * ClusterBytes
    BY <1>4 DEF FirstTwoClusters
  <2> HIDE DEF o
  <2> QED BY <1>1, <1>3, <1>4, <2>1, <2>2
<1>5. total = size /\ at = offset
  <2>1. total = size
    BY <1>2, <1>4, Zenon
  <2> HIDE DEF o
  <2> QED BY <1>1, <2>1
<1>6. ASSUME OneCluster(offset, size) PROVE FALSE
  <2> DEFINE q == at \div ClusterBytes
             last == offset + size - 1
             p == last \div ClusterBytes
             r == last % ClusterBytes
  <2>1. last \in Nat /\ p \in Nat /\ r \in 0 .. ClusterBytes - 1 /\ last = p * ClusterBytes + r
    <3>1. last \in Nat
      BY <1>1
    <3> HIDE DEF last
    <3> QED BY <3>1, Divided
  <2>2. q \in Nat /\ offset = q * ClusterBytes + o
    BY <1>1, <1>5, Divided
  <2>3. p = q
    BY <1>5, <1>6 DEF OneCluster
  <2>4. p * ClusterBytes \in Nat /\ q * ClusterBytes = p * ClusterBytes
    BY <1>1, <2>1, <2>3
  <2> DEFINE start == p * ClusterBytes
  <2>5. offset + size - 1 = start + r /\ offset = start + o /\ start \in Nat
    BY <2>1, <2>2, <2>4
  <2> HIDE DEF q, p, r, last, o, start
  <2> QED BY <1>1, <1>3, <1>5, <2>1, <2>5
<1>7. FirstTwoClusters(offset, size) /\ at < ClusterBytes
  BY <1>5, <1>6 DEF Short, FirstTwoClusters
<1>8. o = at /\ i = 0
  BY <1>1, <1>2, <1>7, FirstQuotients
<1> HIDE DEF o
<1> QED BY <1>1, <1>2, <1>7, <1>8 DEF n

LEMMA ContinueIInv ==
  ASSUME IInv, Continue
  PROVE  IInv'
<1>1. /\ pc = "chunk" /\ pc' = "walk" /\ vol' = vol /\ pos' = pos /\ size' = size
      /\ offset' = offset /\ read' = read /\ target' = target /\ i' = 0
      /\ total' = total - total_to_read /\ at' = at + total_to_read
      /\ total > total_to_read /\ ReadChunk
  BY DEF Continue
<1>2. /\ total \in 1 .. size /\ at \in Nat /\ at = offset + (size - total)
      /\ total_to_read \in 1 .. total
  BY <1>1, ChunkBounds
<1>3. /\ out' \in Seq(Within \X Nat) /\ Len(out') = Len(out) + total_to_read
  BY <1>1, ChunkAdds
<1>4. /\ offset \in Nat /\ size \in Nat /\ read * size \in Nat /\ Len(out) \in Nat
      /\ ClusterBytes \in Nat \ {0}
  BY Numbers
<1> DEFINE n == total_to_read
           before == read * size
<1>5. Len(out) = before + (size - total) /\ target \in Within /\ offset + size <= vol.filesize
  BY <1>1 DEF IInv, WalkInv, Reading
<1>6. /\ total' \in 1 .. size' /\ at' = offset' + (size' - total') /\ at' \in Nat
      /\ Len(out') = before + (size' - total') /\ before <= Len(out')
      /\ size - total' = size - total + n
  <2>1. /\ total' = total - n /\ at' = at + n /\ total > n /\ n \in 1 .. total
        /\ Len(out') = Len(out) + n /\ before \in Nat
    BY <1>1, <1>2, <1>3, <1>4
  <2> HIDE DEF n, before
  <2>2. n \in Nat /\ n < total
    BY <1>2, <2>1
  <2> QED BY <1>1, <1>2, <1>4, <1>5, <2>1, <2>2
<1>7. Within' = Within
  BY <1>1 DEF InFile, Within, EndKnown
<1>8. ReadInv'
  BY <1>1, <1>3, <1>6, <1>7 DEF IInv, ReadInv
<1>9. WalkInv'
  <2>1. at' \div ClusterBytes \in Nat
    BY <1>6, Divided
  <2>2. i' \in 0 .. at' \div ClusterBytes
    BY <1>1, <2>1
  <2> QED BY <1>1, <1>5, <1>6, <1>7, <2>2 DEF WalkInv
<1>10. ShortInv'
  <2> SUFFICES ASSUME Short(offset, size)
               PROVE  /\ i' < Len(vol.chain) /\ target' = vol.chain[i' + 1]
                      /\ at' = ClusterBytes /\ FirstTwoClusters(offset, size)
                      /\ \A k \in 0 .. size - total' - 1 :
                           out'[read * size + k + 1] = FileByte(offset + k)
    BY <1>1 DEF ShortInv, Short, OneCluster, FirstTwoClusters, InChain, EndKnown, FileByte
  <2>1. /\ FirstTwoClusters(offset, size) /\ at + total_to_read = ClusterBytes
        /\ target = vol.chain[1] /\ 0 < Len(vol.chain)
    BY <1>1, ShortContinues
  <2>2. \A k \in 0 .. size - total + total_to_read - 1 :
          out'[read * size + k + 1] = FileByte(offset + k)
    BY <1>1, ChunkRight
  <2>3. i' < Len(vol.chain) /\ target' = vol.chain[i' + 1]
    BY <1>1, <2>1
  <2>4. at' = ClusterBytes
    BY <1>1, <2>1
  <2>5. size - total' - 1 = size - total + total_to_read - 1
    <3> DEFINE left == total'
    <3>1. size - left = size - total + n
      BY <1>6
    <3>2. size \in Int /\ total \in Int /\ n \in Int /\ left \in Int
      BY <1>2, <1>4, <1>6
    <3> HIDE DEF n, left
    <3>3. size - left - 1 = size - total + n - 1
      BY <3>1, <3>2
    <3> QED BY <3>3 DEF n, left
  <2> QED BY <2>1, <2>2, <2>3, <2>4, <2>5, Zenon
<1>11. ShortReadsRight'
  <2> SUFFICES ASSUME NEW j \in 0 .. read - 1,
                      Short(ItemFrom(j), size),
                      NEW k \in 0 .. size - 1
               PROVE  out'[j * size + k + 1] = FileByte(ItemFrom(j) + k)
    BY <1>1 DEF ShortReadsRight, ItemRight, ItemFrom, FileByte, Short, OneCluster, FirstTwoClusters, InChain, EndKnown
  <2> QED BY <1>1, ChunkKeepsItems
<1> QED BY <1>8, <1>9, <1>10, <1>11 DEF IInv

LEMMA ItemReadIInv ==
  ASSUME IInv, ItemRead
  PROVE  IInv'
<1>1. /\ pc = "chunk" /\ pc' = "item" /\ vol' = vol /\ pos' = pos /\ size' = size
      /\ offset' = offset + size /\ read' = read + 1
      /\ total <= total_to_read /\ ReadChunk
  BY DEF ItemRead
<1>2. /\ total \in 1 .. size /\ total_to_read \in 1 .. total
  BY <1>1, ChunkBounds
<1>3. /\ offset \in Nat /\ size \in Nat /\ read \in Nat /\ read * size \in Nat /\ Len(out) \in Nat
      /\ pos \in Nat
  BY Numbers
<1>4. total_to_read = total
  <2> DEFINE n == total_to_read
  <2>1. total <= n /\ n \in 1 .. total /\ total \in Nat
    BY <1>1, <1>2, <1>3
  <2> HIDE DEF n
  <2>2. n = total
    BY <2>1
  <2> QED BY <2>2 DEF n
<1>5. out' \in Seq(Within \X Nat) /\ Len(out') = Len(out) + total
  BY <1>1, <1>4, ChunkAdds
<1>6. Len(out) = read * size + (size - total) /\ offset + size <= vol.filesize
  BY <1>1 DEF IInv, WalkInv, Reading
<1>7. read' * size' = read * size + size
  BY <1>1, <1>3
<1>8. Len(out') = read' * size'
  BY <1>2, <1>3, <1>5, <1>6, <1>7
<1>9. offset' = pos' + read' * size' /\ offset' \in 0 .. vol.filesize
  <2>1. offset = pos + read * size
    BY <1>1 DEF IInv, ReadInv
  <2>2. vol.filesize \in Nat
    BY Numbers
  <2> QED BY <1>1, <1>3, <1>6, <1>7, <2>1, <2>2
<1>10. ReadInv'
  <2>1. size' \in Nat /\ size' > 0 /\ read' \in Nat /\ read' * size' \in Nat
    BY <1>1, <1>2, <1>3, <1>7
  <2>3. read' * size' <= Len(out')
    <3> DEFINE end == read' * size'
    <3>1. end \in Nat /\ Len(out') = end
      BY <1>8, <2>1
    <3> HIDE DEF end
    <3>2. end <= Len(out')
      BY <3>1
    <3> QED BY <3>2 DEF end
  <2>4. vol' \in Volumes /\ pos' \in 0 .. vol'.filesize /\ offset' \in 0 .. vol'.filesize
    BY <1>1, <1>9 DEF IInv, ReadInv
  <2>2. Within' = Within
    BY <1>1 DEF InFile, Within, EndKnown
  <2> QED BY <1>1, <1>5, <1>8, <1>9, <2>1, <2>2, <2>3, <2>4 DEF ReadInv
<1>11. WalkInv' /\ ShortInv'
  BY <1>1 DEF WalkInv, ShortInv, Reading
<1>12. ShortReadsRight'
  <2>1. ASSUME NEW j \in 0 .. read' - 1, NEW p,
               ItemFrom(j)' = p,
               Short(p, size),
               NEW k \in 0 .. size - 1
        PROVE  out'[j * size + k + 1] = FileByte(p + k)
    <3>1. CASE j < read
      <4>1. j \in 0 .. read - 1
        BY <1>1, <1>3, <3>1
      <4>2. ItemFrom(j) = p
        <5>1. (read + 1 - j) * size = (read - j) * size + size /\ (read - j) * size \in Nat
          BY <1>3, <4>1
        <5>2. p = offset + size - (read + 1 - j) * size
          <6>1. offset' = offset + size /\ read' = read + 1 /\ size' = size
            BY <1>1
          <6> QED BY <1>3, <2>1, <4>1, <6>1 DEF ItemFrom
        <5>3. p = offset - (read - j) * size
          BY <1>3, <5>1, <5>2
        <5> QED BY <5>3 DEF ItemFrom
      <4> QED BY <1>1, <2>1, <4>1, <4>2, ChunkKeepsItems
    <3>2. CASE j = read
      <4>1. p = offset
        <5>1. read + 1 - read = 1 /\ 1 * size = size
          BY <1>3
        <5>2. p = offset + size - (read + 1 - read) * size
          <6>1. offset' = offset + size /\ read' = read + 1 /\ size' = size
            BY <1>1
          <6> QED BY <1>3, <2>1, <3>2, <6>1 DEF ItemFrom
        <5> QED BY <1>3, <5>1, <5>2
      <4>2. Short(offset, size)
        BY <2>1, <4>1 DEF Short
      <4>3. size - total + total_to_read - 1 = size - 1
        BY <1>2, <1>3, <1>4
      <4>4. k \in 0 .. size - total + total_to_read - 1
        BY <4>3
      <4>5. out'[read * size + k + 1] = FileByte(offset + k)
        BY <1>1, <4>2, <4>4, ChunkRight
      <4> QED BY <3>2, <4>1, <4>5
    <3> QED BY <1>1, <1>3, <3>1, <3>2
  <2> QED BY <1>1, <2>1
          DEF ShortReadsRight, ItemRight, FileByte, Short, OneCluster, FirstTwoClusters, InChain, EndKnown
<1> QED BY <1>10, <1>11, <1>12 DEF IInv

(* IInv is inductive: no seek, call, step along the chain or chunk breaks  *)
(* it.                                                                     *)
LEMMA NextIInv == ASSUME IInv, [Next]_vars PROVE IInv'
<1>1. CASE UNCHANGED vars
  <2>1. /\ vol' = vol /\ pos' = pos /\ pc' = pc /\ size' = size /\ offset' = offset
        /\ read' = read /\ at' = at /\ total' = total /\ target' = target /\ i' = i /\ out' = out
    BY <1>1 DEF vars, call
  <2>2. Within' = Within
    BY <2>1 DEF Within, InFile, EndKnown
  <2>3. ReadInv' /\ WalkInv'
    BY <2>1, <2>2 DEF IInv, ReadInv, WalkInv, Reading
  <2>4. ShortInv'
    BY <2>1 DEF IInv, ShortInv, Reading, Short, OneCluster, FirstTwoClusters, InChain, EndKnown,
      FileByte
  <2>5. ShortReadsRight'
    BY <2>1, SameItems DEF IInv
  <2> QED BY <2>3, <2>4, <2>5 DEF IInv
<1> QED BY <1>1, SeekIInv, ReadIInv, ItemsDoneIInv, ItemIInv, WalkIInv, WalkEndIInv,
        ContinueIInv, ItemReadIInv DEF Next

(* At every level of the recursion of fat16_read_internal and every        *)
(* cluster of the walk, the call stands in the file where it says it does. *)
THEOREM ReadInvariance == Spec => []IInv
<1>1. Init => IInv
  BY InitIInv
<1>2. IInv /\ [Next]_vars => IInv'
  BY NextIInv
<1> QED BY <1>1, <1>2, PTL DEF Spec

(* Where fat16.c:18-22 knows what the file's chain ends in, fat16_read     *)
(* delivers bytes of the file's own clusters only, however short the chain *)
(* is and wherever the walk of fat16_get_cluster_for_offset ends           *)
(* (fat16.c:445-530).                                                      *)
THEOREM ReadStaysInFile == Spec => []StaysInFile
<1>1. IInv => StaysInFile
  <2> SUFFICES ASSUME out \in Seq(Within \X Nat), EndKnown, NEW k \in 1 .. Len(out)
               PROVE  out[k][1] \in InFile
    BY DEF IInv, ReadInv, StaysInFile
  <2>1. out[k] \in InFile \X Nat
    BY ElementOfSeq DEF Within
  <2> QED BY <2>1
<1> QED BY <1>1, ReadInvariance, PTL

(* No seek puts pos, and no item the offset, past the end of the file, so  *)
(* that the unsigned subtraction of fat16_read never wraps.                *)
THEOREM ReadNeverPastEnd == Spec => []NeverPastEnd
<1>1. IInv => NeverPastEnd
  BY Numbers DEF IInv, ReadInv, NeverPastEnd
<1> QED BY <1>1, ReadInvariance, PTL

(* An item within one cluster, or within the first two of the file, holds  *)
(* the file's bytes if the chain has a cluster for them all, or an end     *)
(* that the code knows; beyond that the recursion of fat16_read_internal   *)
(* loses its place.                                                        *)
THEOREM ReadShortReadsRight == Spec => []ShortReadsRight
<1>1. IInv => ShortReadsRight
  BY DEF IInv
<1> QED BY <1>1, ReadInvariance, PTL
=============================================================================
