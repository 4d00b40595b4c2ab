----------------------------- MODULE Fat16Read ------------------------------
(***************************************************************************)
(* Reading a FAT16 file: fat16_seek and fat16_read with the recursion of   *)
(* fat16_read_internal and the walk along the cluster chain in             *)
(* fat16_get_cluster_for_offset (src/fs/fat/fat16.c).                      *)
(*                                                                         *)
(* One open descriptor of one file.  A byte is named by where it is in the *)
(* data area, <<cluster, position in it>>; what diskstream_read delivers   *)
(* is DiskStream's BytesInOrder.  One step is one cluster of the walk, one *)
(* level of the recursion or one item of fat16_read's loop.  Numbers are   *)
(* uint32_t where the code's are; file sizes stay below 2^31, so that the  *)
(* signed offset never goes negative.                                      *)
(***************************************************************************)
EXTENDS Integers, Sequences

CONSTANTS
  ClusterBytes,  \* fat_private.bytes_per_cluster
  Word,          \* 2^32
  Volumes,       \* [chain, mark, filesize, beyond]: the file on the disk at hand
  SeekOffsets,   \* offsets a caller seeks by
  ItemSizes,     \* size argument of fread, never 0 (file.c:164)
  ItemCounts     \* nmemb argument of fread, never 0

VARIABLES
  vol,       \* the volume: the file's clusters, what its chain ends in, its size,
             \* and what is read as the table's entries beyond its end
  pos,       \* descriptor->pos
  pc,        \* "idle", "item", "walk" or "chunk"
  size, nmemb, offset, read,     \* fat16_read
  cluster, at, total,            \* the arguments of fat16_read_internal
  target, i,                     \* the walk of fat16_get_cluster_for_offset
  out        \* the bytes written to the caller's buffer so far

call == <<size, nmemb, offset, read, cluster, at, total, target, i, out>>
vars == <<vol, pos, pc, call>>

FREE == 0
RESERVED == {65520, 65525, 65526}
BAD == 65527
LAST == {65535, 65528}

DataClusters == 2 .. 65519

(* What the code knows as the end of a chain.  FAT16 has more such marks:  *)
(* the code takes 65529 to 65534, and the other reserved values, for the   *)
(* numbers of clusters.                                                    *)
Unusable == LAST \cup {BAD} \cup RESERVED \cup {FREE}

uint16 == 0 .. 65535
BeyondTable == 65520 .. 65535
Marks == {FREE} \cup BeyondTable

(* A file's chain is a path of distinct clusters and ends in any mark that *)
(* FAT16 has; only an empty file has none.  The table has no entry for a   *)
(* mark: what lies behind the table on the disk is read instead, and may   *)
(* be anything.                                                            *)
ASSUME Fat16Assumption ==
  /\ ClusterBytes \in Nat \ {0} /\ Word \in Nat
  /\ SeekOffsets \subseteq Nat /\ ItemSizes \subseteq Nat \ {0} /\ ItemCounts \subseteq Nat
  /\ \A v \in Volumes :
       /\ v.chain \in Seq(DataClusters)
       /\ \A m, n \in 1 .. Len(v.chain) : v.chain[m] = v.chain[n] => m = n
       /\ v.mark \in Marks /\ v.beyond \in [BeyondTable -> uint16]
       /\ v.filesize \in Nat /\ v.filesize < Word
       /\ v.chain = <<>> => v.filesize = 0

Smaller(a, b) == IF a > b THEN b ELSE a
InFile == {vol.chain[n] : n \in 1 .. Len(vol.chain)}

(* The file allocation table, and behind it; only this file's clusters are *)
(* in use.                                                                 *)
fat16_get_fat_entry_for_cluster(c) ==
  IF c \in BeyondTable THEN vol.beyond[c]
  ELSE IF c \notin InFile THEN FREE
  ELSE LET n == CHOOSE m \in 1 .. Len(vol.chain) : vol.chain[m] = c
       IN  IF n = Len(vol.chain) THEN vol.mark ELSE vol.chain[n + 1]

(* low_16_bits_first_cluster: 0 in an empty file.                          *)
FirstCluster == IF vol.chain = <<>> THEN 0 ELSE vol.chain[1]

(* Position in the data area of byte o of cluster c.                       *)
starting_pos(c, o) == (c - 2) * ClusterBytes + o

(* n bytes from a position in the data area on.                            *)
diskstream_read(p, n) ==
  [k \in 1 .. n |-> <<2 + (p + k - 1) \div ClusterBytes, (p + k - 1) % ClusterBytes>>]

Init ==
  /\ vol \in Volumes
  /\ pos = 0 /\ pc = "idle"
  /\ size = 0 /\ nmemb = 0 /\ offset = 0 /\ read = 0
  /\ cluster = 0 /\ at = 0 /\ total = 0 /\ target = 0 /\ i = 0
  /\ out = <<>>
-----------------------------------------------------------------------------
SeekSet(o) == o < vol.filesize /\ pos' = o

(* Tests the offset alone.                                                 *)
Mut_SeekCur(o) == o < vol.filesize /\ pos' = (pos + o) % Word

SeekCur(o) ==
  /\ (pos + o) % Word < vol.filesize
  /\ pos' = (pos + o) % Word

(* fat16_seek; SEEK_END and offsets outside the file leave pos alone.      *)
fat16_seek(o) ==
  /\ pc = "idle"
  /\ SeekSet(o) \/ SeekCur(o)
  /\ UNCHANGED <<vol, pc, call>>

fat16_read(s, n) ==
  /\ pc = "idle"
  /\ pc' = "item"
  /\ size' = s /\ nmemb' = n /\ offset' = pos /\ read' = 0 /\ out' = <<>>
  /\ UNCHANGED <<vol, pos, cluster, at, total, target, i>>

(* Back to the caller with read as it stands; pos does not move.           *)
Return == pc' = "idle"

Fits == size <= (vol.filesize - offset) % Word

ItemsDone ==
  /\ pc = "item"
  /\ nmemb = 0 \/ ~ Fits
  /\ Return
  /\ UNCHANGED <<vol, pos, call>>

Item ==
  /\ pc = "item" /\ nmemb > 0 /\ Fits
  /\ nmemb' = nmemb - 1
  /\ cluster' = FirstCluster /\ target' = FirstCluster
  /\ at' = offset /\ total' = size /\ i' = 0
  /\ pc' = "walk"
  /\ UNCHANGED <<vol, pos, size, offset, read, out>>

WalkFails(entry) == entry \in Unusable

(* fat16_get_cluster_for_offset, one entry of the table per step.          *)
Walk ==
  /\ pc = "walk" /\ i < at \div ClusterBytes
  /\ LET entry == fat16_get_fat_entry_for_cluster(target)
     IN  \/ WalkFails(entry) /\ Return /\ UNCHANGED <<target, i>>
         \/ ~ WalkFails(entry) /\ target' = entry /\ i' = i + 1 /\ UNCHANGED pc
  /\ UNCHANGED <<vol, pos, size, nmemb, offset, read, cluster, at, total, out>>

WalkEnd ==
  /\ pc = "walk" /\ i >= at \div ClusterBytes
  /\ pc' = "chunk"
  /\ UNCHANGED <<vol, pos, call>>

(* Does not stop at the end of the cluster.                                *)
Mut_total_to_read == total

(* As much as the cluster holds from the offset on.                        *)
total_to_read == Smaller(total, ClusterBytes - (at % ClusterBytes))

ReadChunk ==
  out' = out \o diskstream_read(starting_pos(target, at % ClusterBytes), total_to_read)

(* Does not move the offset.                                               *)
Mut_SameOffset ==
  /\ pc = "chunk" /\ total > total_to_read
  /\ ReadChunk
  /\ total' = total - total_to_read
  /\ cluster' = target
  /\ i' = 0
  /\ pc' = "walk"
  /\ UNCHANGED <<vol, pos, size, nmemb, offset, read, target, at>>

(* The recursion: the offset stays counted from the start of the file,     *)
(* but the walk starts again at the cluster just read.                     *)
Continue ==
  /\ pc = "chunk" /\ total > total_to_read
  /\ ReadChunk
  /\ total' = total - total_to_read
  /\ at' = at + total_to_read
  /\ cluster' = target
  /\ i' = 0
  /\ pc' = "walk"
  /\ UNCHANGED <<vol, pos, size, nmemb, offset, read, target>>

ItemRead ==
  /\ pc = "chunk" /\ total <= total_to_read
  /\ ReadChunk
  /\ offset' = offset + size
  /\ read' = read + 1
  /\ pc' = "item"
  /\ UNCHANGED <<vol, pos, size, nmemb, cluster, at, total, target, i>>

Next ==
  \/ \E o \in SeekOffsets : fat16_seek(o)
  \/ \E s \in ItemSizes, n \in ItemCounts : fat16_read(s, n)
  \/ Item \/ ItemsDone \/ Walk \/ WalkEnd \/ Continue \/ ItemRead

Spec == Init /\ [][Next]_vars
-----------------------------------------------------------------------------
(* Whatever is read, even where the chain is shorter than the file's size  *)
(* says, is the file's own: no byte of another file's cluster.  But        *)
(* fat16.c:18-22 must know what the chain ends in: at any other mark of    *)
(* FAT16 the walk goes on, behind the table, and bytes of any cluster      *)
(* count as the file's.                                                    *)
EndKnown == vol.mark \in Unusable

StaysInFile == EndKnown => \A k \in 1 .. Len(out) : out[k][1] \in InFile

(* Nothing at or past the file's size counts as read: the unsigned         *)
(* subtraction in "size > item->filesize - offset" never wraps, because no *)
(* sequence of seeks takes pos past the size.                              *)
NeverPastEnd ==
  /\ offset <= vol.filesize
  /\ pc # "idle" => offset = pos + read * size

(* Byte p of the file.                                                     *)
FileByte(p) == <<vol.chain[p \div ClusterBytes + 1], p % ClusterBytes>>

(* Where in the file the j-th of the items counted so far begins.          *)
ItemFrom(j) == offset - (read - j) * size

ItemRight(j) ==
  \A k \in 0 .. size - 1 : out[j * size + k + 1] = FileByte(ItemFrom(j) + k)

OneCluster(p, n) == p \div ClusterBytes = (p + n - 1) \div ClusterBytes
FirstTwoClusters(p, n) == p < ClusterBytes /\ p + n <= 2 * ClusterBytes

(* An item that lies in one cluster, or in the first two of the file, is   *)
(* read right, unless it lies behind an end that the code does not know.   *)
InChain(p, n) == (p + n - 1) \div ClusterBytes < Len(vol.chain)

Short(p, n) ==
  /\ OneCluster(p, n) \/ FirstTwoClusters(p, n)
  /\ EndKnown \/ InChain(p, n)

ShortReadsRight ==
  \A j \in 0 .. read - 1 : Short(ItemFrom(j), size) => ItemRight(j)

(* "We've just read until the end of the current cluster - we ened to      *)
(* continue from the next cluster" (fat16.c:516): every item that counts   *)
(* as read holds the file's bytes.  Does not hold from the third cluster   *)
(* on: the walk starts at the current cluster with the offset from the     *)
(* start of the file, and skips as many clusters again.                    *)
ReadsFileBytes == \A j \in 0 .. read - 1 : ItemRight(j)
=============================================================================
