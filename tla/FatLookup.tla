----------------------------- MODULE FatLookup ------------------------------
(***************************************************************************)
(* Opening a file on a FAT16 volume: fat16_open and the walk down a path   *)
(* in fat16_get_directory_entry, with the directories it loads and frees   *)
(* on the way (src/fs/fat/fat16.c).                                        *)
(*                                                                         *)
(* A slot is 32 bytes of the disk taken as a directory entry; its file     *)
(* name and its extension are without the padding, and those of            *)
(* directories have no extension.  The FAT's sectors lie before the root   *)
(* directory's and that one's before the clusters.  A directory is loaded  *)
(* in two passes that do not agree: one counts entries along the disk, the *)
(* other reads along the cluster chain.  The ".." of a directory in the    *)
(* root has cluster number 0, whose place by the code's formula is two     *)
(* clusters before the first: the FAT or the root directory                *)
(* (fat16.c:197-202).  Every other chain ends in a mark the code knows.    *)
(*                                                                         *)
(* Any kzalloc may fail.  ERRTOPTR and ISERR do not work together, so an   *)
(* error of fat16_load_fat_directory is stored where the directory should  *)
(* be: such an item is "broken". A file item whose copy of the entry got   *)
(* no memory is "hollow". What happens when a broken item is followed or   *)
(* freed, or a hollow one freed (kfree(NULL)), is not defined.             *)
(* kzalloc(0), for the slots of a directory without entries, returns the   *)
(* address of a block and takes none; what it returned is freed with the   *)
(* directory all the same.                                                 *)
(***************************************************************************)
EXTENDS Integers, Sequences, FiniteSets

CONSTANTS
  SlotsPerCluster,
  Lower,     \* capital letter -> small letter
  Volumes    \* [fat, root, data: slots on the disk; chain: cluster -> next, 0 at the end]

VARIABLES
  vol,        \* the volume
  path,       \* the names of the path to open
  pc,         \* "idle", "find", "opened" or "undefined"
  part,       \* index of the part that is looked for
  current,    \* current_item: the entry found last
  listing,    \* the slots of the directory to search
  allocated,  \* what is allocated for this open, by the part it was allocated for
  wild,       \* history: objects that were freed when not allocated
  oom,        \* history: an allocation failed during this open
  answer      \* history: what the last open returned

vars == <<vol, path, pc, part, current, listing, allocated, wild, oom, answer>>

NoItem == [type |-> "none", part |-> 0,
           slot |-> [filename |-> <<>>, ext |-> <<>>, kind |-> "end", cluster |-> 0]]
Descriptor == <<0, "descriptor">>
Failed == <<>>   \* no name is empty

Smallest(S) == CHOOSE x \in S : \A y \in S : x <= y
-----------------------------------------------------------------------------
Clusters == DOMAIN vol.data
RootSlots == Len(vol.root)

(* Slot number p of the disk, counted from the root directory on; those of *)
(* the FAT have negative numbers.                                          *)
fat16_cluster_to_sector(cluster) == RootSlots + (cluster - 2) * SlotsPerCluster
DiskEnd == fat16_cluster_to_sector(2 + Cardinality(Clusters))

SlotAt(p) ==
  IF p < 0 THEN vol.fat[Len(vol.fat) + 1 + p]
  ELSE IF p < RootSlots THEN vol.root[p + 1]
  ELSE vol.data[2 + (p - RootSlots) \div SlotsPerCluster][((p - RootSlots) % SlotsPerCluster) + 1]

(* Takes off the end marker though it has not been counted.                *)
Mut_total_items(start) ==
  LET end == Smallest({p \in start .. DiskEnd - 1 : SlotAt(p).kind = "end"})
  IN  Cardinality({p \in start .. end - 1 : SlotAt(p).kind # "deleted"}) - 1

(* fat16_get_total_items_for_directory: deleted entries are not counted,   *)
(* and the entries are taken to lie next to each other on the disk.        *)
total_items(start) ==
  LET end == Smallest({p \in start .. DiskEnd - 1 : SlotAt(p).kind = "end"})
  IN  Cardinality({p \in start .. end - 1 : SlotAt(p).kind # "deleted"})

(* n steps along the chain; 0 when it ends before.                         *)
Follow(cluster, n) ==
  LET f[k \in 0 .. n] ==
        IF k = 0 THEN cluster ELSE IF f[k - 1] = 0 THEN 0 ELSE vol.chain[f[k - 1]]
  IN  f[n]

(* fat16_read_internal: the j-th cluster it reads is j steps further than  *)
(* the one before (module Fat16Read), that is 0, 1, 3, 6 ...               *)
ClusterRead(cluster, j) == Follow(cluster, (j * (j + 1)) \div 2)

(* The first cluster is read wherever its number leads; the chain must get *)
(* to every further one, and that of cluster 0 never does: the FAT starts  *)
(* with a mark that is none.                                               *)
Readable(cluster, total) ==
  \A k \in 0 .. total - 1 :
    k \div SlotsPerCluster # 0 => ClusterRead(cluster, k \div SlotsPerCluster) # 0

SlotsRead(cluster, total) ==
  [k \in 1 .. total |->
     SlotAt(fat16_cluster_to_sector(ClusterRead(cluster, (k - 1) \div SlotsPerCluster))
              + ((k - 1) % SlotsPerCluster))]

(* The root directory is read whole when the volume is mounted.            *)
root_directory == SubSeq(vol.root, 1, total_items(0))

tolower(s) == [k \in DOMAIN s |-> IF s[k] \in DOMAIN Lower THEN Lower[s[k]] ELSE s[k]]

(* istrncmp is 0, on strings shorter than its n.                           *)
SameName(s1, s2) == tolower(s1) = tolower(s2)

(* A file gets the separator even when nothing follows it.                 *)
fat16_get_full_filename(slot) ==
  IF slot.kind = "dir" THEN slot.filename ELSE slot.filename \o <<".">> \o slot.ext

(* Where fat16_find_item_in_directory finds the name.                      *)
Matches(slots, name) ==
  {k \in 1 .. Len(slots) : SameName(fat16_get_full_filename(slots[k]), name)}
-----------------------------------------------------------------------------
(* What the fields of an item point to; slots are those of a directory.    *)
Pieces(item, slots) ==
  CASE item.type = "none" -> {}
    [] item.type \in {"broken", "hollow"} -> {<<item.part, "item">>}
    [] item.type = "file" -> {<<item.part, "item">>, <<item.part, "copy">>}
    [] item.type = "directory" ->
         {<<item.part, "item">>, <<item.part, "directory">>,
          <<item.part, IF slots = <<>> THEN "zero bytes" ELSE "slots">>}

(* The chunks of the heap among them.                                      *)
Objects(item, slots) == {x \in Pieces(item, slots) : x[2] # "zero bytes"}

Unsound(item) == item.type \in {"broken", "hollow"}

(* What fat16_fat_item_free gives back, for an item that is sound.         *)
fat16_fat_item_free(item, slots) == Pieces(item, slots)

Release(objects) ==
  /\ allocated' = allocated \ objects
  /\ wild' = wild \cup (objects \ allocated)

Init ==
  /\ vol \in Volumes
  /\ path = <<>> /\ pc = "idle" /\ part = 0
  /\ current = NoItem /\ listing = <<>>
  /\ allocated = {} /\ wild = {}
  /\ oom = FALSE /\ answer = Failed

fat16_open(p) ==
  /\ pc = "idle"
  /\ path' = p /\ part' = 1 /\ current' = NoItem
  /\ \/ /\ allocated' = {Descriptor} /\ oom' = FALSE
        /\ listing' = root_directory
        /\ pc' = "find" /\ UNCHANGED answer
     \/ /\ oom' = TRUE /\ answer' = Failed
        /\ UNCHANGED <<allocated, listing, pc>>
  /\ UNCHANGED <<vol, wild>>

(* Keeps the directory that was searched in vain.                          *)
Mut_GiveUp ==
  /\ Release({Descriptor})
  /\ answer' = Failed /\ pc' = "idle" /\ current' = NoItem
  /\ UNCHANGED <<vol, path, part, listing>>

(* Nothing by that name: the current item and the descriptor are freed.    *)
GiveUp ==
  /\ Release(fat16_fat_item_free(current, listing) \cup {Descriptor})
  /\ answer' = Failed /\ pc' = "idle" /\ current' = NoItem
  /\ UNCHANGED <<vol, path, part, listing>>

NotFound ==
  /\ pc = "find"
  /\ ~ Unsound(current)
  /\ current.type \notin {"none", "directory"} \/ Matches(listing, path[part]) = {}
  /\ GiveUp
  /\ UNCHANGED oom

(* fat16_new_fat_item_for_directory_item gets no memory for the item.      *)
NoMemory ==
  /\ pc = "find"
  /\ current.type \in {"none", "directory"} /\ Matches(listing, path[part]) # {}
  /\ GiveUp
  /\ oom' = TRUE

(* The kinds of item that can come of a slot, with and without memory.     *)
CountOf(slot) == total_items(fat16_cluster_to_sector(slot.cluster))

Loaded(slot) ==
  CASE slot.kind # "dir" -> "file"
    [] slot.kind = "dir" /\ Readable(slot.cluster, CountOf(slot)) -> "directory"
    [] OTHER -> "broken"

Starved(slot) == IF slot.kind # "dir" THEN "hollow" ELSE "broken"

(* next_part is NULL.                                                      *)
LastPart == part = Len(path)

(* The first entry of that name becomes the current item, and the one it   *)
(* was found in is freed.                                                  *)
Found ==
  /\ pc = "find"
  /\ current.type \in {"none", "directory"} /\ Matches(listing, path[part]) # {}
  /\ LET slot == listing[Smallest(Matches(listing, path[part]))]
     IN  \E type \in {Loaded(slot), Starved(slot)} :
           /\ current' = [type |-> type, slot |-> slot, part |-> part]
           /\ listing' = IF type = "directory"
                         THEN SlotsRead(slot.cluster, CountOf(slot)) ELSE <<>>
           /\ oom' = (oom \/ type # Loaded(slot))
  /\ LET freed == fat16_fat_item_free(current, listing)
     IN  /\ allocated' = (allocated \cup Objects(current', listing')) \ freed
         /\ wild' = wild \cup (freed \ allocated)
  /\ IF LastPart
     THEN pc' = "opened" /\ answer' = current'.slot.filename /\ UNCHANGED part
     ELSE part' = part + 1 /\ UNCHANGED <<pc, answer>>
  /\ UNCHANGED <<vol, path>>

(* Searching a directory that is an error code, or freeing a hollow file.  *)
FollowUnsound ==
  /\ pc = "find" /\ Unsound(current)
  /\ pc' = "undefined"
  /\ UNCHANGED <<vol, path, part, current, listing, allocated, wild, oom, answer>>

fat16_close ==
  /\ pc = "opened"
  /\ IF Unsound(current)
     THEN pc' = "undefined" /\ UNCHANGED <<current, allocated, wild>>
     ELSE /\ Release(fat16_fat_item_free(current, listing) \cup {Descriptor})
          /\ pc' = "idle" /\ current' = NoItem
  /\ UNCHANGED <<vol, path, part, listing, oom, answer>>

Step == NotFound \/ NoMemory \/ Found \/ FollowUnsound \/ fat16_close
-----------------------------------------------------------------------------
(* The live entries of a directory: up to the end marker along its chain.  *)
ChainSlots(cluster) ==
  LET n == Cardinality({k \in 1 .. Cardinality(Clusters) : Follow(cluster, k - 1) # 0})
  IN  [k \in 1 .. n * SlotsPerCluster |->
         vol.data[Follow(cluster, (k - 1) \div SlotsPerCluster)][((k - 1) % SlotsPerCluster) + 1]]

LiveSlots(slots) ==
  {slots[k] : k \in {m \in 1 .. Len(slots) :
                       /\ slots[m].kind \notin {"deleted", "end"}
                       /\ \A j \in 1 .. m - 1 : slots[j].kind # "end"}}

(* A name says "filename.ext", or "filename" where there is no extension.  *)
Names(text, slot) ==
  \/ SameName(text, slot.filename \o <<".">> \o slot.ext) /\ slot.kind = "file"
  \/ SameName(text, slot.filename) /\ slot.ext = <<>>

(* The slots that the parts of a path name, from the root down.            *)
Reached(p) ==
  LET at[k \in 0 .. Len(p)] ==
        IF k = 0 THEN {}
        ELSE LET from == IF k = 1 THEN LiveSlots(vol.root)
                         ELSE UNION {LiveSlots(ChainSlots(s.cluster)) :
                                       s \in {t \in at[k - 1] : t.kind = "dir"}}
             IN  {s \in from : Names(p[k], s)}
  IN  at

Named(p) == Reached(p)[Len(p)]

(* The path goes on behind the ".." of a directory in the root.            *)
ThroughClusterZero(p) ==
  \E k \in 1 .. Len(p) - 1 : \E s \in Reached(p)[k] : s.kind = "dir" /\ s.cluster = 0

(* Directories of one or two clusters whose entries are next to each other *)
(* on the disk and of which none was deleted, on the whole volume.         *)
Tidy(slots) == \A k \in 1 .. Len(slots) : slots[k].kind # "deleted"

InOrder(cluster) ==
  \A k \in 0 .. 1 : Follow(cluster, k + 1) \in {0, Follow(cluster, k) + 1}

TidyVolume ==
  /\ Tidy(vol.root)
  /\ \A c \in Clusters : Tidy(vol.data[c])
  /\ \A c \in Clusters : InOrder(c) /\ Follow(c, 2) = 0
=============================================================================
