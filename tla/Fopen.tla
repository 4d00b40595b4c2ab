-------------------------------- MODULE Fopen --------------------------------
(***************************************************************************)
(* One call of fopen on a mounted volume, and the close that follows it    *)
(* (src/fs/file.c): PathParser takes the string apart and FatLookup looks  *)
(* for the names.  fopen never frees what the parser has allocated, so     *)
(* the parser's list stays when the call has returned.                     *)
(*                                                                         *)
(* The mode is "r".  What fopen makes of the answer, and the descriptor it *)
(* gives to the caller, are in FileTable.                                  *)
(***************************************************************************)
EXTENDS Integers, Sequences, FiniteSets

CONSTANTS
  NUTSOS_MAX_PATH, Inputs, Digits,   \* as in PathParser
  SlotsPerCluster, Volumes, Lower,   \* as in FatLookup
  Drive                              \* the digit of the one disk there is

VARIABLES
  filename, place, parsing, length, name, root, names, parts, unparsed,
  vol, path, pc, part, current, listing, allocated, wild, oom, answer

parser == <<filename, place, parsing, length, name, root, names, parts, unparsed>>
lookup == <<vol, path, pc, part, current, listing, allocated, wild, oom, answer>>
callVars == <<parser, lookup>>

(* place is the parser's pos, parsing its pc, length its i and unparsed its*)
(* oom.                                                                    *)
Parser == INSTANCE PathParser WITH
  path <- filename, pos <- place, pc <- parsing, i <- length, oom <- unparsed
Lookup == INSTANCE FatLookup

(* Paths are made of characters, and neither a slash nor what stands for   *)
(* the drive of the root at NULL is a digit.                               *)
ASSUME FopenAssumption ==
  /\ NUTSOS_MAX_PATH \in Nat
  /\ "/" \notin Digits /\ Parser!NULL.drive \notin Digits
  /\ \A p \in Inputs : p \in Seq({p[k] : k \in DOMAIN p} \ {Parser!End, "NULL"})

(* The slots on a volume.                                                  *)
SlotsOf(v) ==
  {v.fat[k] : k \in DOMAIN v.fat} \cup {v.root[k] : k \in DOMAIN v.root}
    \cup UNION {{v.data[c][k] : k \in DOMAIN v.data[c]} : c \in DOMAIN v.data}

(* Clusters are numbered from 2 on, and chains stay among them.  The root  *)
(* directory ends, and so does the disk, so that counting entries does.    *)
(* The FAT is as long as two clusters, so that cluster 0 begins on the     *)
(* disk.                                                                   *)
ASSUME VolumesAssumption ==
  /\ SlotsPerCluster \in Nat \ {0}
  /\ \A v \in Volumes : \E n \in {Cardinality(DOMAIN v.data)} :
       /\ n \in Nat \ {0} /\ DOMAIN v.data = 2 .. n + 1
       /\ \A c \in 2 .. n + 1 : v.data[c] \in [1 .. SlotsPerCluster -> SlotsOf(v)]
       /\ v.data[n + 1][SlotsPerCluster].kind = "end"
       /\ v.chain \in [2 .. n + 1 -> {0} \cup (2 .. n + 1)]
       /\ v.root \in Seq(SlotsOf(v))
       /\ v.fat \in Seq(SlotsOf(v)) /\ Len(v.fat) >= 2 * SlotsPerCluster
       /\ \E k \in 1 .. Len(v.root) : v.root[k].kind = "end"

(* The first two clusters of a directory.                                  *)
Beginning(v, cluster) ==
  IF v.chain[cluster] = 0 THEN v.data[cluster] ELSE v.data[cluster] \o v.data[v.chain[cluster]]

(* No two live entries answer to the same name.                            *)
NamesDiffer(slots) ==
  \A s, t \in Lookup!LiveSlots(slots) :
    Lookup!SameName(Lookup!fat16_get_full_filename(s), Lookup!fat16_get_full_filename(t)) => s = t

(* A slot in use has a name, a directory's slot has no extension and leads *)
(* to a cluster or, where it stands for the root, to none, what the FAT    *)
(* looks like when it is taken for slots included; and no two entries of   *)
(* one directory have the same name.                                       *)
ASSUME SlotsAssumption ==
  \A v \in Volumes :
    /\ \A s \in SlotsOf(v) :
         /\ s.kind \in {"file", "dir", "deleted", "end"}
         /\ s.kind \in {"file", "dir"} => s.filename # Lookup!Failed
         /\ s.kind = "dir" =>
              /\ s.ext = <<>> /\ s.cluster \in {0} \cup DOMAIN v.data
              /\ s.cluster # 0 => NamesDiffer(Beginning(v, s.cluster))
    /\ NamesDiffer(v.root)

CallInit == Parser!Init /\ Lookup!Init

ParsePath(f) == Parser!pathparser_parse(f) /\ UNCHANGED lookup

Parse == Parser!Step /\ UNCHANGED lookup

(* A path was parsed, it is not just a root, and its disk exists.          *)
Accepted == root # Parser!NULL /\ root.parts # <<>> /\ root.drive = Drive

(* disk->filesystem->open.                                                 *)
OpenPath ==
  /\ parsing = "done" /\ Accepted
  /\ path = <<>>
  /\ Lookup!fat16_open(root.parts)
  /\ UNCHANGED parser

Walk == Lookup!Step /\ UNCHANGED parser

CallNext == (\E f \in Inputs : ParsePath(f)) \/ Parse \/ OpenPath \/ Walk

(* Interrupts are off while the kernel works; callers need not call.       *)
CallSpec == CallInit /\ [][CallNext]_callVars /\ WF_callVars(Parse \/ OpenPath \/ Walk)
-----------------------------------------------------------------------------
(* What the parser gives to the walk is what the path says.                *)
ListIsPath == Parser!ListIsPath

(* However an open ends, and whatever allocation failed on the way, what   *)
(* stays allocated is exactly the descriptor and the item it holds, and    *)
(* nothing is left of the directories in between; when memory is granted,  *)
(* the parser keeps its list and nothing else.  Nothing is freed that is   *)
(* not allocated, but for what kzalloc(0) returned for a directory without *)
(* entries: that address is freed (fat16.c:124-128), whoever has its block *)
(* by then.                                                                *)
NothingElseAllocated ==
  /\ \A object \in wild : object[2] = "zero bytes"
  /\ pc = "idle" => allocated = {}
  /\ pc = "opened" => allocated = {Lookup!Descriptor} \cup Lookup!Objects(current, listing)
  /\ Parser!NothingBesidesTheList

(* What the path names on this volume.                                     *)
Target ==
  IF Parser!Legal(filename) /\ filename[1] = Drive
  THEN Lookup!Named(Parser!Spelt(filename)) ELSE {}

Granted == ~ unparsed /\ ~ oom

(* fopen has gone through, and found nothing.                              *)
NothingOpened ==
  /\ parsing = "done" /\ pc = "idle"
  /\ path = <<>> => ~ Accepted
  /\ answer = Lookup!Failed

(* On a volume whose directories have one or two clusters, in order, and   *)
(* no deleted entries, an open that gets its memory finds what the string  *)
(* names, in whatever case; it refuses only a string that names nothing,   *)
(* or a file without an extension: "readme" is not found, "readme."  is    *)
(* (fat16.c:352). Nothing is said of a path on through the ".." of a       *)
(* directory in the root, whose cluster 0 the code takes for a place in    *)
(* the FAT (fat16.c:200), nor of directories of three clusters or more,    *)
(* which are not read in order (fat16.c:516).                              *)
OpensTheFileNamed ==
  /\ Lookup!TidyVolume /\ Granted
  /\ Parser!Legal(filename) => ~ Lookup!ThroughClusterZero(Parser!Spelt(filename))
  =>
    /\ pc = "opened" => current.slot \in Target
    /\ NothingOpened => \A slot \in Target : slot.kind = "file" /\ slot.ext = <<>>

(* Every fopen returns, or ends where its behaviour is not defined.        *)
FopenReturns ==
  parsing # "idle" ~> (NothingOpened \/ pc \in {"opened", "undefined"} \/ answer # Lookup!Failed)
=============================================================================
