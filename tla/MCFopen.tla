------------------------------- MODULE MCFopen --------------------------------
(***************************************************************************)
(* Small volumes: a root directory of four slots and clusters of four.  On *)
(* every one of them the root holds a file "x.d" and a directory "d",      *)
(* which runs over two clusters or more and holds files "x.d" and "x", the *)
(* latter without an extension, and a directory "d" with a file "x.d" in   *)
(* it; names are in capitals on the disk.  They differ in what was         *)
(* deleted, in where the clusters of "d" lie and in what the FAT looks     *)
(* like where cluster 0 is taken to be: nothing, a file "x.d", or more     *)
(* slots than a cluster has.                                               *)
(***************************************************************************)
EXTENDS Fopen, TLC

Slot(n, e, kind, cluster) == [filename |-> n, ext |-> e, kind |-> kind, cluster |-> cluster]
End == Slot(<<>>, <<>>, "end", 0)
Deleted == Slot(<<"deleted">>, <<"D">>, "deleted", 0)
File(n) == Slot(<<n>>, <<"D">>, "file", 9)
Bare(n) == Slot(<<n>>, <<>>, "file", 9)
Dir(n, cluster) == Slot(<<n>>, <<>>, "dir", cluster)
Self(cluster) == Dir(".", cluster)
Up(cluster) == Slot(<<".", ".">>, <<>>, "dir", cluster)

Root(d) == <<File("X"), Dir("D", d), End, End>>
First(d) == <<Self(d), Up(0), File("X"), Bare("X")>>
Rest(e) == <<Dir("D", e), End, End, End>>
Full == <<File("P"), File("Q"), File("R"), File("S")>>
Inner(e, d) == <<Self(e), Up(d), File("X"), End>>
Unused == <<End, End, End, End>>

Volume(r, two, three, four, five, chain) ==
  [fat |-> Unused \o Unused, root |-> r,
   data |-> 2 :> two @@ 3 :> three @@ 4 :> four @@ 5 :> five,
   chain |-> chain @@ [c \in 2 .. 5 |-> 0]]

TidyTree == Volume(Root(2), First(2), Rest(4), Inner(4, 2), Unused, 2 :> 3)

RootDeleted ==
  Volume(<<Deleted, File("X"), Dir("D", 2), End>>,
         First(2), Rest(4), Inner(4, 2), Unused, 2 :> 3)

EntryDeleted ==
  Volume(Root(2), <<Self(2), Up(0), Deleted, File("X")>>,
         Rest(4), Inner(4, 2), Unused, 2 :> 3)

(* The inner directory lies between the two clusters of the outer.         *)
Fragmented == Volume(Root(2), First(2), Inner(3, 2), Rest(3), Unused, 2 :> 4)

(* The second cluster of "d" lies before the first.                        *)
Backwards == Volume(Root(3), Rest(4), First(3), Inner(4, 3), Unused, 3 :> 2)

ThreeClusters ==
  Volume(Root(2), First(2), Full, Rest(5), Inner(5, 2), 2 :> 3 @@ 3 :> 4)

FileInTable == [TidyTree EXCEPT !.fat = Unused \o <<File("X"), End, End, End>>]
FullTable == [TidyTree EXCEPT !.fat = Full \o Full]

MCVolumes ==
  {TidyTree, RootDeleted, EntryDeleted, Fragmented, Backwards, ThreeClusters,
   FileInTable, FullTable}

LowerCase == "X" :> "x" @@ "D" :> "d"

(* Everything of up to three characters, and every path of up to five      *)
(* characters behind the drive; paths into the inner directory, up again   *)
(* from a directory in the root and from the inner one, into a file; one   *)
(* too long, one on another disk.                                          *)
Strings(n, chars) == UNION {[1 .. k -> chars] : k \in 0 .. n}
InDrive == {<<"0", ":", "/">> \o s : s \in Strings(5, {"d", "x", "/"})}
Dotted ==
  {<<"0", ":", "/">> \o prefix \o <<c, ".">> \o suffix :
     prefix \in {<<>>, <<"d", "/">>, <<"d", "/", "d", "/">>}, c \in {"x", "d", "X"},
     suffix \in {<<>>, <<"d">>, <<"x">>, <<"d", "/", "x">>}}
MCInputs ==
  Strings(3, {"0", "x", ":", "/"}) \cup InDrive \cup Dotted
    \cup {<<"0", ":", "/", "d", "/", ".", ".">> \o suffix :
             suffix \in {<<>>, <<"/", "x", ".", "d">>}}
    \cup {<<"0", ":", "/", "d", "/", "d", "/", ".", ".">>,
          <<"0", ":", "/", "d", "/", "d", "/", "x", "x", "x", "x", "x">>,
          <<"1", ":", "/", "d">>}
=============================================================================
