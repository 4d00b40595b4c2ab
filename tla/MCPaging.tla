------------------------------ MODULE MCPaging ------------------------------
(***************************************************************************)
(* Tables of five entries, 25 pages, and a heap of frames 1 to 19.  Others *)
(* hold five frames, and two chunks of seven fit; or so many that the      *)
(* first chunk fails at its directory, at each of its tables or at the     *)
(* chunk itself, or just fits; or every second frame.  Mappings begin next *)
(* to the end of a table and at the last page.                             *)
(***************************************************************************)
EXTENDS Paging

HeldByOthers == {1 .. k : k \in {5} \cup 12 .. 19} \cup {{2, 4, 6, 8, 10, 12, 14}}
HeapFrames == 1 .. 19
TaskFlags == {{Present, User}}
ProcessFlags == {{Present, User, Writeable}}
=============================================================================
