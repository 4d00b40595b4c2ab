---------------------------- MODULE AddressSpace ----------------------------
(***************************************************************************)
(* What the rest of the kernel relies on when it calls paging.c: every     *)
(* paging_chunk is a map from virtual pages to physical frames and access  *)
(* rights.  A new one maps every page to itself, a call changes the pages  *)
(* it names and nothing else, and no change to one address space shows in  *)
(* another.  Paging, with its two-level tables, is shown to implement it.  *)
(***************************************************************************)
EXTENDS Integers

CONSTANTS
  PageCount,   \* pages of the 4 GB address space
  Ids,         \* what address spaces are known by
  Rights       \* access rights of a page

VARIABLE space   \* [address spaces in existence -> [Pages -> PageEntry]]

Pages == 0 .. PageCount - 1
PageEntry == [frame : Pages, flags : Rights]

Identity(flags) == [v \in Pages |-> [frame |-> v, flags |-> flags]]

Init == space = [c \in {} |-> <<>>]

Create(c, flags) ==
  /\ c \notin DOMAIN space
  /\ DOMAIN space' = DOMAIN space \cup {c}
  /\ space'[c] = Identity(flags)
  /\ \A d \in DOMAIN space : space'[d] = space[d]

(* Page v gets some entry; every other page of every space keeps its own.  *)
Map(c, v) ==
  /\ DOMAIN space' = DOMAIN space
  /\ space'[c][v] \in PageEntry
  /\ space' = [space EXCEPT ![c][v] = space'[c][v]]

Delete(c) ==
  /\ DOMAIN space' = DOMAIN space \ {c}
  /\ \A d \in DOMAIN space' : space'[d] = space[d]

Next ==
  \/ \E c \in Ids, flags \in Rights : Create(c, flags)
  \/ \E c \in DOMAIN space, v \in Pages : Map(c, v)
  \/ \E c \in DOMAIN space : Delete(c)

Spec == Init /\ [][Next]_space
=============================================================================
