----------------------------- MODULE KHeapCalls -----------------------------
(***************************************************************************)
(* The heap as its callers see it while the loops of KHeapLoops run: the   *)
(* table and the writes outside it change for them when a call returns.    *)
(* KHeap's variables are that view, so that its properties are checked of  *)
(* the loops, and its specification is what the loops must implement.      *)
(***************************************************************************)
EXTENDS KHeap

VARIABLES
  table, writes,  \* entries and stray of the loops
  pc, i, bc, bs, need, req, entry, freeing, before

Loops == INSTANCE KHeapLoops WITH entries <- table, stray <- writes

Table == IF pc = "idle" THEN table ELSE before.entries
Writes == IF pc = "idle" THEN writes ELSE before.stray

allvars == <<vars, table, writes, pc, i, bc, bs, need, req, entry, freeing, before>>

LoopInit == Loops!Init /\ entries = Table /\ stray = Writes
LoopNext == Loops!Next /\ entries' = Table' /\ stray' = Writes'

(* A call in progress keeps running: nothing can take the CPU from it.     *)
LoopSpec ==
  /\ LoopInit /\ [][LoopNext]_allvars
  /\ WF_allvars(Loops!Iterate /\ entries' = Table' /\ stray' = Writes')

(* The loops find and write what KHeap says the whole calls do.            *)
ImplementsKHeap == Spec

(* Every heap call returns (heap.c:70, heap.c:148).                        *)
CallsReturn == Loops!CallsReturn
=============================================================================
