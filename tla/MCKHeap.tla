------------------------------ MODULE MCKHeap -------------------------------
(***************************************************************************)
(* Four-byte blocks and 32-byte words: a byte size covers one block, an    *)
(* exact number of them, or spills into one more.                          *)
(***************************************************************************)
EXTENDS KHeapCalls

(* Requests of one, two and three blocks.                                  *)
BlockSizes == {1, 5, 12}
=============================================================================
