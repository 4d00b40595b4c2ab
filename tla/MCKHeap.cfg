SPECIFICATION LoopSpec
CONSTANTS
  Total = 5
  SAddr = 2
  BlockSize = 4
  Word = 32
  Sizes <- BlockSizes
INVARIANTS
  ChunksDisjoint
  TableMatchesChunks
PROPERTIES
  ImplementsAllocator
  ImplementsKHeap
  CallsReturn
