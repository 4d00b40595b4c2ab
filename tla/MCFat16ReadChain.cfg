SPECIFICATION Spec
CONSTANTS
  ClusterBytes = 2
  Word = 16
  Volumes <- Scattered
  SeekOffsets <- SmallSeeks
  ItemSizes = {1, 2, 3, 5}
  ItemCounts = {1, 2, 3}
INVARIANT
  ReadsFileBytes
