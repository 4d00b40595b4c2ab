SPECIFICATION ReadSpec
CONSTANTS
  SectorSize = 4
  DiskSize = 120
  Positions <- StartPositions
  Totals <- AskedTotals
  ByteValues = 3
  HeadValues = 2
  WordBytes = 2
  KernelSectors = 2
INVARIANTS
  BytesInOrder
  NoExtraSector
  SectorsAreTheDrives
PROPERTIES
  ReadReturns
