SPECIFICATION BootSpec
CONSTANTS
  Width = 80
  Rows = 65536
  LimitLow = 8
  LimitHigh = 4
  Unit = 4
  BaseLow = 8
  BaseMid = 4
  BaseHigh = 4
  Max = 1
  Files <- ProgramSizes
  HeapPages = 15
  HeapStart = 7
  PageSize = 2
  PageCount = 24
  Word = 128
  ProgramPage = 4
  StackPage = 1
  StackSize = 4
  KernelPages <- KernelOwn
  RootSize = 3
  TssBase = 109
  TssSize = 26
  EspPage = 6
  MaxRow = 26
INVARIANTS
  TextInOrder
  GdtDecodes
  MountKeepsItsOwn
  NoVolumeNoProgram
  RunsOnItsPages
PROPERTIES
  BootEnds
