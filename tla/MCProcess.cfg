SPECIFICATION Spec
CONSTANTS
  Max = 2
  Files <- ProgramSizes
  HeapPages = 11
  HeapStart = 7
  PageSize = 2
  PageCount = 20
  Word = 128
  ProgramPage = 4
  StackPage = 1
  StackSize = 4
  KernelPages <- KernelOwn
INVARIANTS
  ImageAndStackMapped
  WritesOnlyItsOwn
  ValidPointersAreOwn
  KernelSeesItsOwn
CHECK_DEADLOCK FALSE
