SPECIFICATION Spec
CONSTANTS
  Max = 4
  file = file
  directory = directory
  Files <- Paths
  Directories <- OnlyDirectory
  FileSize <- Bytes
  Offsets <- OneStep
  Refused = {missing}
  Addresses = {a1, a2, a3, a4, a5}
  NULL = NULL
  ERROR = ERROR
SYMMETRY Renamings
INVARIANTS
  EachFdItsFile
  NothingLeaksUntilFull
  ReadsFromItsPosition
