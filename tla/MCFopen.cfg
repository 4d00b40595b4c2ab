CONSTANTS
  NUTSOS_MAX_PATH = 11
  Inputs <- MCInputs
  Digits = {"0", "1"}
  SlotsPerCluster = 4
  Volumes <- MCVolumes
  Lower <- LowerCase
  Drive = "0"
SPECIFICATION CallSpec
\* One call has returned, or follows a directory that could not be loaded.
CHECK_DEADLOCK FALSE
INVARIANTS ListIsPath NothingElseAllocated OpensTheFileNamed
PROPERTY FopenReturns
