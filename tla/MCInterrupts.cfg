CONSTANTS
  Lines <- MCLines
  SlaveLines <- MCSlaveLines
  Commands <- MCCommands
  Runs <- MCRuns
SPECIFICATION Spec
\* An exception may send the CPU where no code of the kernel is.
CHECK_DEADLOCK FALSE
INVARIANTS ReturnsToCaller SavedStateResumes MasterAcknowledged
PROPERTIES EntriesReturn
