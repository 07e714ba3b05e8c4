SPECIFICATION Spec
CONSTANTS
  MEMORY_MAPPED_IO_REGION_SIZE <- MCIoSize
  Libraries <- MCLibraries
  Library <- MCLibrary
  Argvs <- MCArgvs
INVARIANTS
  Verdict
  LastClaimWins
  InitialisedInOrder
CHECK_DEADLOCK FALSE
