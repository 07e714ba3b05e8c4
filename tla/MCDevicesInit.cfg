SPECIFICATION Spec
CONSTANTS
  MEMORY_MAPPED_IO_REGION_SIZE <- MCIoSize
  Libraries <- MCLibraries
  Library <- MCLibrary
  Argvs <- MCArgvs
INVARIANT MappedIsInitialised
CHECK_DEADLOCK FALSE
