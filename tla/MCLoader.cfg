SPECIFICATION Spec
CONSTANTS
  MEMORY_SIZE <- MCMemorySize
  MEMORY_MAPPED_IO_REGION_SIZE <- MCIoSize
  Files <- MCFiles
  Missing = Missing
  ShortReads = TRUE
INVARIANTS
  LoadsImage
  NeverStrays
CHECK_DEADLOCK FALSE
