SPECIFICATION SpecS
CONSTANTS
  MEMORY_SIZE <- MCMemorySize
  MEMORY_MAPPED_IO_REGION_SIZE <- MCIoSize
  InBytes <- MCInBytes
  IoBehindMem = TRUE
  Images <- MCImages
  IoMaps <- MCIoMaps
  UninitWords <- MCUninitWords
  Library <- MCLibrary
  Argvs <- MCArgvs
  Content <- MCContent
  Missing = Missing
CONSTRAINT LongLine
INVARIANT PrintsLineBack
CHECK_DEADLOCK FALSE
