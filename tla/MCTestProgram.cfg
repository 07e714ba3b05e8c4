SPECIFICATION SpecS
CONSTANTS
  MEMORY_SIZE <- MCMemorySize
  MEMORY_MAPPED_IO_REGION_SIZE <- MCIoSize
  InBytes <- MCInBytes
  IoBehindMem = TRUE
  Images <- MCImages
  IoMaps <- MCIoMaps
  UninitWords <- MCUninitWords
  Library <- MCLibrary
  Argvs <- MCArgvs
  Content <- MCContent
  Missing = Missing
CONSTRAINT ShortLine
INVARIANTS
  PrintsBanner
  PrintsLineBack
  DevicesAnswer
  ExecutesLoadedCode
PROPERTIES
  ReachesPrompt
  HaltsAfterLine
  PreparedStart
CHECK_DEADLOCK FALSE
