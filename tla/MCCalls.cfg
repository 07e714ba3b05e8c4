SPECIFICATION SpecC
CONSTANTS
  MEMORY_SIZE <- MCMemorySize
  MEMORY_MAPPED_IO_REGION_SIZE <- MCIoSize
  InBytes <- MCInBytes
  IoBehindMem = TRUE
  Images <- MCImages
  IoMaps <- MCIoMaps
  UninitWords <- MCUninitWords
  Floor <- MCFloor
CONSTRAINT Explored
INVARIANTS
  FramesOrdered
  FramesIntact
  OnlyDivisionKills
  AtInstruction
PROPERTY ImplementsConvention
CHECK_DEADLOCK FALSE
