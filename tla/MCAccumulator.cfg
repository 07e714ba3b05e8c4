SPECIFICATION Spec
CONSTANTS
  MEMORY_SIZE <- MCMemorySize
  MEMORY_MAPPED_IO_REGION_SIZE <- MCIoSize
  InBytes <- MCInBytes
  IoBehindMem = TRUE
  Images <- SumImages
  IoMaps <- MCIoMaps
  UninitWords <- MCUninitWords
INVARIANT ResultInAccumulator
CHECK_DEADLOCK FALSE
