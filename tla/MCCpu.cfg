SPECIFICATION Spec
CONSTANTS
  MEMORY_SIZE <- MCMemorySize
  MEMORY_MAPPED_IO_REGION_SIZE <- MCIoSize
  InBytes <- MCInBytes
  IoBehindMem = TRUE
  Images <- MCImages
  IoMaps <- MCIoMaps
  UninitWords <- MCUninitWords
CONSTRAINT Bounded
INVARIANTS
  TypeOK
  LawsHold
  BranchesFollowOrder
PROPERTY MappedSlotsShadow
CHECK_DEADLOCK FALSE
