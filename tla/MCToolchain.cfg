SPECIFICATION SpecT
CONSTANTS
  MEMORY_SIZE <- MCMemorySize
  MEMORY_MAPPED_IO_REGION_SIZE <- MCIoSize
  InBytes <- MCInBytes
  IoBehindMem = TRUE
  Images <- MCImages
  IoMaps <- MCIoMaps
  UninitWords <- MCUninitWords
  Library <- MCLibrary
  Argvs <- MCArgvs
  Content <- MCContent
  Missing = Missing
  Texts <- MCTexts
  MAX_LINES <- MCMaxLines
  MAX_WORDS <- MCMaxWords
  MAX_LINE_LENGTH <- MCMaxLineLength
  UINT16_MAX = 65535
  Before <- MCBefore
  OutputFaults = TRUE
CONSTRAINT ShortOutput
INVARIANTS
  RunsCorrectSources
  NothingStale
  ReadAsMeant
  HandsOverLoadable
  PrintsWhatIsWritten
PROPERTIES
  StartsLinked
  MakeEnds
CHECK_DEADLOCK FALSE
