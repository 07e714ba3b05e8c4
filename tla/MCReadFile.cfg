SPECIFICATION Spec
CONSTANTS
  Files <- MCFiles
  MAX_LINES <- MCMaxLines
  MAX_WORDS <- MCMaxWords
  MAX_LINE_LENGTH <- MCMaxLineLength
INVARIANTS
  ReadsWhatIsMeant
  NothingLost
  StaysInBuffers
PROPERTY EndsReading
CHECK_DEADLOCK FALSE
