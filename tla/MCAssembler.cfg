SPECIFICATION Spec
CONSTANTS
  Sources <- MCSources
  MAX_LINES <- MCMaxLines
  MAX_WORDS = 6
  UINT16_MAX <- MCLimit
  Before <- NoFile
  OutputFaults = FALSE
INVARIANTS
  AssemblesMeaning
  Verdict
CHECK_DEADLOCK FALSE
