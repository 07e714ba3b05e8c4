SPECIFICATION Spec
CONSTANTS
  Sources <- Listings
  MAX_LINES <- MCMaxLines
  MAX_WORDS = 6
  UINT16_MAX = 65535
  Before <- NoFile
  OutputFaults = FALSE
INVARIANT LabelsAligned
CHECK_DEADLOCK FALSE
