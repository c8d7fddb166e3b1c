\* A 3 x 3 display and a buffer of 6: a line wraps twice and scrolls.
CONSTANTS
  CRT_ROWS = 3
  CRT_COLS = 3
  Letter = {"a"}
  BUFLEN = 6
  MAXARGS = 3
  ExitName <- MCExitName
  MaxLines = 2
SPECIFICATION Spec
INVARIANTS LineOnScreen ReturnsEditedLine
PROPERTY ArgumentsAreWords
