\* A 2 x 3 screen: a tab spans rows, and two rows scroll off.  Eight keys; three
\* scan codes may wait, so decoding lags by a whole E0 pair.  A ring of 4 slots
\* holding at most 3 characters of two kinds.
CONSTANTS
  CRT_ROWS = 2
  CRT_COLS = 3
  Glyph = {"a", " "}
  Space = " "
  MaxGone = 2
  Key <- MCKey
  KbdDepth = 3
  CONSBUFSIZE = 4
  Char = {"a", "b"}
  NUL = "NUL"
  QueueDepth = 2
  MaxBurst = 3
SPECIFICATION ConsoleSpec
INVARIANTS ModifiersAsHeld RingHoldsUnread
PROPERTIES ImplementsTerminal CharacterAsTyped NextCharacterReturned GetcharReturns
