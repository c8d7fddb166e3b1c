\* A guest with two register values, run twice; up to two traps at a time.
\* Tables of two entries on four levels; memory for one run or two.
CONSTANTS
  EPT_EACHTABLE_ENTRIES = 2
  EPT_DEFAULT_WL = 3
  LastGfn = 11
  LowFrames = 3
  JosFrames = 4
  FreePages = {20, 28}
  Leaf = {0, 1}
  Files = {1}
  Leaf1 = 1
  VmxBit = 2
  RipMod = 3
  Lengths = {2}
  Rows = 2
  MaxRuns = 2
  Faults <- MCFaults
  MaxTraps = 2
SPECIFICATION Spec
CHECK_DEADLOCK FALSE
INVARIANTS HostRestored GuestUndisturbed EntryLegal GuestMemoryMapped StopsAtGuestCursor TrapFrameRight
PROPERTY InterruptedCodeResumes
