CONSTANTS
  NPages = 7
  FirstFree = 2
  PDX = {0, 1}
  PTX = {0, 1, 2}
  Perms = {1}
  RefMod = 4
  Junk <- MCJunk
  NULL = NULL
  ListHead = ListHead
  zero <- MCZero
  one <- MCOne
  ptsize <- MCPtsize
  perm0 = 1
SPECIFICATION CheckSpec
CHECK_DEADLOCK FALSE
INVARIANTS AssertionsHold LeavesNoTrace
