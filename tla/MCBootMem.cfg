CONSTANTS
  PGSIZE = 4
  N = 8
  KERNBASE = 32
  KSTKPAGES = 2
  IOPHYSMEM = 2
  EXTPHYSMEM = 3
  bootstack = 3
  gdtpage = 5
  end = 23
  SizeofPage = 1
  KBPerPage = 4
  BaseKB = {10}
  ExtKB = {16, 20, 24, 28, 32, 36, 52, 70, 74, 100}
  JunkWord <- MCJunkWord
  NULL = NULL
  ListHead = ListHead
SPECIFICATION Spec
CHECK_DEADLOCK FALSE
INVARIANTS PanicsOnlyOutOfMemory KernelStaysMapped FreePagesUnused LowMappingGone FreeListHandedOver
PROPERTY BootEnds
