CONSTANTS
  SECTSIZE = 3
  MinSectors = 13
  PAGESIZE = 6
  BOOT = 0
  ELFHDR = 3
  A20 = 16
  VaMask = 64
  MemSize = 48
  ByteMod = 2
  Inputs <- MCInputs
SPECIFICATION Spec
INVARIANTS ImageAsAsked KernelLoaded
PROPERTY LoaderEnds
