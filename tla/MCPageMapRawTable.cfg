CONSTANTS
  NPages = 4
  FirstFree = 1
  PDX = {d0, d1}
  PTX = {x0, x1}
  Perms = {1}
  RefMod = 4
  Junk <- MCJunk
  NULL = NULL
  ListHead = ListHead
SPECIFICATION Spec
INVARIANT TLBFollowsTables
