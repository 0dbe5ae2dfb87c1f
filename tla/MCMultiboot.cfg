SPECIFICATION Spec
CONSTANTS
  Infos <- MCInfos
  Addresses <- MCAddresses
  Magics <- MCMagics
  KERNEL_VIRTUAL_BASE = 1024
INVARIANTS
  TypeOK
  WalkStaysOnTags
  WalkIsComplete
PROPERTY WalkEnds
CHECK_DEADLOCK FALSE
