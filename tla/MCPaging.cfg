SPECIFICATION Spec
CONSTANTS
  Entries = 6
  TOTAL_FRAMES = 6
  KERNEL_PAGE_NUMBER = 1
  LowFrames <- MCLowFrames
  KernelFrames <- MCKernelFrames
  BootDirectory = 1
  BootTable = 2
  ClientPages <- MCClientPages
  NotPresent = NotPresent
  TlbCapacity = 1
INVARIANTS
  TypeOK
  FrameAccounting
  Isolation
  TlbCoherent
  WindowIntact
  LookupAgrees
  FaultsOnlyWhenWindowFull
PROPERTY ImplementsAddressSpace
