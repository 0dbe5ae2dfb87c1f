SPECIFICATION Spec
CONSTANTS
  Entries = 6
  TOTAL_FRAMES = 7
  KERNEL_PAGE_NUMBER = 1
  LowFrames <- MCLowFrames
  KernelFrames <- MCKernelFrames
  BootDirectory = 1
  BootTable = 2
  ClientPages <- MCClientPages
  NotPresent = NotPresent
  TlbCapacity = 1
INVARIANT NoFault
CHECK_DEADLOCK FALSE
