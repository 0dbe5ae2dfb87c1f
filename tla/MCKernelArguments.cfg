SPECIFICATION Spec
CONSTANTS
  Entries = 11
  TOTAL_FRAMES = 11
  KERNEL_PAGE_NUMBER = 1
  LowFrames <- MCLowFrames
  KernelFrames <- MCKernelFrames
  BootDirectory = 2
  BootTable = 3
  ClientPages <- MCClientPages
  NotPresent = NotPresent
  TlbCapacity = 1
  BootstrapFrame = 1
  TextFrame = 6
  VgaFrame = 0
  StackPages = 2
  Magics <- MCMagics
  Infos <- MCInfos
  test_virt_addr <- MCTestAddress
INVARIANT ArgumentsArrive
