SPECIFICATION Spec
CONSTANTS
  TASK_FIFO_LEN = 2
  Modules <- MCModules
  MaxPc = 0
  MaxFlow = 2
  PHYSICAL_POOL_PAGES = 21
  FirstPool = 1
  LastPage = 23
  LastIndex = 2
  Images <- MCImages
  Stack <- MCStackTop
  Heap <- MCHeap
  Strays <- MCNull
  Values = {7}
INVARIANTS
  TypeOK
  OneOwnerPerFrame
  FreeFramesClean
  TlbCoherent
  KernelStaysUp
PROPERTIES
  PrivateMemory
