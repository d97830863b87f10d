SPECIFICATION FairSpec
CONSTANTS
  TASK_FIFO_LEN = 3
  Modules <- MCModules
  MaxPc = 1
  MaxFlow = 5
INVARIANTS
  TypeOK
  CurrentIsRunning
  NoFlowTwice
  KernelResumes
PROPERTIES
  KeepsPromise
  NobodyStarves
  SaysGoodbye
