SPECIFICATION Spec
CONSTANTS
  TASK_FIFO_LEN = 4
  Modules <- MCOneModule
  MaxPc = 1
  MaxFlow = 5
PROPERTIES
  ForkAddsOneTask
