SPECIFICATION Spec
CONSTANTS
  TASK_FIFO_LEN = 1
  Modules <- MCOneModule
  MaxPc = 0
  MaxFlow = 1
  PHYSICAL_POOL_PAGES = 21
  FirstPool = 1
  LastPage = 23
  LastIndex = 2
  Images <- MCOneImage
  Stack <- MCStackTop
  Heap <- MCHeapOfOne
  Strays <- MCNull
  Values = {7}
PROPERTIES
  MunmapRemovesMapping
