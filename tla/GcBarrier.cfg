SPECIFICATION Spec
CONSTANTS
  Threads = {t1, t2}
  all_threads = all_threads
  PAGE_SIZE = 16
  NbPages = 5
  WIDTH = 1024
  High = 1024
  ZONE_OBJECTS = 2
  NB_ZONES = 16
  Sizes = {16, 40, 100}
  MaxAllocated = 4
  MaxFree = 2
INVARIANTS
  BarrierHolds
CHECK_DEADLOCK FALSE
