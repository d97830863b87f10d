SPECIFICATION Spec
CONSTANTS
  Threads = {t1, t2}
  all_threads = all_threads
  PAGE_SIZE = 16
  NbPages = 4
  WIDTH = 1024
  High = 39936
  ZONE_OBJECTS = 2
  NB_ZONES = 16
  Sizes = {16, 19, 40, 100}
  MaxAllocated = 4
  MaxFree = 2
INVARIANTS
  TypeOK
  ObjectsDisjoint
  InteriorFound
  FreedForgotten
  ReturnedZeroed
  NeverOvercounted
  ThreadsListed
PROPERTIES
  ContentsKept
SYMMETRY ThreadSymmetry
CHECK_DEADLOCK FALSE
