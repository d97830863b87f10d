SPECIFICATION Spec
CONSTANTS
  PHYSICAL_POOL_PAGES = 7
  FirstPool = 4
  LastPage = 10
  LastIndex = 4
INVARIANTS
  TypeOK
  TablesSeparate
  PoolAccounted
  KernelStaysUp
  FreshAndShared
PROPERTIES
  SaysGoodbye
