SPECIFICATION Spec
INVARIANTS
  TypeOK
  NothingPending
  MonitorGuarded
PROPERTIES
  LongModeEntered
  InterruptsReturn
  EntersMain
