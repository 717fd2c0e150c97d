CONSTANTS
  f1 = f1
  f2 = f2
  f3 = f3
  Filters = {f1, f2, f3}
SPECIFICATION FairSpec
INVARIANTS
  TypeOK
  IpcOutlivesExchange
  RegistryIsAlive
  WorkerOutlivesThread
  ProcessEndsWithModule
PROPERTIES
  UnloadEnds
CHECK_DEADLOCK FALSE
