SPECIFICATION Spec
CONSTANTS
  Threads = {t1, t2}
  t1 = t1
  t2 = t2
  Capacity = 2
  Requested = {2, 3}
  InvalidIndex = Nil
  GenMod = 16
  AbaMod = 16
  MaxCalls = 3
  ForeignHandles <- NoForeignHandle
  ReleaseChecks = TRUE
  ConstructorMayThrow = TRUE
  DestructorMayThrow = TRUE
  TeardownCalls = {"allocate", "get", "deallocate"}
  SpuriousFailure = TRUE
  Unused = Unused
  Out = Out
  Inactive = Inactive
SYMMETRY Symmetry
INVARIANTS
  ExclusiveOwnership
  FreeListIntact
  PayloadLifetimes
  LiveCountExact
  StaleHandleRejected
PROPERTIES
  RetiredOnce
  HandlesUnique
  ImplementsPool
