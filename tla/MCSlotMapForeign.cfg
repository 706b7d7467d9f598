SPECIFICATION Spec
CONSTANTS
  Threads = {t1}
  t1 = t1
  Capacity = 2
  Requested = {2}
  InvalidIndex = Nil
  GenMod = 16
  AbaMod = 16
  MaxCalls = 2
  ForeignHandles <- OneForeignHandle
  ReleaseChecks = TRUE
  ConstructorMayThrow = TRUE
  DestructorMayThrow = FALSE
  TeardownCalls = {"allocate", "get", "deallocate"}
  SpuriousFailure = TRUE
  Unused = Unused
  Out = Out
  Inactive = Inactive
INVARIANTS
  ForeignHandleRejected
