SPECIFICATION FairSpec
CONSTANTS
  Threads = {t1, t2}
  t1 = t1
  t2 = t2
  Capacity = 2
  Requested = {2}
  InvalidIndex = Nil
  GenMod = 3
  AbaMod = 16
  MaxCalls = 2
  ForeignHandles <- NoForeignHandle
  ReleaseChecks = FALSE
  ConstructorMayThrow = TRUE
  DestructorMayThrow = FALSE
  TeardownCalls = {"get", "deallocate"}
  SpuriousFailure = TRUE
  Unused = Unused
  Out = Out
  Inactive = Inactive
INVARIANTS
  TypeOK
  TeardownEndsLifetimes
PROPERTIES
  CallsReturn
