SPECIFICATION Spec
CONSTANTS
  Threads = {t1}
  t1 = t1
  Capacity = 2
  Requested = {2, 3}
  InvalidIndex = Nil
  GenMod = 16
  AbaMod = 16
  MaxCalls = 4
  ForeignHandles <- NoForeignHandle
  ReleaseChecks = TRUE
  ConstructorMayThrow = TRUE
  DestructorMayThrow = FALSE
  TeardownCalls = {"allocate"}
  SpuriousFailure = TRUE
  Unused = Unused
  Out = Out
  Inactive = Inactive
INVARIANTS
  TeardownEndsLifetimes
