SPECIFICATION FairSpec
CONSTANTS
  Threads = {t1, t2}
  t1 = t1
  t2 = t2
  Locals = {a1, a2}
  a1 = a1
  a2 = a2
  Blocks = {b1, b2}
  b1 = b1
  b2 = b2
  Members = {m1, m2}
  m1 = m1
  m2 = m2
  Home <- TwoHomes
  Null = Null
  Absent = Absent
  MaxCount = 2
  MaxCalls = 3
  Responses = {"throw", "return"}
  SpuriousFailure = TRUE
  MovesOutOfTarget = FALSE
INVARIANTS
  CountExact
  DestroyedUnowned
  AccessesAlive
PROPERTIES
  OperationsReturn
  AbandonedAreFreed
