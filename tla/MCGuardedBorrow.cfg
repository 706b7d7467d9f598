SPECIFICATION FairSpec
CONSTANTS
  Threads = {t1, t2}
  t1 = t1
  t2 = t2
  Owners = {o1, o2}
  o1 = o1
  o2 = o2
  Blocks = {b1, b2}
  b1 = b1
  b2 = b2
  Refs = {r1, r2}
  r1 = r1
  r2 = r2
  MutRefs = {g1, g2}
  g1 = g1
  g2 = g2
  Mutexes = {1, 2}
  Null = Null
  Absent = Absent
  MaxCalls = 4
  Responses = {"throw", "return"}
INVARIANTS
  OwnerLedgerExact
  GuardHoldsLock
PROPERTIES
  PlainFlagIsGuarded
  LocksReturn
  ImplementsReadersWriter
