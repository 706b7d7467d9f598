SPECIFICATION Spec
CONSTANTS
  Threads = {t1, t2}
  t1 = t1
  t2 = t2
  Owners = {o1, o2}
  o1 = o1
  o2 = o2
  Blocks = {b1, b2}
  b1 = b1
  b2 = b2
  Refs = {r1, r2, r3}
  r1 = r1
  r2 = r2
  r3 = r3
  MutRefs = {m1, m2}
  m1 = m1
  m2 = m2
  Null = Null
  Absent = Absent
  MutableToken = 3
  MaxCalls = 3
  Responses = {"throw", "return"}
  SpuriousFailure = TRUE
SYMMETRY BorrowSymmetry
INVARIANTS
  WriterExcludesAll
  LedgerExact
PROPERTIES
  ImplementsReadersWriter
