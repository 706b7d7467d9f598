SPECIFICATION ProgramSpec
CONSTANTS
  Threads = {t1, t2}
  t1 = t1
  t2 = t2
  Handlers = {h1, h2}
  h1 = h1
  h2 = h2
  Hooks = {k1, k2}
  k1 = k1
  k2 = k2
  Units <- AllUnits
  Null = Null
  MaxDepth = 2
  MaxCalls = 3
SYMMETRY ProgramSymmetry
INVARIANTS
  PolicyDecides
  CallsInstalledHandler
  HeadersAgree
  SelectorsAuthoritative
  BackendAuthoritative
  AnnotationsSupported
  TraitAnswersSound
