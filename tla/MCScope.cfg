SPECIFICATION Spec
CONSTANTS
  Objects = {x1, x2, x3, x4, x5, x6}
  x1 = x1
  x2 = x2
  x3 = x3
  x4 = x4
  x5 = x5
  x6 = x6
  Null = Null
  MaxDepth = 4
  CreateInTeardown = FALSE
SYMMETRY ObjectSymmetry
INVARIANTS
  DependenciesOutlive
  LedgerExact
  EndReleasesAll
