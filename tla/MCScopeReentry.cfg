SPECIFICATION Spec
CONSTANTS
  Objects = {x1, x2, x3}
  x1 = x1
  x2 = x2
  x3 = x3
  Null = Null
  MaxDepth = 3
  CreateInTeardown = TRUE
SYMMETRY ObjectSymmetry
INVARIANTS
  EndReleasesAll
