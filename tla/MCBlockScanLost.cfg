SPECIFICATION Spec
CONSTANTS
  Programs <- DefaultLoops
  Values = {1, 2, 3, 4, 5, 6, 7, 8}
  NumRegs = 3
  CallerSaved = {1}
  Parts = 10
  One = 1000000
INVARIANT NothingLost
