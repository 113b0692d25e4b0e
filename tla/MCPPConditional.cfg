SPECIFICATION Spec
CONSTANTS
  MaxNesting = 3
  MaxBranches = 4
  IntModulus = 4
  Values <- IntValues
INVARIANTS TypeOK ActiveIffSelected
