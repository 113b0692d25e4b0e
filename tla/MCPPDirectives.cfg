SPECIFICATION FileSpec
CONSTANTS
  MaxNesting = 1
  MaxBranches = 2
  Values = {0, 1}
  IntModulus = 4
  g = g
  h = h
  Names = {g, h}
  Bodies = {0, 1}
  NoBody = NoBody
  MaxMacros = 2
  MaxIncludes = 2
INVARIANTS TableTypeOK TablesAgree
PROPERTY ImplementsDefinitions
