SPECIFICATION GvnSpec
CONSTANTS
    l1 = l1
    l2 = l2
    l3 = l3
    l4 = l4
    e1 = e1
    e2 = e2
    NoExpr = NoExpr
    Node <- MCNode
    Programs <- AllPrograms
    EliminateDeadCode = TRUE
    MaxBlocks = 4
    MaxPreds = 32
    MaxChildren = 32
INVARIANTS TypeOK DominatorsExact DominanceIsExecution ImmediateIsClosest
    GvnTypeOK CopiesAreComputed TableIsTheWayDown NothingComputedTwice
PROPERTY NumberingEnds
