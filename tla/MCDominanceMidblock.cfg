SPECIFICATION GvnSpec
CONSTANTS
    l1 = l1
    l2 = l2
    l3 = l3
    l4 = l4
    e1 = e1
    e2 = e2
    NoExpr = NoExpr
    Node <- MCNode
    Programs <- LoweredPrograms
    EliminateDeadCode = TRUE
    MaxBlocks = 4
    MaxPreds = 32
    MaxChildren = 32
INVARIANT DominanceIsExecutionAlways
