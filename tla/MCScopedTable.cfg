SPECIFICATION Spec
CONSTANTS
    a = a
    b = b
    c = c
    d = d
    n1 = n1
    n2 = n2
    NoName = NoName
    Keys <- MCKeys
    Names = {n1, n2}
    Home <- MCHome
    TableSize = 3
    ScopeMax = 3
    MaxDepth = 3
INVARIANTS TypeOK EverythingFindable
PROPERTY ImplementsDictionary
