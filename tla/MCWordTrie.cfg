CONSTANTS
    c1 = c1
    c2 = c2
    Callers = {c1}
    Paths <- MCPaths
    Queries <- MCPrefixes
    MaxHeaders = 3
    MaxOps = 6
SPECIFICATION Spec
CHECK_DEADLOCK FALSE
INVARIANT TypeOK
INVARIANT TrieHoldsAdded
INVARIANT Pruned
 
