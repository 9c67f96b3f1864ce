SPECIFICATION IndexSpec
CONSTANTS
    MaxKey = 3
    MaxRows = 4
    Leaves = 4
    Tops <- MCTops
    Uppers <- MCUppers
    Branch = 2
    MaxLeafModels = 5
    BoundedTops <- MCBoundedTops
    MaxData = 6
    LineSizes = {1, 2}
INVARIANTS
    RowsReachTheirLeaf
    ErrorsBound
    LookupFindsLine
    EmptyLeavesExact
