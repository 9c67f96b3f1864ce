SPECIFICATION IndexSpec
CONSTANTS
    MaxKey = 5
    MaxRows = 5
    Leaves = 4
    Tops = {}
    Uppers <- MCLastKeyUppers
    Branch = 2
    MaxLeafModels = 5
    BoundedTops = {}
    MaxData = 1
    LineSizes = {1}
INVARIANTS
    AllQueriesBounded
