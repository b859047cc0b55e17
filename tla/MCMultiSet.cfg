SPECIFICATION MSpec
CONSTANTS
    N = 5
    Same = 3
    Root = {a, b}
    Nil = Nil
    NaN = NaN
    Node <- MCNode
    Val <- MCVal
INVARIANTS MTypeOK SizeCounts FoundInCounts NothingLeaks JaccardIndex
PROPERTIES FreeReturns Returns
