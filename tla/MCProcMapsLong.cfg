SPECIFICATION MSpec
CONSTANTS
    Kind <- MCKind
    MinSize = 0
    MaxChunk = 4
CHECK_DEADLOCK FALSE
INVARIANT EveryRegionParsed
