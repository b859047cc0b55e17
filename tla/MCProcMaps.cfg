SPECIFICATION MSpec
CONSTANTS
    Kind <- MCKind
    MinSize = 0
    MaxChunk = 8
CHECK_DEADLOCK FALSE
INVARIANTS MTypeOK SlotInBounds RegionsExact NoPhantomRegion
