SPECIFICATION PSpec
CONSTANTS
    Region <- MCRegion
    Unreadable = {6}
    Present = {2, 5, 6, 7, 8, 9, 10, 11}
    Pme <- MCPme
    PAGEMAP_BATCH = 2
    MaxFault = 0
CHECK_DEADLOCK FALSE
INVARIANT ReadableHashed
