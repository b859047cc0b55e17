SPECIFICATION PSpec
CONSTANTS
    Region <- MCRegion
    Unreadable = {10}
    Present = {2, 5, 6, 8, 9, 10}
    Pme <- MCPme
    PAGEMAP_BATCH = 2
    MaxFault = 3
CHECK_DEADLOCK FALSE
INVARIANTS PTypeOK HashAligned ShareAligned BufferFits SwapShownOnce CompleteWithoutFaults
PROPERTY PagesEnd
