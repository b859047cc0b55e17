SPECIFICATION TSpec
CONSTANTS
    p1 = p1
    p2 = p2
    p3 = p3
    Pids <- MCPids
    Tools = {"setcmp"}
    zero_page_hash = 0
    Hash = {0, 1, 2}
    Count = {1, 2}
    Shape <- MCShape
CHECK_DEADLOCK FALSE
INVARIANT EveryProcessCounted
