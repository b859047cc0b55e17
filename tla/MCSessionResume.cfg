SPECIFICATION SSpec
CONSTANTS
    p1 = p1
    p2 = p2
    Pids <- MCPids
    Tools = {"memdump"}
    Threaded = {}
    Pages = 1
    MaxWrite = 1
    MaxSig = 1
    MaxKill = 0
CHECK_DEADLOCK FALSE
PROPERTY LeavesRunning
