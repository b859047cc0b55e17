SPECIFICATION SSpec
CONSTANTS
    p1 = p1
    p2 = p2
    Pids <- MCPids
    Tools = {"memdump", "memdump -m", "memdump -n", "cmp", "setcmp"}
    Threaded = {p2}
    Pages = 1
    MaxWrite = 2
    MaxSig = 2
    MaxKill = 1
CHECK_DEADLOCK FALSE
INVARIANTS STypeOK Coherent CmpReadsStopped
PROPERTIES Terminates Releases
