SPECIFICATION TSpec
CONSTANTS
    p1 = p1
    p2 = p2
    p3 = p3
    Pids <- MCPids
    Tools = {"memdump", "memdump -m", "memdump -n", "cmp", "setcmp", "setcmp all"}
    zero_page_hash = 0
    Hash = {0, 1, 2}
    Count = {1, 2}
    Shape <- MCShape
CHECK_DEADLOCK FALSE
INVARIANTS TTypeOK HandlesOwned OnlyFlagsLeak CrashOnlyIfEmpty IntraSavings ReportsAgree CmpTable
