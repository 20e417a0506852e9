SPECIFICATION MCSpec
CONSTANTS
    Thread = {t1, t2, t3}
    Pair = {t1, t2}
    EvLen = 2
    MaxMalloc = 2
    Grow = TRUE
    InitFirst = TRUE
    Limit = 8
    Pools = {"p1", "p2"}
    Nums = {0, 1, 2, 3}
    MaxFails = 1
INVARIANTS OneUser EvpoolSound TlstSound IpoolSound
CHECK_DEADLOCK FALSE
