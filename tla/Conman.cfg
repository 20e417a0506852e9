SPECIFICATION MCSpec
CONSTANTS
    Devs = {"tp0"}
    RxMax = 2
    Ops = {"evopen", "bind", "setpeer", "waitif"}
    World = {"tun", "dev", "exit"}
    Name = "tp0"
    num_addr = 2
INVARIANTS MessagesSorted SuccessIsFresh
PROPERTIES EveryCallEnds ManagerNotices
CHECK_DEADLOCK FALSE
