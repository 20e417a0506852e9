SPECIFICATION Spec
CONSTANTS
    Addrs = {"a", "b"}
    AnyPort = {}
    Socks = {1, 2, 3}
    MaxSub = 1
    Mp = TRUE
    Commands = {"bind", "peer"}
    Smp = FALSE
INVARIANTS ReconnectHasSocket
CHECK_DEADLOCK FALSE
