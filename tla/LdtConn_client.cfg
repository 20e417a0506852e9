SPECIFICATION Spec
CONSTANTS
    Addrs = {"a", "b"}
    AnyPort = {}
    Socks = {1, 2, 3}
    MaxSub = 1
    Mp = FALSE
    Commands = {"bind", "peer", "setqueue"}
    Smp = TRUE
INVARIANTS AddressInUse 
PROPERTIES Answered
