SPECIFICATION Spec
CONSTANTS
    s1 = s1
    s2 = s2
    s3 = s3
    Addrs = {"a"}
    AnyPort = {}
    Socks = {s1, s2, s3}
    MaxSub = 1
    Mp = TRUE
    Commands = {"bind", "peer", "serverstart", "setqueue", "remove"}
    Smp = TRUE
SYMMETRY Sockets
INVARIANTS NoSocketLeak NoDanglingSocket
 
CHECK_DEADLOCK FALSE
CONSTRAINT ClientOrServer
