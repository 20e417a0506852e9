\* A server, on one CPU: a new connection replaces the one in use.
SPECIFICATION SendSpec
CONSTANTS
    Addrs = {a1}
    Socks = {1, 2, 3}
    AnyPort = {}
    MaxSub = 0
    Mp = FALSE
    Commands = {"bind", "serverstart"}
    Smp = FALSE
INVARIANT SendsOnOpenSocket
CHECK_DEADLOCK FALSE
