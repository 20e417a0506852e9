SPECIFICATION MCSpec
CONSTANTS
    Dev = {d1, d2}
    Pdev = {p1}
    Commands = {"rmdev", "rmtun", "newtun", "bind2dev", "evsend", "other"}
    MaxRefs = 3
    Unload = FALSE
INVARIANTS LoadedRefsBalanced LoadedEventsTrue
PROPERTIES ExitRemovalEnds
CHECK_DEADLOCK FALSE
