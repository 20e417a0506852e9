SPECIFICATION MCSpec
CONSTANTS
    Proc = {p1, p2, p3}
    NoUndo = {p3}
    Careful = TRUE
    MaxKills = 2
    MaxResets = 1
    Child = {c1, c2}
    MaxId = 4
    MaxSend = 5
    Sizes = {1, 3}
    Room = 2
    Wrap = 16
INVARIANTS LockSound ThreadsSound FnlSound
PROPERTIES ThreadStartTrue CallsEnd
CHECK_DEADLOCK FALSE
