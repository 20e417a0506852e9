SPECIFICATION Spec
CONSTANTS
    MaxSkb = 3
    InitLen = 1
    Burst = 1
    QLens = {0, 2}
    Policies = {3}
    Events = {"connect", "linkdown"}
    Smp = FALSE
INVARIANTS TypeOK OneOwner NoOops
PROPERTIES Attempted
