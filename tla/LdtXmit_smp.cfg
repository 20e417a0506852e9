SPECIFICATION Spec
CONSTANTS
    MaxSkb = 4
    InitLen = 1
    Burst = 1
    QLens = {}
    Policies = {2, 3}
    Events = {}
    Smp = TRUE
INVARIANTS DelayedMeansArmed NoLostWakeup QueueBound InOrder
CHECK_DEADLOCK FALSE
