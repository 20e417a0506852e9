SPECIFICATION MCSpec
CONSTANTS
    NetA = {a1}
    NetB = {b1}
    Entry = {e1, e2, e3}
    Sender = {s1}
INVARIANTS SubscriptionTrue
PROPERTIES Delivery AloneSendEnds
CHECK_DEADLOCK FALSE
