SPECIFICATION MCSpec
CONSTANTS
    CPUs = {c1, c2}
    Users = {1, 2, 3}
    MaxDgram = 3
    Kinds = {"ip", "frag", "ctl", "badctl", "other", "empty"}
    Stops = TRUE
    Type = {"dccp4", "dccp6", "mpdccp4"}
    Cell = {"c1", "c2", "c3", "c4"}
    Finder = {"f1"}
    Ipv6 = {TRUE, FALSE}
    Ips = {0, 1, 2}
    Ports = {0, 7}
    DevIps = {3, 4}
    MayLack = TRUE
    Writers = {"w1"}
    Width = 16
    Boot = 6
    Minute = 2
    MaxTicks = 26
INVARIANTS Restored RecvSound SettingsTrue GraceAfterDown
PROPERTIES RecvTaken RegImplements
CHECK_DEADLOCK FALSE
