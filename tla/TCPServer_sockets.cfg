CONSTANTS
    s1 = s1
    s2 = s2
    s3 = s3
    NoSock = NoSock
    Socks = {s1, s2, s3}
    Vpn = {s1, s2}
    MaxFrames = 1
SPECIFICATION Spec
INVARIANTS ConnValid NoLostWakeup PendingOnConn OneReader ReadingHasConn
PROPERTIES ParkedIsPromoted
CHECK_DEADLOCK FALSE
