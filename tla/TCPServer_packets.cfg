CONSTANTS
    s1 = s1
    s2 = s2
    NoSock = NoSock
    Socks = {s1, s2}
    Vpn = {s1, s2}
    MaxFrames = 3
SPECIFICATION FairSpec
INVARIANTS TypeOK
PROPERTIES RelaysPackets AloneSkipsNone DeadConnectionDropped
CHECK_DEADLOCK FALSE
