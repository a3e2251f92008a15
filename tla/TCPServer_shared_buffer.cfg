CONSTANTS
    s1 = s1
    s2 = s2
    NoSock = NoSock
    Socks = {s1, s2}
    Vpn = {s1}
    MaxFrames = 2
SPECIFICATION Spec
INVARIANTS NoDecryptError
CHECK_DEADLOCK FALSE
