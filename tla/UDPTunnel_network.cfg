CONSTANTS
    Packets <- MCPackets
    IPv6 = TRUE
    MaxEps = 2
    MaxUp = 2
    MaxDown = 1
SPECIFICATION FairSpec
INVARIANTS TypeOK
PROPERTIES ImplementsTunnel ServerFollows
