CONSTANTS
    Packets <- MCPackets
    IPv6 = TRUE
    MaxEps = 1
    MaxUp = 1
    MaxDown = 0
SPECIFICATION Spec
PROPERTIES ClientIsAccepted
