CONSTANTS
    Gateways = {g1, g2}
    NoGateway = NoGateway
    IPv6 = TRUE
    MaxRuns = 3
SPECIFICATION Spec
INVARIANTS TypeOK CleanWhenConnecting TunnelCarries ServerBypasses StopIsClean
CHECK_DEADLOCK FALSE
