CONSTANT
    MaxConns = 4
SPECIFICATION FairSpec
INVARIANTS TypeOK OneTunReader DirectWhileConnecting TunnelIsServed SafeUntilStopped
PROPERTIES Recovers StopTerminates OldReceiverEnds
CHECK_DEADLOCK FALSE
