CONSTANT
    MaxConns = 2
SPECIFICATION Spec
INVARIANT StopRestoresRoute
CHECK_DEADLOCK FALSE
