CONSTANTS
    Interfaces = {i1, i2}
    NoInterface = NoInterface
    MaxRuns = 3
SPECIFICATION Spec
INVARIANTS TypeOK RulesAreThere NothingPilesUp
CHECK_DEADLOCK FALSE
