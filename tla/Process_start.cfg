CONSTANTS
    Missing = Missing
    Ports = {0, 1800}
    Files <- MCFiles
    Platforms = {"linux", "osx"}
SPECIFICATION FairSpec
INVARIANTS TypeOK RunsOnlySetUp HostsMeet StopFindsPointers SafeUntilStopped
PROPERTIES TunClosedWithContext StopTerminates
CHECK_DEADLOCK FALSE
