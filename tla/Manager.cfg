SPECIFICATION FairSpec
CONSTANTS
    Defaults = {d}
    Created = {n}
    Calls = {p1, p2}
    Host = Host
    MaxLaunches = 2
    MaxCalls = 3
    MaxBoots = 2
CHECK_DEADLOCK FALSE
INVARIANTS TypeOK ListedIsStored RemovedStaysRemoved RemovedIsSilent
PROPERTIES RestartRestores ShutdownEnds
