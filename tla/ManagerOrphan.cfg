SPECIFICATION Spec
CONSTANTS
    Defaults = {d}
    Created = {n}
    Calls = {p1, p2}
    Host = Host
    MaxLaunches = 1
    MaxCalls = 3
    MaxBoots = 1
CHECK_DEADLOCK FALSE
INVARIANT RemovedSessionIsOver
