SPECIFICATION Spec
CONSTANTS
    Callers = {p1, p2}
    MaxLoops = 2
    MaxPublished = 1
    DisconnectMayFail = FALSE
    Free = Free
CHECK_DEADLOCK FALSE
INVARIANT ActiveLoopIsStoppable
