SPECIFICATION FairSpec
CONSTANTS
    Callers = {p1, p2, p3}
    MaxLoops = 2
    MaxPublished = 1
    DisconnectMayFail = TRUE
    Free = Free
CHECK_DEADLOCK FALSE
INVARIANTS TypeOK StoppableUnlessOvertaken TruthfulUnlessOvertaken
PROPERTIES StoppedClientIsSilent StopReturns CancelledLoopEnds StoppedLoopIsOver
