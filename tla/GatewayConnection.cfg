SPECIFICATION FairSpec
CONSTANTS
    c1 = c1
    c2 = c2
    Conns = {c1, c2}
    BaseDomain <- MCBaseDomain
    RouteTable <- MCRouteTable
    Labels <- MCLabels
    Fold <- MCFold
    Blanks <- MCBlanks
    Hellos <- MCHellos
    Arrivals <- MCArrivals
    HeaderLen = 1
    HelloLen = 3
    BufferSize = 2
    MaxSent <- MCMaxSent
CHECK_DEADLOCK FALSE
INVARIANTS TypeOK StreamsIntact GracefulCloseDelivers NoPumpOutlivesHandler RefusalsJustified
PROPERTIES RelaySpec StopEndsHandlers HangUpEndsHandler BacklogServed
