SPECIFICATION FairSpec
CONSTANTS
    Packets <- MCPackets
    Garbage <- MCGarbage
    Follows <- MCFollows
    RouteTable <- MCRouteTable
    MaxBuffer = 1000
CHECK_DEADLOCK FALSE
INVARIANTS TypeOK RoutedByUserName ForwardedInOrder
PROPERTIES CompleteConnectIsDecided
