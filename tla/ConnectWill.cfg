SPECIFICATION FairSpec
CONSTANTS
    Packets <- WillPackets
    Garbage <- NoGarbage
    Follows <- WaitForConnack
    RouteTable <- MCRouteTable
    MaxBuffer = 1000
CHECK_DEADLOCK FALSE
PROPERTY ConnectIsDecided
