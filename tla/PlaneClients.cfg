SPECIFICATION FairSpec
CONSTANTS
    c1 = c1
    c2 = c2
    cert = cert
    NoCert = NoCert
    Unseen = Unseen
    Broker = Broker
    Conns = {c1, c2}
    Own <- MCOwn
    Spreads <- MCSpreads
CHECK_DEADLOCK FALSE
INVARIANTS TypeOK NoForeignCertificate NoPumpOutlivesHandler
PROPERTIES StopEnds StopEndsHandlers EitherEndEndsBridge
