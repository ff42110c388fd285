SPECIFICATION Spec
CONSTANTS
    Endpoints <- MCEndpoints
    Certs <- MCCerts
    NoCert = NoCert
    Apps <- MCApps
    Entries <- MCEntries
    MaxEntries = 2
CHECK_DEADLOCK FALSE
INVARIANT PositionAtApplication
