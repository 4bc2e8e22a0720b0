SPECIFICATION FairSpec
CONSTANTS
    HostConn = {h1, h2}
    ClientConn = {c1, c2}
    None = None
INVARIANTS
    TypeOK
    RolesAreConnected
    NothingOutlivesRoom
PROPERTIES
    DepartureReachesHost
CHECK_DEADLOCK FALSE
