SPECIFICATION Spec
CONSTANTS
    HostConn = {h1, h2, h3}
    ClientConn = {c1, c2}
    None = None
INVARIANT NextClientCanJoin
CHECK_DEADLOCK FALSE
