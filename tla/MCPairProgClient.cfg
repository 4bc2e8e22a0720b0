SPECIFICATION FairSpec
CONSTANTS
    Sock = {s1, s2, s3}
    NoSocket = none
    MaxAttempts = 15
INVARIANTS
    TypeOK
    OneConnection
    HeartbeatMatchesConnection
PROPERTIES
    EndIsFinal
    VanishedHostIsNoticed
CHECK_DEADLOCK FALSE
