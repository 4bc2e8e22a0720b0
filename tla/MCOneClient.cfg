SPECIFICATION Spec
CONSTANTS
    LanSock = {l1, l2, l3}
    RelaySock = {}
    NoSocket = none
    MaxMissed = 1
    MaxOwed = 1
    MaxInbox = 1
INVARIANT OneClientAtATime
CHECK_DEADLOCK FALSE
