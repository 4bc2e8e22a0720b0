SPECIFICATION FairSpec
CONSTANTS
    LanSock = {l1, l2}
    RelaySock = {r1}
    NoSocket = none
    MaxMissed = 1
    MaxOwed = 1
    MaxInbox = 1
INVARIANTS
    TypeOK
    SlotWillBeFreed
    BeliefIsBacked
PROPERTIES
    TerminatesOnlySilentPeers
    VanishedPeerLosesSlot
CHECK_DEADLOCK FALSE
