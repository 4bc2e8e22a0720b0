SPECIFICATION FairSpec
CONSTANTS
    HostEdit = {h1, h2}
    ClientEdit = {c1}
INVARIANTS
    TypeOK
    TurnsConverge
    TurnsFit
    NoEcho
    GuardIsReleased
PROPERTIES
    EditsArrive
CHECK_DEADLOCK FALSE
