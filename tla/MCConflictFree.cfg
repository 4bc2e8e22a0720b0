SPECIFICATION Spec
CONSTANTS
    HostEdit = {h1, h2}
    ClientEdit = {c1}
INVARIANT ConflictFree
CHECK_DEADLOCK FALSE
