SPECIFICATION Spec
CONSTANTS
    Conn = {c1, c2, c3}
    None = none
INVARIANT TreeAfterWelcome
SYMMETRY ConnSymmetry
CHECK_DEADLOCK FALSE
