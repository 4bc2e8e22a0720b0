SPECIFICATION Spec
CONSTANTS
    Conn = {c1, c2, c3}
    None = none
INVARIANTS
    TypeOK
    RoutedComponentsAreLive
    RouterFollowsSync
    ServedWhenSetupEnds
    GrantReachesClient
    ComponentsWillBeDisposed
SYMMETRY ConnSymmetry
CHECK_DEADLOCK FALSE
