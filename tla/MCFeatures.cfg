SPECIFICATION Spec
CONSTANTS
    Request = {r1, r2}
    MaxSession = 2
    Reader = {a1, a2, a3}
    MaxEntry = 2
    Path <- MCPath
    Folder <- MCFolder
    Ignored <- MCIgnored
    MaxFileOp = 3
    GitState <- MCGitState
    LaterGitState <- MCLaterGitState
    GitPath = {"p", "q", "i"}
    GitIgnored = {"i"}
    MaxGitEvent = 2
    DiagFile = {f1, f2}
    MaxDiagChange = 3
    CursorFile = {c1, c2}
    MaxMove = 3
    Entity = {e1, e2}
    MaxBoardOp = 3
    MaxHistory = 2
INVARIANTS
    FeaturesTypeOK
    AnswersFit
    WaitersAreHeld
    TreeFollows
    StatusFollows
    OriginalIsCurrent
    DiagnosticsFollow
    UncontestedEntitiesAgree
PROPERTIES
    RequestsAreSettled
    FollowSettles
CHECK_DEADLOCK FALSE
