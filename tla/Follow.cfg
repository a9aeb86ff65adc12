CONSTANTS
    c1 = c1
    c2 = c2
    None = None
    j1 = j1
    j2 = j2
    Jobs = {j1, j2}
    Conns = {c1, c2}
    Key <- MCKey
    MaxTotal = 2
    MaxPerKey = 1
    HasTtl = TRUE
    Starts <- MCStarts
    Outcomes = {"COMPLETED"}
    MaxGestures = 2
    MaxFailures = 2
SPECIFICATION FairSpec
INVARIANTS SlotsAreKept
PROPERTIES PanelNeverGoesBack FollowingEnds
CHECK_DEADLOCK FALSE
