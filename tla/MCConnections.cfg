SPECIFICATION MCSpec
CONSTANTS
    Movies = {f, u, m}
    Failing = {f}
    Unclear = {u}
    Limit = 2
    Automatic = automatic
    Chosen = chosen
    NoId = noid
    Admins = {a1}
    Refreshers = {q1}
    Tokens = {t1, t2, t3}
    Accepted = {t1, t2}
    NoToken = none
    MaxFaults = 2
    MaxChanges = 2
    Calls = {c1, c2}
    TripAfter = 2
    MaxOutages = 1
    MaxEdits = 1
    Settings = {a, b}
    Values = {0, 1}
    Bootstrap = 0
    Savers = {s1}
    Watcher = w
    MaxSaves = 3
    MaxLosses = 1
    Nodes = {n1}
    NoNode = nobody
    SoftFailures = 2
    MaxChangesOfMind = 1
    MaxFlips = 1
    Viewers = {v1, v2, v3}
    Near = 1
    Exit = 0
    Hard = 4
    Quorum = 3
    Cooldown = 1
    Hold = 1
    Override = 3
    Widest = 6
    MaxUpsets = 2
    MaxApplies = 1
    MaxToggles = 1
    MaxChecks = 1
    MaxRestarts = 1
PROPERTIES
    MatchingContract
    GatewayContract
    OutageContract
    ConfigContract
    
    TimelineContract
    UpdateEnds
CHECK_DEADLOCK FALSE
