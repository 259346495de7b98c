SPECIFICATION MCSpec
CONSTANTS
    Outer = "outer"
    Inner = "inner"
    Files = {"film", "show"}
    Nested = {"film"}
    KindOf <- MCKindOf
    Scans = {s1, s2}
    MaxEvents = 2
    Original = orig
    Deputy = dep
    Staff = staff
    Guest = guest
    Newcomers = {n1, n2}
    Requests = {1, 2}
    Devices = 1
    MaxDbFaults = 1
    Homes = {h1, h2}
    First = h1
    Second = h2
    Ann = ann
    Bob = bob
    Cat = cat
    Posts = {1, 2, 3}
    MaxHomeFaults = 1
    ann = ann
    bob = bob
    Openings = {1, 2, 3}
    Early = {1, 2}
    ViewerOf <- MCViewerOf
    NoViewer = nobody
    Editors = {1, 2}
    Policies <- MCPolicies
    MaxGen = 2
    MaxApplies = 2
    MaxToggles = 1
    MaxChecks = 1
    MaxRestarts = 1
    Root = root
    Member = member
    NoOne = noone
    Newbies = {n1, n2}
    Discords = {d1, d2}
    Flows = {1, 2}
    Chores = {1}
    MaxDrops = 1
    Plays = {p1, p2}
    MaxPlays = 1
    MaxKept = 2
    NotableKeep = 1
    Bursts = {1}
    Every = 2
    Retention = 1
    SweepEvery = 1
    Batches = {1, 2, 3}
    Largest = 2
    MaxServed = 1
    MaxTime = 3
    Hosts = {"a", "b", "c"}
    Tier <- MCTier
    Nobody = "nobody"
    MinEvidence = 4
    MaxScopes = 2
    MaxAttempts = 2
    Band = 100
    Edits = {1, 2}
    Wishes = {"prefer", "exclude"}
    Stored <- MCStored
    Starts = {1}
    MaxReports = 1
    MaxHalvings = 1
    MaxCrashes = 1
    Blamed = {"a"}
    Labels <- MCLabels
    Scenes <- MCScenes
 
PROPERTIES
    
    FlightContract
    RankingContract
    
    
    
    
CHECK_DEADLOCK FALSE
