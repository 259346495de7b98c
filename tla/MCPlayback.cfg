SPECIFICATION MCSpec
CONSTANTS
    s1 = s1
    s2 = s2
    d1 = d1
    Sessions = {s1, s2}
    NoSession = none
    Replaces <- MCReplaces
    Plays <- MCPlays
    Deleters = {d1}
    SlotChoices = {1, 2}
    MaxTouches = 1
    Seekers = {r1}
    Nobody = nobody
    MaxStarts = 3
    Requests = {r1, r2}
    Last = 2
    LookAhead = 1
    MaxRuns = 3
    Handlers = {h1}
    Length = 2
    Resumable = {1, 2}
    LastTenth = {2}
    Finished = {2}
    Jump = 2
    MaxReports = 3
    MaxFaults = 1
INVARIANTS
    
    PipelineSafe
    ProgressSafe
PROPERTY PlaybackEnds
CHECK_DEADLOCK FALSE
