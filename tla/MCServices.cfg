SPECIFICATION MCSpec
CONSTANTS
    Film = film
    Show = show
    NoTitle = NoTitle
    Procs = {p1, p2}
    Deleters = {d1}
    Files = {f1}
    Manifest = manifest
    MaxId = 3
    Keep = 1
    MaxStorageFaults = 1
    Snapshots = {snap}
    Exports = {rows}
    Before = before
    Fresh = fresh
    Missing = missing
    MaxSecond = 1
    MaxRuns = 3
    Titles = {a, b}
    Size = 2
    MaxFaults = 1
    Asks <- MCAsks
    Films <- MCFilms
    Encoders = {"cpu", "nvenc", "vaapi"}
    MaxSeeks = 2
    MaxFallbacks = 1
    Shelves <- MCShelves
    MoveShows = {"show"}
    Looks = {1, 2}
    KeepFor = 1
    Timeout = 1
    MaxTicks = 4
    MaxLists = 2
INVARIANTS
    
    PlanSafe
    MovePlanSafe
    UnrecordedMoveSafe
    DashboardSafe
PROPERTIES
    BackupContract
    RestoreContract
    
CHECK_DEADLOCK FALSE
