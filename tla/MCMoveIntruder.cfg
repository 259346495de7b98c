\* A destination taken by another program, and one restart.
CONSTANTS
    Titles = {film, show}
    NoTitle = NoTitle
    Folders = {film}
    Files = 2
    Cross = {film, show}
    Faults = {"foreign"}
    MaxCrashes = 1
SPECIFICATION Spec
INVARIANT NothingLost
