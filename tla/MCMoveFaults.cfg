\* A folder that is renamed and files that are copied, any write, copy or
\* removal may fail, and another program takes destinations; no restart.
CONSTANTS
    Titles = {film, show}
    NoTitle = NoTitle
    Folders = {film}
    Files = 2
    Cross = {show}
    Faults = {"io", "leftover", "apply", "journal", "foreign"}
    MaxCrashes = 0
SPECIFICATION Spec
INVARIANT NothingLost
 
