\* A folder and a title of two files, both to another file system, with I/O
\* and catalogue failures and two restarts.
CONSTANTS
    Titles = {film, show}
    NoTitle = NoTitle
    Folders = {film}
    Files = 2
    Cross = {film, show}
    Faults = {"io", "leftover", "apply"}
    MaxCrashes = 2
SPECIFICATION FairSpec
INVARIANT JournalTrue
PROPERTIES Settles KeepsContract
