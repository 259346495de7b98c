\* Two uploads of two pieces with one name, on one file system or on two, and
\* one request, statement, copy or removal that fails, or one restart.
CONSTANTS
    Uploads = {u1, u2}
    NoUpload = NoUpload
    Library = Library
    Size = 2
    MaxChunk = 2
    Names = 2
    Taken = {{}, {1}}
    Faults = {"io", "db", "crash", "cross"}
    MaxFaults = 1
SPECIFICATION FairSpec
INVARIANTS OffsetStaged CompletePlaced PlacedOnce
PROPERTY AbandonedEnds
CHECK_DEADLOCK FALSE
