\* Two uploads with one name on one file system, and nothing goes wrong.
CONSTANTS
    Uploads = {u1, u2}
    NoUpload = NoUpload
    Library = Library
    Size = 1
    MaxChunk = 1
    Names = 2
    Taken = {{}}
    Faults = {}
    MaxFaults = 0
SPECIFICATION Spec
INVARIANT CompletedStays
SYMMETRY UploadSymmetry
CHECK_DEADLOCK FALSE
