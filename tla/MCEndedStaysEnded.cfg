\* What the documentation says of EndedStaysEnded, against the code's interleavings.
CONSTANTS
    Principals = {alice, bob}
    Guests = {}
    PartyOnly = {}
    NoOne = NoOne
    Handlers = {h1, h2}
    Ticker = Ticker
    HostGrace = 0
    MemberLease = 0
    QuorumMin = 2
    MaxSeq = 2
    MaxCrashes = 1
    DbFails = FALSE
SPECIFICATION Spec
INVARIANT EndedStaysEnded
CHECK_DEADLOCK FALSE
