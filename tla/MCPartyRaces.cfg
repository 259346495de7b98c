\* Two requests at a time and a share guest; no restart, no database errors.
CONSTANTS
    Principals = {alice, bob}
    Guests = {bob}
    PartyOnly = {}
    NoOne = NoOne
    Handlers = {h1, h2}
    Ticker = Ticker
    HostGrace = 0
    MemberLease = 0
    QuorumMin = 2
    MaxSeq = 1
    MaxCrashes = 0
    DbFails = FALSE
SPECIFICATION Spec
SYMMETRY HandlerSymmetry
INVARIANT OnlyRacedBansEnter
CHECK_DEADLOCK FALSE
