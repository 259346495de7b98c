\* Two people, one of them a guest account limited to parties; one request
\* at a time besides the tick, a restart and failing database writes.
CONSTANTS
    Principals = {alice, bob}
    Guests = {}
    PartyOnly = {bob}
    NoOne = NoOne
    Handlers = {h1}
    Ticker = Ticker
    HostGrace = 0
    MemberLease = 1
    QuorumMin = 2
    MaxSeq = 2
    MaxCrashes = 1
    DbFails = TRUE
SPECIFICATION FairSpec
INVARIANTS HostOK
PROPERTIES OwnerHosts HostResponsive
CHECK_DEADLOCK FALSE
