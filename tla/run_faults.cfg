CONSTANTS
    MaxStamp = 2
    Scenarios = {{"phase3", "service", "recorder", "artifact"},
                 {"host", "interrupt"},
                 {"abort", "status", "artifact"},
                 {"crash", "fsync", "artifact"}}
SPECIFICATION RunSpec
INVARIANTS
    RunTypeOK
    CompletedIsEarned
    HandshakeOrder
    AbortWins
    ResultsAgree
PROPERTIES
    SilentAfterFreeze
\* start() returns and the containers exit; afterwards nothing need happen.
CHECK_DEADLOCK FALSE
