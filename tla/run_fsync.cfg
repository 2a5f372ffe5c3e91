CONSTANTS
    MaxStamp = 1
    Scenarios = {{"fsync"}}
SPECIFICATION RunSpec
INVARIANTS
    ForegroundAgrees
\* start() returns and the containers exit; afterwards nothing need happen.
CHECK_DEADLOCK FALSE
