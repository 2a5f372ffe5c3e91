CONSTANTS
    MaxStamp = 1
    Scenarios = {{"phase3"}, {"deadline", "stop"}}
SPECIFICATION HostFairSpec
PROPERTIES
    StartReturns
    RunCompletes
\* start() returns and the containers exit; afterwards nothing need happen.
CHECK_DEADLOCK FALSE
