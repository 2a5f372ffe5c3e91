CONSTANTS
    MaxStamp = 1
    Scenarios = {{"abort"}}
SPECIFICATION RunFairSpec
PROPERTIES
    RequestLeadsToFreeze
\* start() returns and the containers exit; afterwards nothing need happen.
CHECK_DEADLOCK FALSE
