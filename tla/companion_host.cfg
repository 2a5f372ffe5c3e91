SPECIFICATION EntriesSpec
CONSTANTS
    LastStamp = 2
    MaxEvents = 2
    MaxHostMishaps = 1
    MaxAttempts = 2
PROPERTIES HostIsOrderly AttemptIsSafe CompanionEnds
\* The process ends.
CHECK_DEADLOCK FALSE
