SPECIFICATION EvidenceSpec
CONSTANTS
    Expected = 2
    Sent = 3
    MaxMishaps = 1
    Frames = 3
    Freshness = 2
    MaxFaults = 1
    LogServices = {"a", "b"}
    HostModule = "a"
    MaxLogMishaps = 2
    MaxGzFaults = 1
INVARIANTS
    EvidenceTypeOK
    VideoIsEvidence
    BagIsEvidence
    LogsAreEvidence
    ServerIsEvidence
PROPERTIES
    ProducersEnd
\* A producer that has ended does nothing more.
CHECK_DEADLOCK FALSE
