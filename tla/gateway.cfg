CONSTANTS
    atS = atS
    aloft = aloft
    thisRun = thisRun
    otherRun = otherRun
    a = a
    b = b
    None = None
    Markers <- mcMarkers
    Places <- mcPlaces
    ZonesAt <- mcZonesAt
    CloseTo <- mcCloseTo
    PickupZones <- mcPickupZones
    Ids = {a, b}
    ValidIds = {a, b}
    RunId = thisRun
    Requests <- mcRequests
    Callers = {"c1", "c2"}
    NumThreads = 3
    MaxResponses = 2
    Horizon = 1
    VehicleFacts <- mcVehicleFacts
    PayloadFacts <- mcPayloadFacts
SPECIFICATION GatewayFairSpec
INVARIANTS
    GatewayTypeOK
    OneWirePerCommand
    RepliesAreStable
    EventsAreTruthful
    AcceptedWasSent
PROPERTIES
    SilentAfterQuiescence
    OperationCompletes
CHECK_DEADLOCK FALSE
