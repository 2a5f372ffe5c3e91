SPECIFICATION CompanionSpec
CONSTANTS
    Plans <- MCPlans
    MaxRunMishaps = 1
    LastTick = 4
    MaxRequests = 2
    BufferSize = 2
    AnchorFrames = 1
    ReacquireFrames = 2
    HoldTicks = 1
    LastDirectStamp = 1
    MaxWire = 1
    HoverStamps = 1
    MaxDirectMishaps = 1
INVARIANT CommandsAreSafe
PROPERTIES EndIsFinal
CHECK_DEADLOCK FALSE
